---------------------------- MODULE YoutubeItem -----------------------------
(***************************************************************************)
(* The life of one YouTube item: its preparation (collection-prepare.ts),  *)
(* the routes people use (routes/youtube.ts and the YouTube branch of      *)
(* routes/calendar.ts), its BullMQ jobs, the recovery pass                 *)
(* (dispatch-recovery.ts) and its publication (youtube.ts), whose upload   *)
(* is YoutubeUpload's.                                                     *)
(*                                                                         *)
(* A database statement or transaction is one action. Nothing locks an     *)
(* item while it is published: MaxOverlaps bounds how often an executor    *)
(* claims it, or a route marks it failed, beside an executor at work.      *)
(***************************************************************************)
EXTENDS YoutubeUpload

CONSTANTS
  Kinds,        \* {TRUE, FALSE}: collection items, items with a file of their own
  MaxVersion,   \* bound: queueVersion
  MaxRevision,  \* bound: edits of the content
  MaxFaults,    \* bound: crashes of workers and of the API
  MaxCalls,     \* bound: routes on their way from the commit to the queue
  MaxOverlaps   \* bound: writes beside an executor at work

ASSUME ItemConstants ==
  /\ Kinds \subseteq BOOLEAN
  /\ MaxVersion \in Nat /\ MaxRevision \in Nat \ {0} /\ MaxFaults \in Nat
  /\ MaxCalls \in Nat \ {0} /\ MaxOverlaps \in Nat

VARIABLES
  jobs,      \* job id -> BullMQ job
  calls,     \* routes that committed and have yet to reach the queue
  preparer,  \* who holds the advisory lock youtube-prepare:<id>
  agreed,    \* the content and the source snapshot approved last
  overlaps, faults

people == <<calls, agreed>>
youtube == <<collection, google, source, unanswered>>
vars == <<collection, item, google, source, unanswered, pc, ctx, jobs, calls, preparer,
          agreed, overlaps, faults>>

\* Job ids: youtube-<id>, youtube-<id>-v<n>, youtube-prepare-<id>-v<n>.
Plain == <<"plain", 0>>
Dated(n) == <<"dated", n>>
Prepare(n) == <<"prepare", n>>
Keys == {Plain} \cup {Dated(n) : n \in 1 .. MaxVersion} \cup {Prepare(n) : n \in 0 .. MaxVersion}

NoJob == [state |-> "none", version |-> 0, stalled |-> FALSE, owner |-> None]
Waiting(n) == [NoJob EXCEPT !.state = "waiting", !.version = n]
Live(k) == jobs[k].state \in {"waiting", "active"}

Statuses == {"waiting_video", "preparing", "waiting_approval", "approved", "queued", "uploading",
             "processing", "published", "failed", "cancelled", "rejected"}

NewItem(status, media) ==
  [status |-> status, version |-> 0, approved |-> FALSE, rev |-> 1, date |-> "none",
   session |-> None, uri |-> 0, video |-> None, unknown |-> FALSE,
   changed |-> FALSE, remote |-> 0, media |-> media, cover |-> FALSE]

Blank == NewItem("waiting_video", FALSE)

IdleCtx ==
  [version |-> 0, seen |-> "queued", mine |-> Copy(Blank), offset |-> 0,
   probe |-> FALSE, recoveries |-> 0, stays |-> FALSE, error |-> "none"]

\* Imported from a collection, uploaded by a person, made by a workflow without
\* its file, or with a file that could not be fetched.
Init ==
  /\ collection \in Kinds
  /\ \/ collection /\ item = Blank
     \/ ~collection /\ item \in {NewItem("waiting_approval", TRUE), Blank, NewItem("failed", FALSE)}
  /\ google = [s \in Sessions |-> Unopened]
  /\ source = 1 /\ unanswered = FALSE
  /\ pc = [w \in Workers |-> "idle"]
  /\ ctx = [w \in Workers |-> IdleCtx]
  /\ jobs = [k \in Keys |-> NoJob]
  /\ calls = IF collection THEN {[kind |-> "prepare", version |-> 0]} ELSE {}
  /\ preparer = None
  /\ agreed = [rev |-> 0, remote |-> 0]
  /\ overlaps = 0 /\ faults = 0

-----------------------------------------------------------------------------
(* Jobs and executors.                                                      *)

\* A delayed job starts at the time its row was scheduled for.
StartJob(w, k) ==
  /\ pc[w] = "idle" /\ jobs[k].state = "waiting"
  /\ k[1] = "prepare" \/ jobs[k].version # item.version \/ item.date # "future"
  /\ jobs' = [jobs EXCEPT ![k].state = "active", ![k].owner = w]
  /\ ctx' = [ctx EXCEPT ![w].version = jobs[k].version]
  /\ Goto(w, IF k[1] = "prepare" THEN "prepLock" ELSE "read")
  /\ UNCHANGED <<youtube, item, people, preparer, overlaps, faults>>

\* pollCollectionImages prepares videos in the worker process, without a job.
PollImages(w) ==
  /\ pc[w] = "idle"
  /\ collection /\ item.status \in {"waiting_video", "preparing"}
  /\ ctx' = [ctx EXCEPT ![w].version = item.version]
  /\ Goto(w, "prepLock")
  /\ UNCHANGED <<youtube, item, jobs, people, preparer, overlaps, faults>>

\* The handler returns or throws; its job is still active.
End(w) ==
  /\ pc' = [pc EXCEPT ![w] = "finish"]
  /\ ctx' = [ctx EXCEPT ![w] = IdleCtx]

\* An import's preparation has a second attempt, every other job one; what that
\* attempt would do, PollImages may do at any time.
FinishJob(w) ==
  /\ pc[w] = "finish"
  /\ jobs' = [k \in Keys |-> IF jobs[k].owner = w THEN NoJob ELSE jobs[k]]
  /\ Goto(w, "idle")
  /\ UNCHANGED <<youtube, item, ctx, people, preparer, overlaps, faults>>

Publishable == item.approved /\ item.status \in {"queued", "uploading", "processing"}

Read(w) ==
  /\ pc[w] = "read"
  /\ IF Publishable /\ item.version = ctx[w].version
     THEN Goto(w, "claim") /\ ctx' = [ctx EXCEPT ![w].seen = item.status]
     ELSE End(w)
  /\ UNCHANGED <<youtube, item, jobs, people, preparer, overlaps, faults>>

Publishing == {"authenticate", "source", "post", "saveSession", "put", "saveMoved", "saveVideo",
               "processing", "cover", "poll", "playlist", "publish", "fail"}

\* One more write to an item that an executor is publishing.
Overlap ==
  LET beside == IF \E v \in Workers : pc[v] \in Publishing THEN 1 ELSE 0
  IN overlaps + beside <= MaxOverlaps /\ overlaps' = overlaps + beside

Claimable_AnyVersion(w) == item.status = ctx[w].seen

Claimable(w) == item.status = ctx[w].seen /\ item.version = ctx[w].version

\* UPDATE ... WHERE status is the one just read AND queueVersion RETURNING.
Claim(w) ==
  /\ pc[w] = "claim"
  /\ IF Claimable(w)
     THEN LET next == [item EXCEPT !.status = IF item.video # None THEN "processing"
                                              ELSE "uploading"]
          IN /\ Overlap
             /\ item' = next
             /\ ctx' = [ctx EXCEPT ![w] = [IdleCtx EXCEPT !.mine = Copy(next)]]
             /\ Goto(w, "authenticate")
     ELSE End(w) /\ UNCHANGED <<item, overlaps>>
  /\ UNCHANGED <<youtube, jobs, people, preparer, faults>>

\* The workspace must be active, the connection usable, the token fresh.
Authenticate(w) ==
  /\ pc[w] = "authenticate"
  /\ \/ Throw(w, "error")
     \/ Goto(w, IF ctx[w].mine.video = None THEN "source" ELSE "cover") /\ UNCHANGED ctx
  /\ item' = WithSettings(item, ctx[w].mine)
  /\ UNCHANGED <<youtube, jobs, people, preparer, overlaps, faults>>

Upload(w) ==
  /\ UploadStep(w)
  /\ UNCHANGED <<jobs, people, preparer, overlaps, faults>>

MarkProcessing(w) ==
  /\ pc[w] = "processing"
  /\ item' = [item EXCEPT !.status = "processing", !.video = ctx[w].mine.video]
  /\ Goto(w, "cover")
  /\ UNCHANGED <<youtube, ctx, jobs, people, preparer, overlaps, faults>>

\* A cover that was set is not sent again.
SetCover(w) ==
  /\ pc[w] = "cover"
  /\ \/ /\ ctx' = [ctx EXCEPT ![w].mine.cover = TRUE]
        /\ item' = WithSettings(item, [ctx[w].mine EXCEPT !.cover = TRUE])
        /\ Goto(w, "poll")
     \/ ~ctx[w].mine.cover /\ Throw(w, "error") /\ UNCHANGED item
  /\ UNCHANGED <<youtube, jobs, people, preparer, overlaps, faults>>

Poll_Once(w) ==
  /\ pc[w] = "poll"
  /\ Goto(w, "playlist")
  /\ UNCHANGED <<youtube, item, ctx, jobs, people, preparer, overlaps, faults>>

\* Sixty polls: processed, failed, or still processing. YouTube finishes a video
\* when it likes, so the first poll that sees it decides.
Poll(w) ==
  /\ pc[w] = "poll"
  /\ \/ /\ google' = [google EXCEPT ![ctx[w].mine.video].video = "processed"]
        /\ Goto(w, "playlist") /\ UNCHANGED ctx
     \/ Throw(w, "error") /\ UNCHANGED google
  /\ UNCHANGED <<collection, source, unanswered, item, jobs, people, preparer, overlaps, faults>>

InPlaylist(w) == google[ctx[w].mine.video].listed > 0

\* attachYoutubePlaylist under its advisory lock: the entries are read, the
\* video is inserted unless it is there. Any of its requests may fail, the
\* insertion also after it happened.
AttachPlaylist(w) ==
  /\ pc[w] = "playlist"
  /\ LET listed == IF InPlaylist(w) THEN google
                   ELSE [google EXCEPT ![ctx[w].mine.video].listed = @ + 1]
     IN \/ Goto(w, "publish") /\ google' = listed /\ UNCHANGED ctx
        \/ Throw(w, "error") /\ google' \in {google, listed}
  /\ item' = WithSettings(item, ctx[w].mine)
  /\ UNCHANGED <<collection, source, unanswered, jobs, people, preparer, overlaps, faults>>

MarkPublished(w) ==
  /\ pc[w] = "publish"
  /\ item' = [item EXCEPT !.status = "published"]
  /\ End(w)
  /\ UNCHANGED <<youtube, jobs, people, preparer, overlaps, faults>>

Lesson_Changed(c) == [c.mine EXCEPT !.changed = @ \/ c.error = "changed"]

\* What the catch adds to the settings.
Lesson(c) ==
  [c.mine EXCEPT
    !.unknown = @ \/ (c.error = "ambiguous" /\ c.mine.session = None /\ c.mine.video = None),
    !.changed = @ \/ c.error = "changed"]

\* The catch writes its outcome over whatever the row is by now.
Fail(w) ==
  /\ pc[w] = "fail"
  /\ item' = [WithSettings(item, Lesson(ctx[w])) EXCEPT !.status = "failed"]
  /\ unanswered' = (unanswered \/ ctx[w].error = "ambiguous")
  /\ End(w)
  /\ UNCHANGED <<collection, google, source, jobs, people, preparer, overlaps, faults>>

-----------------------------------------------------------------------------
(* Preparation of a collection item, under the item's advisory lock.        *)

\* Nothing to do, or the image limit asks to come back later.
PrepareLock(w) ==
  /\ pc[w] = "prepLock" /\ preparer = None
  /\ \/ End(w) /\ UNCHANGED preparer
     \/ /\ collection /\ item.video = None /\ item.session = None
        /\ preparer' = w
        /\ Goto(w, "prepClaim") /\ UNCHANGED ctx
  /\ UNCHANGED <<youtube, item, jobs, people, overlaps, faults>>

Preparable(w) ==
  /\ item.version = ctx[w].version /\ ~item.approved
  /\ item.status \in {"waiting_video", "failed", "preparing"}

PrepareClaim(w) ==
  /\ pc[w] = "prepClaim"
  /\ IF Preparable(w)
     THEN /\ item' = [item EXCEPT !.status = "preparing"]
          /\ ctx' = [ctx EXCEPT ![w].mine = Copy(item)]
          /\ Goto(w, "prepInspect") /\ UNCHANGED preparer
     ELSE End(w) /\ preparer' = None /\ UNCHANGED item
  /\ UNCHANGED <<youtube, jobs, people, overlaps, faults>>

StillPreparing(w) == item.version = ctx[w].version /\ item.status = "preparing"

\* The link is checked afresh and its snapshot taken; then the video, the images
\* and the cover are looked at. Each may fail, images may have to wait.
PrepareInspect(w) ==
  /\ pc[w] = "prepInspect"
  /\ LET mine == ctx[w].mine
         cleared == [mine EXCEPT !.remote = 0, !.media = FALSE]
         checked == [cleared EXCEPT !.remote = source, !.changed = FALSE]
     IN \E end \in {<<mine, "prepFailed">>, <<cleared, "prepFailed">>, <<checked, "prepFailed">>,
                    <<checked, "prepLater">>, <<checked, "prepReady">>} :
          /\ ctx' = [ctx EXCEPT ![w].mine = end[1]]
          /\ Goto(w, end[2])
          /\ item' = IF StillPreparing(w) THEN WithSettings(item, end[1]) ELSE item
  /\ UNCHANGED <<youtube, jobs, people, preparer, overlaps, faults>>

Prepared(w) ==
  CASE pc[w] = "prepReady" -> "waiting_approval"
    [] pc[w] = "prepLater" -> "waiting_video"
    [] OTHER -> "failed"

PrepareEnd(w) ==
  /\ pc[w] \in {"prepReady", "prepLater", "prepFailed"}
  /\ item' = IF StillPreparing(w)
             THEN [WithSettings(item, ctx[w].mine) EXCEPT !.status = Prepared(w)] ELSE item
  /\ preparer' = None
  /\ End(w)
  /\ UNCHANGED <<youtube, jobs, people, overlaps, faults>>

-----------------------------------------------------------------------------
(* People. A route commits, then its call reaches the queue (Enqueue).      *)

Call(kind, n) ==
  /\ Cardinality(calls) < MaxCalls
  /\ calls' = calls \cup {[kind |-> kind, version |-> n]}
Agree(row) == agreed' = [rev |-> row.rev, remote |-> row.remote]
Internal == UNCHANGED <<youtube, pc, ctx, jobs, preparer, overlaps, faults>>

\* PATCH /youtube/items/:id/media
PatchMedia ==
  /\ item.status = "waiting_video"
  /\ item' = [item EXCEPT !.media = TRUE, !.status = "waiting_approval"]
  /\ UNCHANGED people /\ Internal

\* POST /youtube/items/:id/resolve; an approval may come with other wording.
Resolve ==
  /\ item.status = "waiting_approval"
  /\ \/ item' = [item EXCEPT !.status = "rejected"] /\ UNCHANGED people
     \/ /\ item.date # "due"
        /\ \E rev \in {item.rev, item.rev + 1} :
             /\ rev <= MaxRevision
             /\ item' = [item EXCEPT !.status = "queued", !.approved = TRUE, !.rev = rev]
        /\ Call("plain", item.version) /\ Agree(item')
  /\ Internal

\* POST /youtube/items/:id/cancel, and a disconnected account.
Cancel ==
  /\ item.status = "queued"
  /\ item' = [item EXCEPT !.status = "cancelled"]
  /\ UNCHANGED people /\ Internal

Unstarted == item.session = None /\ item.video = None

\* POST /youtube/items/:id/retry
Retriable == item.status = "failed" /\ ~(item.unknown /\ Unstarted)

RetryPrepare ==
  /\ Retriable /\ Unstarted
  /\ collection /\ (~item.approved \/ item.changed)
  /\ item.version < MaxVersion
  /\ item' = [item EXCEPT !.status = "waiting_video", !.version = @ + 1, !.approved = FALSE,
                          !.changed = FALSE]
  /\ Call("prepare", item.version + 1) /\ UNCHANGED agreed /\ Internal

\* The route fetches the file itself.
RetryFetch ==
  /\ Retriable /\ Unstarted /\ ~item.approved /\ ~collection
  /\ item' = [item EXCEPT !.status = "waiting_approval", !.media = TRUE]
  /\ UNCHANGED people /\ Internal

RetrySend_Afresh ==
  /\ Retriable /\ item.approved
  /\ ~(Unstarted /\ collection /\ item.changed)
  /\ item' = [item EXCEPT !.status = "queued", !.session = None, !.video = None]
  /\ Call("plain", item.version) /\ UNCHANGED agreed /\ Internal

RetrySend ==
  /\ Retriable /\ item.approved
  /\ ~(Unstarted /\ collection /\ item.changed)
  /\ item' = [item EXCEPT !.status = "queued"]
  /\ Call("plain", item.version) /\ UNCHANGED agreed /\ Internal

\* mutateCalendarItem: a row that is being prepared or sent, or was published,
\* stays; a collection item nobody checked yet only stops or changes.
Movable ==
  item.status \notin {"waiting_video", "preparing", "uploading", "processing", "published"}
Checked == ~collection \/ item.video # None \/ item.remote # 0 \/ item.media

\* The transaction bumps the version; a publication job follows for a dated,
\* approved item.
Commit(row, kind) ==
  /\ item.version < MaxVersion
  /\ item' = [row EXCEPT !.version = @ + 1]
  /\ Call(kind, item.version + 1)
  /\ Internal

Dispatched(row) ==
  IF ~row.approved THEN [row EXCEPT !.status = "waiting_approval"]
  ELSE [row EXCEPT !.status = IF row.date = "none" THEN "approved" ELSE "queued"]
Task(row) == IF Dispatched(row).status = "queued" THEN "dated" ELSE "drop"

Schedule ==
  /\ Movable /\ Checked /\ Unstarted
  /\ \E date \in {"none", "future"} :
       LET row == [item EXCEPT !.date = date] IN Commit(Dispatched(row), Task(row))
  /\ UNCHANGED agreed

\* An edit withdraws the approval; another link or cover is prepared again.
Edit ==
  /\ Movable /\ Unstarted /\ item.rev < MaxRevision
  /\ LET row == [item EXCEPT !.rev = @ + 1, !.approved = FALSE]
     IN \/ /\ ~collection \/ item.remote # 0
           /\ Commit([row EXCEPT !.status = "waiting_approval"], "drop")
        \/ /\ collection
           /\ \E remote \in {0, item.remote} :
                Commit([row EXCEPT !.status = "waiting_video", !.remote = remote,
                                   !.media = @ /\ remote # 0],
                       "datedPrepare")
  /\ UNCHANGED agreed

Stop ==
  /\ Movable
  /\ Commit([item EXCEPT !.status = "cancelled"], "drop")
  /\ UNCHANGED agreed

CalendarRetry ==
  /\ item.status = "failed" /\ item.approved /\ Checked
  /\ Commit([item EXCEPT !.status = "queued", !.date = IF @ = "none" THEN "due" ELSE @], "dated")
  /\ UNCHANGED agreed

CalendarApprove ==
  /\ item.status = "waiting_approval" /\ Checked /\ item.video = None
  /\ item.date # "due"
  /\ LET row == [item EXCEPT !.approved = TRUE]
     IN Commit(Dispatched(row), Task(row)) /\ Agree(row)

CalendarReject ==
  /\ item.status = "waiting_approval"
  /\ Commit([item EXCEPT !.status = "rejected", !.approved = FALSE], "drop")
  /\ UNCHANGED agreed

\* collectionDiff: a row whose item reached YouTube, or is on its way, is locked.
Locked == item.video # None \/ item.session # None
          \/ item.status \in {"uploading", "processing", "published", "preparing"}

\* The changed row of a spreadsheet replaces the item's content and date. A new
\* link forgets the file that was checked.
Imported(relinked, date, rev, status) ==
  [item EXCEPT !.status = status, !.version = @ + 1, !.approved = FALSE,
               !.rev = rev, !.date = date,
               !.remote = IF relinked THEN 0 ELSE @, !.media = @ /\ ~relinked]

\* POST /content-collections/apply
Import ==
  /\ collection /\ ~Locked
  /\ item.version < MaxVersion
  /\ \E relinked \in BOOLEAN, date \in {item.date, "none", "future"},
        rev \in {item.rev, item.rev + 1}, status \in {"waiting_video", "waiting_approval"} :
       /\ rev <= MaxRevision /\ (relinked => rev > item.rev)
       /\ status = "waiting_approval" => ~relinked /\ item.remote # 0
       /\ item' = Imported(relinked, date, rev, status)
       /\ IF status = "waiting_video" THEN Call("prepare", item.version + 1) ELSE UNCHANGED calls
  /\ UNCHANGED agreed /\ Internal

\* The row is gone from the spreadsheet.
RemoveRow ==
  /\ collection /\ ~Locked
  /\ item.version < MaxVersion
  /\ item' = [item EXCEPT !.status = "cancelled", !.version = @ + 1, !.approved = FALSE]
  /\ UNCHANGED people /\ Internal

\* POST /content-collections/update-published: one transaction around the
\* requests; it rolls back when one of them, or its answer, is lost.
UpdatePublished ==
  /\ collection /\ item.status = "published"
  /\ item.version < MaxVersion /\ item.rev < MaxRevision
  /\ google' = [google EXCEPT ![item.video].rev = item.rev + 1]
  /\ agreed' = [agreed EXCEPT !.rev = item.rev + 1]
  /\ item' \in {item, [item EXCEPT !.version = @ + 1, !.rev = @ + 1]}
  /\ UNCHANGED <<collection, source, unanswered, pc, ctx, jobs, calls, preparer, overlaps, faults>>

Users ==
  \/ Import \/ RemoveRow \/ UpdatePublished \/ PatchMedia \/ Resolve \/ Cancel \/ RetryPrepare \/ RetryFetch \/ RetrySend
  \/ Schedule \/ Edit \/ Stop \/ CalendarRetry \/ CalendarApprove \/ CalendarReject

-----------------------------------------------------------------------------
(* The queue, the recovery pass, time and failures.                         *)

\* The calendar removes the jobs of the version before, unless they run.
Dropped(n) ==
  [k \in Keys |-> IF k \in {Plain, Dated(n)} /\ jobs[k].version = n /\ jobs[k].state # "active"
                  THEN NoJob ELSE jobs[k]]

Done(c) == calls' = calls \ {c}
Outside == UNCHANGED <<youtube, pc, ctx, agreed, preparer, faults>>

\* enqueue: an old job is replaced, a running one refuses.
Replaced(c) == [jobs EXCEPT ![Plain] = Waiting(c.version)]

EnqueuePlain(c) ==
  /\ c.kind = "plain" /\ jobs[Plain].state # "active"
  /\ jobs' = Replaced(c)
  /\ Done(c) /\ UNCHANGED <<item, overlaps>> /\ Outside

\* The job runs, or the queue fails, before or after it took the job: the row
\* is marked failed, whatever it is by now.
EnqueueRefused(c) ==
  /\ c.kind = "plain"
  /\ Overlap
  /\ item' = [item EXCEPT !.status = "failed"]
  /\ jobs' \in {jobs} \cup (IF jobs[Plain].state = "active" THEN {}
                            ELSE {[jobs EXCEPT ![Plain] = NoJob], Replaced(c)})
  /\ Done(c) /\ Outside

Ticket(c) == IF c.kind = "dated" THEN Dated(c.version) ELSE Prepare(c.version)
Cleaned(c) == IF c.kind = "prepare" THEN jobs ELSE Dropped(c.version - 1)

\* add does nothing when the id is in use.
Added(c) ==
  IF jobs[Ticket(c)].state = "none" THEN [Cleaned(c) EXCEPT ![Ticket(c)] = Waiting(c.version)]
  ELSE Cleaned(c)

EnqueueDated(c) ==
  /\ c.kind # "plain"
  /\ jobs' = IF c.kind = "drop" THEN Cleaned(c) ELSE Added(c)
  /\ Done(c) /\ UNCHANGED <<item, overlaps>> /\ Outside

\* The queue fails: the row is marked failed if it still waits for this job.
EnqueueFailed(c) ==
  /\ c.kind \in {"dated", "prepare", "datedPrepare"}
  /\ item' = IF item.version = c.version
                /\ item.status = (IF c.kind = "dated" THEN "queued" ELSE "waiting_video")
             THEN [item EXCEPT !.status = "failed"] ELSE item
  /\ jobs' \in {jobs, Cleaned(c), Added(c)}
  /\ Done(c) /\ UNCHANGED overlaps /\ Outside

Enqueue == \E c \in calls : EnqueuePlain(c) \/ EnqueueRefused(c) \/ EnqueueDated(c) \/ EnqueueFailed(c)

Unprepared ==
  /\ item.status \in {"waiting_video", "preparing"} /\ collection
  /\ ~item.approved /\ Unstarted
Due == item.status = "queued" /\ item.approved /\ item.date # "future"

Sending == item.status \in {"uploading", "processing"}

Ready == IF Unprepared THEN Prepare(item.version) ELSE Plain

\* Recovery takes rows that nobody touched for a minute and BullMQ jobs whose lock
\* was not renewed for half a minute: the routes that committed before have
\* reached the queue, or failed to, by then.
Settled == calls = {}

\* Jobs that are over are replaced.
RecoverJob ==
  /\ Settled
  /\ Unprepared \/ Due
  /\ ~Live(Ready)
  /\ jobs' = [jobs EXCEPT ![Ready] = Waiting(item.version)]
  /\ UNCHANGED <<youtube, item, pc, ctx, people, preparer, overlaps, faults>>

Stalled_Fails(job) == NoJob

\* BullMQ hands a stalled job out once more; the second time it fails.
Stalled(job) ==
  IF job.stalled THEN NoJob ELSE [job EXCEPT !.state = "waiting", !.stalled = TRUE]

Stall(k) ==
  /\ jobs[k].state = "active" /\ jobs[k].owner = None
  /\ Settled
  /\ jobs' = [jobs EXCEPT ![k] = Stalled(@)]
  /\ UNCHANGED <<youtube, item, pc, ctx, people, preparer, overlaps, faults>>

\* A worker process stops; its job stays active until the stall is noticed.
Crash(w) ==
  /\ faults < MaxFaults /\ pc[w] # "idle"
  /\ faults' = faults + 1
  /\ jobs' = [k \in Keys |-> IF jobs[k].owner = w THEN [jobs[k] EXCEPT !.owner = None]
                             ELSE jobs[k]]
  /\ Goto(w, "idle")
  /\ ctx' = [ctx EXCEPT ![w] = IdleCtx]
  /\ preparer' = IF preparer = w THEN None ELSE preparer
  /\ UNCHANGED <<youtube, item, people, overlaps>>

\* The API stops between its commit and the queue.
ApiCrash ==
  /\ faults < MaxFaults /\ calls # {}
  /\ faults' = faults + 1
  /\ calls' = {}
  /\ UNCHANGED <<youtube, item, pc, ctx, jobs, agreed, preparer, overlaps>>

Elapse ==
  /\ item.date = "future"
  /\ item' = [item EXCEPT !.date = "due"]
  /\ UNCHANGED <<youtube, pc, ctx, jobs, people, preparer, overlaps, faults>>

ChangeSource ==
  /\ collection /\ source < MaxSource
  /\ source' = source + 1
  /\ UNCHANGED <<collection, unanswered, item, google, pc, ctx, jobs, people, preparer, overlaps, faults>>

WorkerStep(w) ==
  \/ \E k \in Keys : StartJob(w, k)
  \/ PollImages(w) \/ FinishJob(w) \/ Read(w) \/ Claim(w) \/ Authenticate(w) \/ Upload(w) \/ MarkProcessing(w)
  \/ SetCover(w) \/ Poll(w) \/ AttachPlaylist(w) \/ MarkPublished(w) \/ Fail(w)
  \/ PrepareLock(w) \/ PrepareClaim(w) \/ PrepareInspect(w) \/ PrepareEnd(w)

World ==
  \/ Enqueue \/ RecoverJob \/ ApiCrash \/ Elapse \/ ChangeSource
  \/ \E k \in Keys : Stall(k)
  \/ \E w \in Workers : Crash(w)

Next == Users \/ World \/ \E w \in Workers : WorkerStep(w)

Spec == Init /\ [][Next]_vars

-----------------------------------------------------------------------------
(* Properties.                                                              *)

Row ==
  [status : Statuses, version : 0 .. MaxVersion, approved : BOOLEAN, rev : 1 .. MaxRevision,
   date : {"none", "future", "due"}, session : Sessions \cup {None}, uri : 0 .. MaxRotations,
   video : Sessions \cup {None}, unknown : BOOLEAN, changed : BOOLEAN, remote : 0 .. MaxSource,
   media : BOOLEAN, cover : BOOLEAN]

UploadState ==
  [uri : 0 .. MaxRotations, rev : 0 .. MaxRevision, received : 0 .. Chunks,
   bytes : SUBSET Versions, video : {"none", "pending", "processed"}, listed : 0 .. 1]

Mine ==
  [unknown : BOOLEAN, changed : BOOLEAN, remote : 0 .. MaxSource, media : BOOLEAN,
   cover : BOOLEAN, rev : 1 .. MaxRevision, session : Sessions \cup {None},
   uri : 0 .. MaxRotations, video : Sessions \cup {None}]

Context ==
  [version : 0 .. MaxVersion, seen : Statuses, mine : Mine, offset : 0 .. Chunks,
   probe : BOOLEAN, recoveries : 0 .. MaxRecoveries, stays : BOOLEAN,
   error : {"none", "error", "ambiguous", "changed"}]

Preparation == {"prepClaim", "prepInspect", "prepReady", "prepLater", "prepFailed"}
Steps == Publishing \cup Preparation \cup {"idle", "read", "claim", "finish", "prepLock"}

Job ==
  [state : {"none", "waiting", "active"}, version : 0 .. MaxVersion, stalled : BOOLEAN,
   owner : Workers \cup {None}]
Calls == [kind : {"plain", "dated", "drop", "prepare", "datedPrepare"}, version : 0 .. MaxVersion]

Transfer == {"saveSession", "put", "saveMoved", "saveVideo"}

\* The type invariant: among the types, a session never gets more than the
\* video's chunks, a video is listed at most once and a transfer has a session.
TypeOK ==
  /\ collection \in BOOLEAN /\ item \in Row /\ google \in [Sessions -> UploadState]
  /\ source \in Versions /\ unanswered \in BOOLEAN
  /\ pc \in [Workers -> Steps] /\ ctx \in [Workers -> Context]
  /\ jobs \in [Keys -> Job] /\ calls \subseteq Calls
  /\ preparer \in Workers \cup {None}
  /\ agreed \in [rev : 0 .. MaxRevision, remote : 0 .. MaxSource]
  /\ overlaps \in 0 .. MaxOverlaps /\ faults \in 0 .. MaxFaults
  /\ \A w \in Workers : pc[w] \in Transfer => ctx[w].mine.session # None

Started == {s \in Sessions : google[s].bytes # {}}

\* Bytes go into one session, whatever crashes, lost answers, retries, jobs sent
\* twice and changes by people follow one another (docs/youtube.md).
OneVideo == Cardinality(Started) <= 1

\* What YouTube got is the content a person approved last, and of a collection
\* one version of its file only: the one that was checked and approved.
ApprovedBytes ==
  \A s \in Started :
    /\ google[s].rev = agreed.rev
    /\ \E v \in Versions : google[s].bytes = {v} /\ agreed.remote \in {0, v}

\* A published item has a cover, and a video that was processed and is in its
\* playlist once.
PublishedProcessed ==
  item.status = "published" =>
    /\ item.video # None /\ item.cover
    /\ google[item.video].video = "processed" /\ google[item.video].listed = 1

\* An item that is being sent has a job of its version that will go on with it.
\* (A second crash while it is sent would leave it without one.)
Carried ==
  Sending => \E k \in Keys : k[1] # "prepare" /\ Live(k) /\ jobs[k].version = item.version

Opening == \E w \in Workers : pc[w] = "post" /\ pc'[w] \in {"saveSession", "fail"}

\* No session is asked for before the item's date.
NeverEarly == [][Opening => item.date # "future"]_vars

\* No session is asked for once the catch saw that a request for one stayed
\* without an answer: what YouTube holds must be looked up by a person
\* (docs/youtube.md). A crash before the catch leaves no such trace.
UnknownStops == [][Opening => ~unanswered]_vars

\* The video an item got is never replaced or forgotten.
VideoKept == [][item.video # None => item'.video = item.video]_vars

-----------------------------------------------------------------------------
(* The inductive invariant, for MaxOverlaps = 0: one executor at a time.    *)

Alone == \A v, w \in Workers : pc[v] \in Publishing /\ pc[w] \in Publishing => v = w

\* What the row and the copy of its executor have in common, step by step.
Agrees(w) ==
  LET mine == ctx[w].mine
  IN /\ Sending /\ item.date # "future"
     /\ mine.unknown = item.unknown
     /\ pc[w] # "saveSession" => mine.session = item.session
     /\ pc[w] # "saveVideo" => mine.video = item.video
     /\ pc[w] = "post" => item.session = None /\ ~item.unknown
     /\ pc[w] = "saveSession" => item.session = None
     /\ pc[w] \in {"source", "post"} \cup Transfer => item.video = None
     /\ pc[w] = "saveVideo" => mine.video # None
     /\ pc[w] \in {"processing", "cover", "poll", "playlist", "publish"} => item.video # None
     /\ pc[w] \in {"poll", "playlist", "publish"} => mine.cover /\ item.cover
     /\ pc[w] \in {"playlist", "publish"} => google[item.video].video = "processed"
     /\ pc[w] = "publish" => google[item.video].listed = 1
     /\ pc[w] = "fail" /\ ctx[w].error = "ambiguous" => item.session = None /\ item.video = None

\* The lock of a preparation, and what it writes back.
Prepares(w) ==
  /\ preparer = w
  /\ pc[w] # "prepClaim" /\ StillPreparing(w) => ctx[w].mine.unknown = item.unknown

\* Nothing is ahead of the row, and a job of its version has its date behind it.
Punctual ==
  /\ \A k \in Keys : jobs[k].version <= item.version
  /\ \A c \in calls : c.version <= item.version
  /\ \A w \in Workers :
       /\ ctx[w].version <= item.version
       /\ pc[w] \in {"read", "claim"} /\ ctx[w].version = item.version => item.date # "future"

IInv ==
  /\ TypeOK /\ Alone
  /\ \A w \in Workers : pc[w] \in Publishing => Agrees(w)
  /\ \A w \in Workers : pc[w] \in Preparation => Prepares(w)
  /\ Punctual
  /\ Started \subseteq {item.session}
  /\ unanswered => item.unknown
  /\ PublishedProcessed
=============================================================================
