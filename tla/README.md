# A TLA+ verification of socialyar

socialyar turns sources (news, comments, spreadsheets) into content through
workflows, and publishes the content to channels (Telegram, Eitaa, Bale,
Instagram, websites, YouTube). Three processes share PostgreSQL and Redis: the
Fastify **API**, the BullMQ **worker** (jobs, pollers, a recovery pass every 30
seconds) and the **web** client. Nearly everything that can go wrong is between
them: rows are committed before jobs are added, jobs are delivered more than
once, processes die between a request to a channel and the row that records
it, and people edit, move, stop and retry items all the while.

This directory models six subsystems as TLA+ modules, checks them with TLC on
small instances and proves their safety properties with TLAPS for every value
of the constants:

- **publication**: one content item on its way to one destination;
- **sending**: what a channel client and the routing fetcher make of one send;
- **runs**: one execution of a workflow, up to the publications it prepares;
- **YouTube**: one video from its import to its publication;
- **answers**: the comments of an account, the runs that answer them, the
  account's day and the tokens their requests cost;
- **workflows**: the graph, the routes that save it and the editor over them.

`PROJECT.json` lists components, runs, mutants, hazards, theorems, and for each
definition the source lines it stands for.

## 1. Inventory

State is in PostgreSQL unless said otherwise.

| component | source | state | operations | status |
| --- | --- | --- | --- | --- |
| publication executor | `apps/worker/src/publisher.ts`, `packages/db/src/execution-lock.ts` | `publications`, the session lock `publication:<id>` | execute a publication, recover one | modelled |
| dispatch recovery | `apps/worker/src/dispatch-recovery.ts` | reads rows, writes Redis | re-add jobs of queued runs, publications and videos, prepare finished runs, recover interrupted publications | each for one row; a pass over many rows is not |
| calendar | `apps/api/src/routes/calendar.ts`, `packages/shared/src/calendar.ts` | `contentVariants`, `schedules`, `publications`, `approvals`, `youtubeItems`, Redis jobs by `queueVersion` | schedule, move, edit, approve, reject, publish now, stop, confirm, cancel, retry | modelled |
| review | `routes/content.ts`, `routes/approvals.ts` | `contentVariants`, `approvals` | edit, submit, request changes, approve | modelled |
| older routes | `routes/analytics.ts` | `publications` | retry, cancel | modelled |
| channel clients, connections | `packages/channels/src/index.ts`, `packages/db/src/publishing-connection.ts` | Instagram's prepared containers on the variant, `publishingProxies` | send, prepare images, route directly or through a proxy, edit a proxy away | sending modelled; checks and administration of connections not |
| run executor | `packages/workflow/src/index.ts` | `runs`, `runSteps`, `commentActions`, lock `run:<id>` | claim, walk the graph, finish | control modelled; prompts, filters, decisions are outcomes |
| run routes | `routes/runs.ts` | `runs`, `runSteps`, Redis | create, approve or reject, retry a reply | modelled |
| publication preparation | `apps/worker/src/auto-publish.ts` | `contentItems`, `contentVariants`, `publications` | one item and publication per publish branch | modelled, without YouTube branches and pacing |
| YouTube upload | `packages/db/src/youtube-upload.ts`, `youtube-upload-session.ts`, `remote-video.ts` | the session address and offset on `youtubeItems`, the session at Google | open, send a chunk, ask, recover, move, finish | modelled |
| YouTube publication | `apps/worker/src/youtube.ts`, `youtube-playlist.ts`, `routes/youtube.ts` | `youtubeItems`, jobs `youtube-<id>[-v<n>]` | claim, upload, process, list, cancel, retry, edit | modelled without OAuth, the shorts check and playlists themselves |
| collections | `routes/content-collections.ts`, `collection-destinations.ts`, `apps/worker/src/collection-prepare.ts` | items and their rows | import, re-import, remove, prepare the video | for YouTube rows; rows of other channels are initial states of `Publication` |
| YouTube replies, Instagram actions | `packages/db/src/youtube-comments.ts`, `packages/*/src/instagram.ts` | `youtubeCommentReplies`, `instagramActions`, lock `instagram-send:<account>` | inspect, claim, send, count the day | modelled |
| news poller | `apps/worker/src/news-poller.ts` | `newsItems`, cursors in Redis | take an item, make its run | taking items modelled; sources and cursors not |
| quotas, AI client | `packages/db/src/tenant-policy.ts`, `packages/ai/src/index.ts` | `tokenReservations`, `workspaceSubscriptions` | reserve, settle, release, administer | tokens and workflow places modelled |
| workflow graph | `packages/workflow/src/graph.ts` | none | accept or refuse | modelled |
| workflow routes | `routes/workflows.ts` | `workflows`, `workflowVersions`, steps, connections | create, save, load, generate, delete | modelled; single settings of cards are abstract |
| workflow editor | `apps/web/app/components/workflow-builder.tsx` | in the browser: canvas, snapshot, removed card | load, draw, connect, remove, undo, suggest, save | modelled |
| sheet poller, image generation, pacing | `collection-sheet-poller.ts`, `image-generation.ts`, `queue.ts` | snapshots, image jobs, a Redis counter | fetch, generate, delay | not modelled, section 5 |
| accounts, team, access, reports, rest of the web client | see `PROJECT.json` | single rows | administration, reading, formatting | not modelled: no behaviour over time beyond one statement or one transaction |

How they interact:

- The create route commits a run and adds job `<runId>`. A worker takes the lock
  `run:<id>`, walks the graph, and *after releasing it* takes it again to
  prepare publications. A step that needs a person leaves the run
  `waiting_approval`; resolving it commits `dispatchVersion + 1` and then adds
  job `run-<id>-dispatch-<v>`. The recovery pass does both if nobody else did.
- Preparation (or a person in the calendar, or an import) creates a variant and
  a publication with `queueVersion`, and job `publication-<id>[-v<n>]`. Every
  calendar mutation bumps the version in its transaction and enqueues after it.
- An executor takes the lock `publication:<id>`, claims the row by a
  conditional update on the version, marks it (`sendStartedAt`), sends, stores
  the receipt. Whoever finds a marked row without a receipt must assume it may
  have been sent.
- The send itself is several requests: Instagram gets images, a container and a
  publication; a routing fetcher may try a second way. What the client says of
  them (confirmed, failed, unknown) is all the executor knows.
- A YouTube item has no session lock. An executor claims it `WHERE status` and
  `queueVersion` are the ones it read, opens a resumable session, saves the
  address, sends chunks, and later waits for YouTube's processing.
- A poller takes a comment once per workflow and makes a run of it. The run asks
  a model under a token reservation, waits for approval where the card says so,
  claims the comment under the account's limit of the day, and answers.
- The editor loads a version, draws on a canvas while loads and saves are out,
  and sends the whole graph; the server checks it, then locks workspace and
  workflow and stores it as the next version.

What is hard, and what makes each part correct:

| behaviour | correct when | property |
| --- | --- | --- |
| a process dies between mark, request and receipt | at most one copy, and an attempt ends as receipt, refusal or "unknown" | `AtMostOnePost`, `UnknownHeld`, `ImplementsDelivery`, `AttemptsAccounted` |
| people change an item while it is claimed | the content sent is the content claimed, shown and approved, and not early | `FrozenUnderSender`, `PublishedAsShown`, `ApprovedPosts`, `NeverEarly` |
| an error handler of three statements | the rows agree afterwards | `RowsAgree` |
| queue refuses, job lost or repeated | released work ends | `ReleasedEnds`, `TakenUp` |
| answers of a channel get lost, a proxy is tried second, a saved container meets an edit | still one copy, of what the row shows, and nothing is prepared twice | `Sending!OneCopy` (in `IInv`), `Fresh`, `PreparedOnce`, `ImplementsDelivery` |
| a run is executed again over its records | decisions stand, effects happen once and with consent | `DecisionsStand`, `EffectOnce`, `EffectAgreed` |
| approvals race with executors | a waiting run has something to resolve | `WaitsForSomeone` |
| a process dies while preparing | one item per branch, and every finished run is prepared | `OneItem`, `PreparedMeansItems`, `PreparedAtLast` |
| a resumable upload over lost answers, moved sessions and changed files | the bytes of one approved file go into one video, and an interrupted item has somebody to carry it on | `OneVideo`, `ApprovedBytes`, `ImplementsDelivery`, `UnknownStops`, `PublishedProcessed`, `Carried` |
| several runs and workflows answer the same comments | once, within the day, with approval, at a cost that is booked | `AnsweredOnce`, `WithinDay`, `Consented`, `Covered` |
| edits while a load or a save is out, answers that never come | an editor that equals its snapshot shows what the server stored | `CleanMeansSaved` |
| cards and edges come and go, and come back | no edge and no circle that may not be | `CanvasSound` |
| saves are checked before the transaction that stores them, some of them leave out the status | whatever is active works, and the plan's places suffice | `StoresConducting`, `ActiveConducts`, `WithinPlan` |

## 2. Modules

| module | role |
| --- | --- |
| `Publication` | rows, jobs, lock, executors, recovery, calendar, review and older routes for one item |
| `Delivery` | what a delivery promises: withheld, released, in flight, unclear, delivered, and the number of copies |
| `PublicationRefinement` | `INSTANCE Delivery` with `stage <- Stage`, `copies <- Len(posts)` |
| `PublicationProofs`, `ContentProofs`, `RefinementProofs` | theorems: one copy; versions and content; the refinement |
| `Sending`, `SendingRefinement`, `SendingProofs` | the channel clients and the routing fetcher, as another implementation of `Delivery`, and the theorems |
| `RunExecution`, `RunRefinement`, `RunProofs` | a run's row and step records, jobs, executors, preparation, routes, recovery; each step's claim as a `Delivery`; theorems |
| `YoutubeUpload` | the resumable upload: session, chunks, questions, moves, the file at the source |
| `YoutubeItem`, `YoutubeRefinement`, `YoutubeProofs` | an item over it: executors, preparation, routes, calendar, import, jobs, recovery; the item as a `Delivery` of its video; theorems |
| `AiCredits` | token reservations of one workspace |
| `Answers`, `AnswersRefinement`, `AnswerProofs` | comments, pollers, answering runs and claims over it; each comment's claim as a `Delivery`; theorems of all |
| `WorkflowGraph` | graphs, `graphProblem`, and what an accepted graph is for |
| `Workflows` | the routes over it: saves side by side, versions, deletion |
| `Builder`, `WorkflowProofs` | the editor in several browsers over the routes; theorems of all three |
| `MCPublication`, `MCPublicationRefinement`, `MCRunExecution`, `MCYoutubeItem`, `MCAnswers`, `MCBuilder` | instances for TLC |

### Grain

A database statement or transaction is one action, and an executor's step runs
from one `await` that another process can notice to the next. Reads that are
followed by a conditional write keep their own step, so what they read can be
stale. The variables `pc[w]` and `ctx[w]` are an executor's position and the
local variables it still needs; `Finish` forgets them. A crash may happen at any
step: it frees the session lock (PostgreSQL) and orphans the job (BullMQ).

### Publication

`pub`, `variant`, `sched` and `approvals` are the rows. Statuses are those of the
schema. `sendStartedAt` and `externalPostId` are booleans, "delivery unknown" is
`pub.unknown`, the content is a revision number, and settings are the flags the
code branches on (`calendarHold`, `calendarPaused`, `unscheduled`, immediate).
`jobs[v]` is the BullMQ job of version `v`; a job is taken again after a throw
until its attempts are used up, and once after a stall. `posts` is what the
destination has received, `blessed` the revisions someone approved.

| actions | code |
| --- | --- |
| `Lock` ... `Confirm`, `HoldUnknown`, `Requeue`, `ErrPublication`, `ErrVariant`, `ErrSchedule` | `executeClaimedPublication`, one per await; the last three are its error handler |
| `StartRecover`, `RecoverySelect`, `RecoveryAdd` | `reconcileDispatch`; selecting and adding are apart |
| `Mutate`, then `Enqueue`, `EnqueueFails` or `EnqueueLost` | `mutateCalendarItem`: the transaction, then `queue.add`: done, refused, or never reached |
| `PatchVariant`, `SubmitCheck`, `SubmitInsert`, `SubmitUpdate`, `RequestChanges` | the review routes; a submission is three statements |
| `RetryRoute`, `CancelRoute` | `analytics.ts`; the cancel route's two statements are one action |
| `Crash`, `Stalled`, `StallLive`, `DropLock`, `Tick` | the environment |

The channel's answer is any of: receipt, refusal, no usable answer after having
delivered, no usable answer without. A person who says "the destination has
nothing" is taken to have looked: the model lets them say it only when it is true.
Attempt counters saturate at `MaxAttempts`, where the code stops telling them apart.

### Sending

Where `Publication` has one answer of a channel, `Sending` has the requests behind
it: `Post` for the clients with one request, `CreateChild`, `CheckChildren`,
`CreateContainer`, `CheckContainer`, `PublishContainer` for Instagram, each through
`Replies`, which is the routing fetcher: directly, through the proxy, or directly
with one fallback through the proxy when the first way was provably not taken
(`Repeatable`). `Verdict` is what a client makes of an answer, `Conclude` and
`Note` what the executor writes. `variant` carries the revision and the prepared
children and container, `remote` the containers Instagram has, `posts` what was
published.

Taken from outside the code: an answer that is not 2xx had no effect, the error
codes of `definitelyNotSent` are truthful, a destination with an idempotency key
honours it, Instagram refuses a container that was published. `upset` says that the
insert of a connection event failed after the destination had answered; it is in the
model and excluded by `MaxUpsets = 0`, see section 6.

### RunExecution

`run` is the row (`later` stands for a future `retryAt`, `publishes` for the
outputs marked `queuedForPublication`, `prepared` for `publicationPrepared`),
`rec[s]` the step record, `claim[s]` the row in `commentActions` or
`youtubeCommentReplies`, `items[s]` the content items and publications prepared
for a publish step. A graph is an order, a kind per step and its parents; any
set of graphs whose order lists steps is allowed. Prompts, filters and decisions
are outcomes (completed, skipped, failed). `effects[s]` counts what the
destination performed, `agreed` is what people agreed to.

| actions | code |
| --- | --- |
| `Lock`, `Read`, `Claim` | `executeClaimedRun` up to the conditional claim of the row |
| `Visit`, `PerformPlain`, `PerformApproval`, `PerformAction` | the walk, and a step by its kind |
| `DraftReply`, `HoldReply`, `Inspect`, `Reserve`, `Recheck`, `Send`, `Note` | a reply, one per await between inspection and recorded outcome |
| `Done`, `LimitStep`, `LimitRun`, `Final`, `Unlock` | a step's and the run's end |
| `PrepRead`, `PrepMake`, `PrepMark` | preparation: look for the item, insert it, look for its publication, insert it, queue it, or fail (`auto-publish.ts:92-151`), then the mark on the run |
| `Dispatch`, `Environment`, `People` | creation, recovery, jobs and stalls, approvals and retries, the next day |

Three simplifications, each conservative for the properties checked: the recovery
pass reads the row and adds the job in one action (a job may wait arbitrarily long,
so a job added early stands for one added late); the content variant is created
with its publication; and the lock of a run is not lost under a live executor,
which `Publication` explores for its own lock. `requireApproval` of a reply is on,
and the modelled API action is `reply`: without a person's consent `EffectAgreed`
says nothing. Statements of the database do not fail by themselves.

### YoutubeUpload and YoutubeItem

`item` is the `youtubeItems` row, `google[s]` what YouTube holds of session `s`:
how often it moved (`uri`), the revision it was opened with, chunks received, the
versions of the file they were read from, its video. `source` is the version of
the remote file now. A request, what YouTube does with it and what the client makes
of the answer up to its next database write are one action; the file is counted in
chunks. `ctx[w].mine` is the executor's copy of the row, whose settings it writes
back as a whole.

| actions | code |
| --- | --- |
| `CheckSource`, `PostSession`, `SaveSession` | the source is compared with its snapshot, a session is opened, its address stored |
| `PutContinue`, `PutLost`, `PutRefused`, `PutBlocked`, `PutDone`, `SaveMoved`, `SaveVideo` | one PUT by its answer, and what is stored of it |
| `Read`, `Claim`, `Authenticate`, `MarkProcessing`, `SetCover`, `Poll`, `AttachPlaylist`, `MarkPublished`, `Fail` | `executeYoutube` around the upload, `Fail` its catch |
| `PrepareLock`, `PrepareClaim`, `PrepareInspect`, `PrepareEnd`, `PollImages` | `collection-prepare.ts` |
| `PatchMedia`, `Resolve`, `Cancel`, `Retry*`, `UpdatePublished` | `routes/youtube.ts`, `content-collections.ts` |
| `Schedule`, `Edit`, `Stop`, `Calendar*`, `Import`, `RemoveRow` | the calendar's branch for YouTube, collection imports |
| `Enqueue*`, `RecoverJob`, `Stall`, `Crash`, `ApiCrash`, `Elapse`, `ChangeSource` | calls of committed routes reach the queue, and the environment |

Nothing locks an item while it is published. `MaxOverlaps` counts the two ways of
writing beside an executor at work: a second executor claims the row, or a route
that met a refusing queue marks it failed. A recovery pass takes rows untouched for
a minute and BullMQ notices stalls after half a minute, so by then a route that
committed before has reached the queue or failed to (`Settled`). `PollImages` also
covers the second attempt an import's job has. A crash during the POST may leave an
empty session at YouTube; nobody knows its address, so the model lets the next POST
open it.

`YoutubeRefinement` reads the item as a `Delivery` whose copies are the videos YouTube has of it. An
item is in flight from the request for a session on, and as long as it has one: a failure that keeps
the session is no refusal, for a later attempt goes on with it. It is unclear once the answer to that
request was lost, and nothing in the code looks at YouTube and clears it.

### AiCredits and Answers

`credit` is the subscription's row, `open` the reservations, `bill` what the provider
charges for them whether or not its answer arrives. Every request reserves the same
`Bound`. `Answers` EXTENDS it: comments of one account, pollers that make runs of
them (`TakeComment`, `Forget`), and the answering step of each run, from the request
to the model (`Ask` ... `SettleUsage`) to the claim under the day's limit
(`ClaimReply` for YouTube; `LockAccount`, `Look`, `InsertAction` for Instagram), the
last check, the request and its outcome (`Recheck`, `Post`, `Note`), and the step's
and the run's end. When a run is executed is `RunExecution`'s question; here any run
that is not over may be.

`Cards` is what the card may do: answer on YouTube, answer on Instagram, hide on
Instagram without asking a model. `LosesClaims` says whether workflows that hold claims
may be deleted, see section 6; `DeleteWorkflow` waits until none of the workflow's runs
is executed, a bound of the model.

### WorkflowGraph, Workflows and Builder

`WorkflowGraph` has the graph (cards under keys, a set of edges), the check
`GraphProblem` with its two loops as recursive functions (`Knotted` are Kahn's rounds,
`Reached` the visit along edges), and `Conducts`, which says without an algorithm what
an accepted graph is good for: no circle, every source reaches an output, every card is
on a way from a source to an output. `Workflows` has saves side by side: judged outside
the transaction, then committed, declined or refused, and deletion. `Builder` has the
editor: loading in two reads, the canvas, the removed card and its return, suggestions
by the model, saves whose answers may be lost.

Kinds of card the checks treat alike are one kind (`feed` is every kind of source a
poller reads); `bundle` is an old source with several addresses, which loading splits
(`migrate`). A card's settings are filled in or not; conditions, names, positions and
prompts are left out. Whether an account, profile or connection a card names is usable
is the environment's choice. A `PUT` may leave out the status, the autonomy or both
(`omits`): `Judge` fills the gap from the row it reads and keeps what it read (`read`),
`Written` fills it from the locked row, and `TakesPlace` counts named statuses only. The
editor always names both (`workflow-builder.tsx:738`); `Ask` is any other client, which sends
a graph out of `Sendable`. "draft" stands for every status but active.

`CleanMeansSaved` compares the canvas with the editor's snapshot, which a load and a save's
answer set. The warning on leaving the page also needs `loaded`, which only a load sets
(lines 505, 540): after a load that failed (543) and a save (744) the editor never warns
again, whatever is edited (223). The model leaves the warning out, so the property says that a snapshot is
honest, also in that editor, and not that the editor warns.

Asking for a suggestion and applying it are one action, and "run" is saving
a draft (`MaySave`). New keys are fresh because they carry the time and a random part.
`again` remembers that a removed card was put back, because a circle can only come about
that way (section 6).

## 3. Runs

Each run takes between seconds and two minutes. Deadlock is not checked because the
systems may rest: an item is delivered, a run waits for a person who owes nothing.

| run | question | instance |
| --- | --- | --- |
| `editing` | calendar and cancel route against two executors and a recovery pass, items of every origin: `FrozenUnderSender`, `PublishedAsShown`, `RowsAgree` | 3 versions, 1 edit, no faults |
| `crashes` | one crash or stalled live job anywhere, with calendar and review: `AtMostOnePost`, `UnknownHeld`, `NeverEarly` | 2 workers, 1 recovery pass, 2 versions, 1 edit |
| `lost_lock` | one lost lock connection, older routes: `PublishedAsShown` | 2 workers, version 0, 2 attempts |
| `delivery` | under fairness, one crash: refinement of `Delivery`, `AttemptsAccounted`, `ReleasedEnds` | 1 worker, 1 recovery pass, 2 attempts, 2 versions |
| `stale_approval` | a disagreement with the documentation, section 6 | the smallest that shows it |
| `runs` | two workers with duplicate jobs, recovery, approvals and retries on three workflow versions: `EffectOnce`, `EffectAgreed`, `WaitsForSomeone`, `PreparedMeansItems`, `DecisionsStand`, refinement of `Delivery` by each step's claim | 3 dispatches, no faults |
| `runs_crash` | one crash or stall, under fairness: `OneItem`, `TakenUp`, `PreparedAtLast` | 1 worker, 1 recovery pass, 3 dispatches |
| `youtube` | collection items and uploads, one crash of a worker or the API, a moving session, a changing file, edits and retries: `OneVideo`, `ApprovedBytes`, `PublishedProcessed`, `Carried`, `NeverEarly`, `UnknownStops`, refinement of `Delivery` | 1 worker, 2 sessions, 2 chunks, 2 versions, 2 revisions, 2 files |
| `youtube_twice` | a disagreement with the documentation, section 6 | 2 workers, 1 overlap |
| `answers` | two workflows, one with approval, read the same comments; crashes, pauses, administration: `AnsweredOnce`, `WithinDay`, `Covered`, `Consented`, refinement of `Delivery` by each comment's claim | 2 runs, 2 comments, 1 answer a day, 2 days, 1 fault or pause |
| `sending` | all six kinds of channel, directly, automatically and through a proxy, two crashes, one edit: `IInv`, `Fresh`, `PreparedOnce`, refinement of `Delivery` | albums of 2 images, 3 attempts |
| `builder` | one editor and another client, saves side by side, lost answers, deletion: `CleanMeansSaved`, `CanvasSound`, `WithinPlan`, `StoresConducting`, and `GraphProblem` against `Conducts` on every graph of three cards | 2 workflows, 2 saves, 1 edit or request of the other client, 1 lost answer, 1 place |

Why the bounds are enough for the interesting cases. *Publication*: two workers and one
recovery pass are everyone who can compete for one item, for a third one meets the
same held lock. Two versions let an old job meet a newer row, three let a person
change an item twice around it. One edit separates approved from edited content.
One fault, at any step, is followed by redelivery and recovery. Two attempts
distinguish "again" from "for good". *Runs*: the graphs put a publish
step before and behind an approval, and an action and a reply behind one; three
dispatches are a run, its approval and one retry or one wait for the next day.
`MaxDispatch` bounds dispatch versions: at the bound an approval, a retry or a wait for
the next day is not taken, so no property depends on what lies beyond it except through
the theorems, which hold for every bound. *YouTube*: two chunks have a first and a last
one, two sessions are one too many, one recovered interruption and one move happen inside
one call and across calls, and one executor suffices because `MaxOverlaps = 0` keeps a
second one out (the theorems hold for any number). *Answers*: two workflows, comments
and runs are the smallest for every pair that can be in each other's way; of the
initial states, `MCInit` takes new comments on the last day, and interrupted
executions with two days to go; hiding, which asks no model, is left to the theorems.
*Sending*: three attempts and two crashes let an attempt resume from what another
prepared, which a third met. *Workflows*: closing an editor and putting a card back are
not counted as edits, so one edit on each side of a save happens; two saves overlap
because a lost answer frees the editor, or because another client saves. That client sends the empty graph, which
only a draft may have, as a `POST` or as a `PUT` with or without status and autonomy, before, after and
across an activation by the editor.

What a bound keeps from a run: with `MaxMoves = 1` a card is put back into a canvas that was
loaded or answered for meanwhile, but not one edited otherwise (`DrawnSoundly` covers that), and with two saves
no autonomy is switched off and on around a check (`Conducting` covers that); no run
asks whether posts were approved as long as edits wait (`ApprovedIfEditsWait`), for that takes more versions than
a run with crashes or several executors can have;
`youtube` has no second executor (`youtube_twice` has); `runs` has no crash, so that `EffectOnce`
after one rests on its theorem; `crashes` has no lost lock and no retry route, see section 6.

With several workers, browsers or ids the runs use symmetry, except under fairness.
Every property of a passing run has a mutant in `PROJECT.json`: a plausible bug in a
mapped definition (a dropped guard, a missing reset, a check of the wrong column)
that TLC finds by that property.

### Fairness

`FairSpec` of publications and of runs assumes what the code and its platform do without
being asked: a started executor goes on (`WF` on its steps), BullMQ hands out waiting jobs and
notices stalled ones, the recovery interval fires, time passes. Nothing is assumed of
people, of an API request's `queue.add` (it may be lost), or of the channel's answer. The
other modules state no liveness: their state spaces are too large for it, and what they
promise of the end is said as safety (`Carried`: an item that is being sent has a job that
will go on with it).

## 4. Proofs

The runs show a property for one small instance; TLAPS proves the following for every
value of the constants: any number of executors, workers, versions, edits, comments,
browsers, attempts and crashes. The assumptions on constants that the proofs use are those
the modules state, and TLC evaluates each of them in a run.

| module | theorems | say | under |
| --- | --- | --- | --- |
| `PublicationProofs` | `TypeCorrect` | `TypeOK` | |
| | `Inductive`, `PostedOnce`, `UnknownKept` | `IInv`, `AtMostOnePost`, `UnknownHeld` | `Exclusive` |
| `ContentProofs` | `Fenced`, `InTime` | `Versioned`, `NeverEarly` | `Exclusive` |
| | `StandsStill`, `SenderAlone`, `ReceiptOfContent`, `ShownAsDelivered` | `FrozenAll`, `FrozenUnderSender`, `Shown`, `PublishedAsShown` | `Reviewless` |
| | `Agreement` | `RowsAgree` | `Unbroken` |
| | `ApprovedIfEditsWait` | `ApprovedPosts` | `Exclusive`, `HandlersFirst`, `SendersFirst` |
| | `ApprovedUnlessTorn` | `ApprovedPosts` | `Reviewless`, `HandlersFirst` |
| `RefinementProofs` | `Implements`, `NoHiddenCopy` | `Publication` implements `Delivery`; its invariant | `Exclusive` |
| `RunProofs` | `TypeCorrect`, `Inductive` | `TypeOK`, `IInv` | |
| | `PerformedOnce`, `PerformedClaimed`, `PerformedAgreed` | `EffectOnce`, `EffectClaimed`, `EffectAgreed` | |
| | `WalkedAndPrepared`, `AsksSomeone`, `Stands` | `WInv`, `WaitsForSomeone`, `DecisionsStand` | |
| | `PreparedOnce`, `PreparedTruly` | `OneItem`, `PreparedMeansItems` | |
| | `Implements` | each step's claim implements `Delivery` | |
| `YoutubeProofs` | `TypeCorrect` | `TypeOK` | |
| | `Inductive`, `OneSession`, `PublishedWhole` | `IInv`, `OneVideo`, `PublishedProcessed` | `MaxOverlaps = 0` |
| | `NotEarly`, `UnknownHolds`, `VideoStays` | `NeverEarly`, `UnknownStops`, `VideoKept` | `MaxOverlaps = 0` |
| | `Implements` | an item implements `Delivery` | `MaxOverlaps = 0` |
| | `AsApproved` | `ApprovedBytes` | `MaxOverlaps = 0` |
| | `CarriedOn` | `Carried`, up to the second crash | `MaxOverlaps = 0` |
| `AnswerProofs` | `TypeCorrect`, `Billed` | `TypeOK`, `Covered` | |
| | `Inductive`, `Once`, `Within`, `ByConsent`, `Honest` | `IInv`, `AnsweredOnce`, `WithinDay`, `Consented`, `Truthful` | `~LosesClaims` |
| | `Implements` | each comment's claim implements `Delivery` | `~LosesClaims` |
| `SendingProofs` | `TypeCorrect`, `PreparedNotAgain` | `TypeOK`, `PreparedOnce` | |
| | `Inductive`, `Once`, `ShownAsSent`, `Implements` | `IInv`, `OneCopy`, `Fresh`, `ImplementsDelivery` | `Honest` |
| `WorkflowProofs` | `GraphProblemExact` | `graphProblem` accepts exactly the graphs that conduct | |
| | `TypeCorrect`, `Inductive` | `TypeOK`, `IInv` | |
| | `PlacesKept`, `Conducting`, `CleanIsSaved`, `DrawnSoundly` | `WithinPlan`, `StoresConducting`, `CleanMeansSaved`, `CanvasSound` | |
| | `EditorsConduct` | `ActiveConducts` | `Sendable = {}` |

What the assumptions exclude, and why each is needed, is in section 6: `Exclusive` is
`MaxDrops = 0 /\ "retry" \notin Routes`, `Reviewless` adds that the review routes are not
used, `Unbroken` adds `MaxFaults = 0`, `MaxOverlaps = 0`
says that no claim and no failing enqueue comes beside an executor at work, `~LosesClaims`
that no workflow with claims is deleted, `Honest` is `MaxUpsets = 0`, `Sendable = {}` that only editors save. The runs `stale_approval` and
`youtube_twice` show what happens without `HandlersFirst` and `MaxOverlaps = 0`, `builder` reaches the saves
that `Sendable = {}` excludes.

`HandlersFirst` and `SendersFirst` are hypotheses about the behaviour, not about constants: no edit
moves the variant between the error handler's two statements, and the review route edits no item while a sender
has it. The code enforces neither, section 6 says what follows; the theorem says that these two
orders of steps are all that can come between a person's approval and what is posted.

### Publications

`AtMostOnePost` alone is not inductive: nothing in it says why an executor about to
send may assume that nobody has sent. `IInv` adds the argument. Past its lock step an
executor owns the lock (`OwnsLock`), so there is at most one; what the row says while
it stands between two steps is fixed (`RowUnder`: marked before the request, no copy
before the request, exactly one when it has a receipt); and a copy is always behind a
receipt, the mark "unknown", or a marked row (`Accountable`), so nothing that may be
claimed has a copy. The step proof has one lemma per group of actions: `StepOwns`,
`StepRow` and `StepSafe` for executors, `MutateSafe` for people, `AtRest` for actions
that touch neither. `Implements` maps each action to a step of `Delivery` or a
stutter, with `IInv` as its only fact about reachable states.

`ContentProofs` adds what the content needs, each part inductive beside `IInv`. `Versioned`:
no job, recovery or executor is of a version the row has not reached, and the work of its present version is
not before its time, so the fence on the version stops whoever comes early. `FrozenAll`:
between a sender's claim and its outcome nobody moves the row or the variant. `Shown`: a receipt
was given for the content the row still has. `Closed`: outside the executor's updates
publication and variant say the same.

`ApprovedPosts` speaks of posts that are out already; `Sanctioned` carries the approval there. A variant in
a state from which it is sent without a further question, a row in `publishing`, an executor between
its claim and the request, and an executor about to write `failed` each stand for a
revision somebody approved. `SanctionedStep` follows it through the executor, and
every other action either leaves it alone, starts from an approval, or edits; an edit of what
an executor holds is what the two hypotheses exclude. With the review routes out of use the second
one follows from `FrozenAll` (`ApprovedUnlessTorn`).

### Runs

Nothing is assumed: the model never takes a lock from a live executor. `EffectOnce` fails to be
inductive for the same reason as above, and `RunExecution!IInv` has the same shape: `OwnsLock`
leaves one executor between claim and outcome, `ClaimUnder` says what holds there (the claim is
taken, nothing is performed before the request, a person agreed), `EffectClaimed` keeps what was
performed behind a claim that is neither free nor failed, and `Consents` carries a person's
approval from the step record to the steps behind it. A crash may strand a claim in `sending`,
which no executor takes again. `TypeCorrect` comes first, because a step's claim means something
only while the walk stands at a step of the graph (`StandsAtStep`, `CurrentType`).

`WInv` is about the walk: its run has no outcome yet, what the executor remembers of the steps
is what their records say (`Walked`), a decision is final (`Decided`), and a waiting run has
a step somebody can resolve. `PInv` is about the preparation: what the preparer has found of its
branch is still so (`Prepares`), a branch has one item and one publication, and the branches behind
it have theirs. `StepElsewhere` and `OthersWalk` keep the executors that do not move;
`StepReaches`, `StepWalks`, `StepAsks`, `StepPrepares` and `StepItems` carry the one that does.

`Implements` says of every step of the graph at once that its claim and its effects are a
`Delivery` of their own: `Departs` (`Claim` of a reply or action), `Performs`, `GivesBack` and `Ends` are its
steps, everything else leaves every claim alone (`Untouched`). That a claim is given back or ends
in success only as `Delivery` allows is `IInv`; for the success, `ClaimUnder` had to
say as well that an executor past a confirmed request has performed the effect.

### YouTube

An executor's position, its copy of the row, the row, the session and the video must agree
(`Agrees`), and the executor is alone (`Alone`): a claim that finds nobody at work, which is
`MaxOverlaps = 0`, starts the only one. The lemmas split a step by who takes it and what it may touch
(`Beside`, `Own`, `Proceeds`, `Throws`), then follow `Next` (`UsersKeep`, `WorldKeeps`, `OthersKeep`,
`UploadKeeps`, `PublicationKeeps`).

`ApprovedBytes` needs a second layer, `BInv`, inductive beside `IInv`: a row on its way to
YouTube is approved, and what was approved is what it still holds (`Standing`); a session belongs to
an approved row, has the revision approved last, and bytes of the row's file only (`Recorded`); a
file of its own never changes (`Fixed`); and an executor holds the row's revision and
file, and has checked the file before it asks for a session (`Follows`). That a changed
source is noticed before a chunk is read (`Readable`) then gives `Transfers`: a PUT leaves the
bytes of that file, whatever YouTube stored and whichever answer got lost.

`CarriedOn` is about the queue. Its invariant `JInv` says who holds a job (`Manned`), and, while there was at
most one crash, that a job without an owner was orphaned by that crash and has not stalled yet
(`Spared`), and that a row on its way has a job that `Carries` it: one waiting with no call of a
route outstanding, one BullMQ will hand out again, or one whose worker is still going to publish. Which job
that is changes at a crash and at a claim, so the invariant quantifies over jobs and the step
lemmas name the one that takes over.

`Implements` maps every step to one of `Delivery` or to a stutter. Most steps leave the session, the
video, the mark and YouTube alone and are decisions of people at most (`Deciding`). The others are an
executor's. `CheckSource` departs: `BInv` has the approval there, `IInv` the date. A PUT lets
the video arrive in the session that is stored, at most once because bytes are in no other
(`Counted`). A refused request, or a crash before its session is stored, gives the item back
while YouTube has no bytes. The catch of a lost answer loses track. What the proof adds to the invariants is
`Whole`: YouTube finishes a video only with every chunk, and a video that is recorded, or about to
be, is there.

### Answers

`TypeOK` with what an execution's local variables hold at each step (`Locals`) comes first. Then
`IInv` joins, per execution, the claim it holds and what it may rely on; per comment, that an
answer is behind a claim nobody takes again and was agreed to; per day, that the claims stay
within a limit. `Implements` is `Delivery` once per comment, by the same four kinds of steps as for
runs; two runs of one comment share its claim, so a run that lost the race departs from nothing.

`Billed` needs no assumption. `Covered` says that nothing is spent unaccounted and that the sum
reserved is exactly that of the open requests, so no reservation leaks or is settled twice.
Its invariant (`Booked`) says that one `Bound` is reserved for each
open request and that what was charged for the others is counted as used, both within the
highest credit granted; the theorem is about the sum of the open bills. That this sum is at most
`Bound * Cardinality(open)` (`SumExists`, `SumBound`) takes induction: the library's fold is
a recursive function on sets, whose equation is shown to have a solution, and the bound to hold, by the
smallest set for which they would not (`Smallest`, over `WellFoundedInduction`).

### Sending

The types of `Sending` carry part of the argument: no container is used that was never made.
`PreparedNotAgain` needs only that a sender that makes images or a container found no container on
file, knows the images that are, and is edited by nobody meanwhile (`OnFile`). The rest is `IInv`: one copy (`OneCopy`), each copy accounted for (`Accountable`,
`Receipts`, `Underway`), and what is on file and posted is of the current revision (`Current`,
`InPlace`, `Containers`). `Quiet` and `QuietEnd` cover the steps that change no copy, `Sent`
the requests that may; `Implements` maps a request to `Delivery`'s attempt, everything else to a
stutter.

### Workflows

`GraphProblemExact` is about an algorithm: `graphProblem` removes cards whose predecessors are gone, for
as many rounds as there are cards, and walks from the sources the same way. Both are recursive
functions. That the rounds empty exactly a graph without a circle, and that the walk reaches
exactly what a way leads to, is proved over least numbers and smallest subsets (`Upward`),
because every finite set of cards that is not empty has one without a predecessor in it, unless there is a circle.

`Builder!IInv` holds the server's and the editors' side together: versions are appended
and never changed (`FlowKept`, `FlowGrows`); a save in flight carries a snapshot of its editor, and
a judged save passed the checks with the row its handler read (`CallKept`); an editor's snapshot is the
version it agreed on, whether a load or only a save told it (`TabKept`); a key names one class of card in every graph that is in play
(`OneClass`), for keys are new when they are drawn; edges on canvases join cards and make no
circle (`AllJoined`). `Agrees` and `Grown` relate a graph to the ones it was edited from, `Draws` and `Told`
say what one edit and one answer do. `Conducting` compares, at the commit, the row that was read with the row that
is locked: a named setting is the same in both, so a graph that does not conduct gets into an active workflow only
where the status was left out and switched on in between, and `StoresConducting` names exactly these
two cases (`Late`). `EditorsConduct` adds that nothing is left out where only editors save.

### Only model-checked

- Liveness (`AttemptsAccounted`, `ReleasedEnds`, `TakenUp`, `PreparedAtLast`): the
  prover has no fairness and no `ENABLED`.
- Beyond the hypotheses of its theorem: `PublishedAsShown` in `lost_lock`, with a lost lock.

Every other property of the runs has a theorem.

Induction schemas take an operator as a parameter, which no installed prover
instantiates; where induction was needed it is a well-founded minimum. Recursion in the
modules is by recursive functions and folds.

## 5. Not modelled, and why

- Several items or runs at once: publications share only the pacing slot and the
  daily count, runs a recovery pass whose first error ends the pass, YouTube items the
  account's quota. A run's publications and the publications `Publication` delivers are
  not composed: they meet in the rows an origin of `Publication` starts from.
- Of collections: the re-import of rows of other channels, beyond what an edit does to
  them; the sheet poller and its snapshots.
- Of YouTube: OAuth, the check for shorts, creating and ordering playlists, the channel's
  and users' quotas. Of Instagram: analysis, trend and creative cards.
- Image generation and its jobs, publication pacing, connection checks, feeds and cursors
  of the news poller: next in the plan, or no behaviour beyond one statement.
- In `Answers`, a lost lock connection and two accounts; in `Sending`, what images look like.
- Errors of single database statements, except where the code's handler for them is
  part of the protocol (the error handlers of the executors, saves of Instagram's state).
- Awaits inside one route: `RetryFetch` is one step, though the code takes a file and then writes the
  settings it read before, `WHERE` the item is failed (`routes/youtube.ts:210-222`). For that write to
  meet another attempt's failure the item must meanwhile have been given a different file, approved
  and sent; the theorems do not cover this. `PatchMedia` has one query between its read and its write, which is
  `WHERE` the item waits for its video (`routes/youtube.ts:149-157`); `RetryRoute` stands for
  the awaits of `analytics.ts:129-143`.
- Errors before the claim of a publication: `ReadVariant` leaves out a variant that is gone, images that were
  never prepared and a pacing slot that cannot be reserved (`publisher.ts:75,78,113`). They throw
  outside the handler's `try` and change no row; `ReleasedEnds` is about items that do not meet them for ever.
- Row locks and the deadlock they allow (`approvals.ts:100` locks approvals, then the
  variant, the calendar the other way round): a transaction is one action.
- Formatting, prompts, filters, reports, authorisation, accounts, team and the rest of the
  web client.

## 6. Disagreements with the documentation

Each has a run that ends in a counterexample:

1. `stale_approval`. `docs/calendar.md:13` says an edit cancels the earlier approval. An
   edit between the error handler's first and second statement (`publisher.ts:236`) is
   overwritten with `failed`, and a failed variant is approved by any old approvals row.
   `ApprovedPosts` is therefore no property of a passing run; it is proved where edits wait for the error
   handler and for a sender (`ApprovedIfEditsWait`); without the review routes this edit is the only way (`ApprovedUnlessTorn`).
2. `youtube_twice`. `docs/youtube.md:31,35` says that another attempt goes on with the same
   session and that no second one is made. The recovery pass looks for the job `youtube-<id>`
   only (`dispatch-recovery.ts:26`) and adds it while the calendar's job `youtube-<id>-v<n>`
   still waits for a free slot. The second executor reads `uploading`, its claim `WHERE status` is what it
   read succeeds, and it opens a session beside the first executor's.

Observed while modelling, and the reason for an assumption or bound:

- A lost lock connection together with a crash of the second sender, or with a calendar
  mutation, ends in a second copy: the error handler (`publisher.ts:222`) writes `WHERE id`
  only and clears a mark that another executor has set. `docs/execution-reliability.md:7`
  says otherwise. Hence `MaxDrops = 0` in the theorems.
- The older retry route requeues a row without asking what the destination has, and forgets
  "unknown" (`analytics.ts:138`); it leaves the variant `failed`, so that its job finds
  nothing to send and the row stays queued. Hence `"retry" \notin Routes`.
- Review routes may send an item back to draft and edit it while it is being published;
  the published row then shows other content. Hence `Reviewless`.
- When the receipt's transaction fails and the process dies after the error handler's first
  statement, the row is published and the variant is not, for line 37 of the executor returns at
  once for a published row; `docs/execution-reliability.md:11` promises a repair. Hence
  `MaxFaults = 0` where `RowsAgree` is checked and proved.
- Only queued runs get a job again. A run whose executor died is `running`; after a second
  stall BullMQ has failed its job for good, contrary to
  `docs/execution-reliability.md:9`.
- Deleting a workflow deletes its claims (`schema.ts:532,556`): another workflow answers the
  same comment again, contrary to `docs/instagram-cards.md:41` and `docs/youtube.md:64`. Hence
  `~LosesClaims`.
- A connection event whose insert fails after Telegram has answered turns into a plain error,
  and the send is repeated. Hence `MaxUpsets = 0`. `Publication!Send` leaves this outcome out. Eitaa's success without a message id is a
  plain error as well (`channels/index.ts:229`) and is repeated, contrary to
  `docs/capabilities.md:22`; `OneCopy` leaves Eitaa out.
- `PATCH /content-variants` changes the content and keeps the Instagram container on file
  (`content.ts:237`), which the calendar's edit clears (`calendar.ts:170`). After a failed attempt
  the item can be rejected or taken back, edited there and approved anew, and the container of
  the old content is sent. Hence `Sending!AfterEdit` is the calendar's edit alone: `Fresh` says nothing about
  the other one.
- A `PUT` without a status is checked as what the row said before the transaction
  (`workflows.ts:791`) and stored as what the locked row says (`workflows.ts:813`). If another save activates the
  workflow in between, a graph that was checked as a draft becomes the active version, though active
  workflows with cards that lead nowhere are refused (`collection-publication-flow.test.ts:57-58`). Hence
  the exception `Late` in `StoresConducting`, and `Sendable = {}` in the theorem on `ActiveConducts`.
- Updating the metadata of a published video writes to YouTube before the transaction ends
  (`content-collections.ts:63`): if that is rolled back, the row shows the old texts. What people
  agreed to follows their request there, so `ApprovedBytes` holds, and no property compares row and
  video after that. `ApprovedBytes` also says nothing about a row approved before its file had a snapshot
  (`agreed.remote = 0`): there the first comparison takes the file as it is.

Observed, without consequence for a property here. *Publication*: `approvals.ts:89` approves the
variant it reads at that moment, so an edit between what the approving person saw and the click
is approved too; a website that honours
the idempotency key keeps the old content when an answer without an id is followed by an
edit. *Runs and answers*: a poller that dies between claiming an item and inserting its run
loses the item; a `queue.add` that fails after adding yields two runs of one item, and the
poller's write may overwrite a running run's status; of two simultaneous Instagram runs of
one account the second's step fails for good; a last check that fails is recorded as
`uncertain` though nothing was sent; a rejection that is no JSON keeps its reservation
(contrary to the comment at `tenant-policy.ts:47`), and reservations of lost answers are
never freed. *YouTube*: `routes/youtube.ts:233` marks a row failed `WHERE id` only; editing or
refreshing the token of a disconnected account connects it again; a second crash leaves an
item `uploading` for good. *Workflows*: the last save wins with its whole graph, no version is
compared; putting a
card back may close a circle, and the server refuses it later; the canvas accepts
collection to image after image to draft; saving before the load has ended creates a copy,
and so does saving again after the answer to the first save was lost; activation with a lost answer leaves
the editor showing a draft of an active workflow; after a load that failed the editor never warns of
unsaved changes; deleting an AI profile overlooks Instagram
and analysis cards and races with a save (`ai-settings.ts:129`). *Elsewhere*: a failed
image job's `cacheKey` keeps the image from being generated again.

## 7. Plan

1. **Workspace**: members, channels and image jobs against the plan's limits (`Members`,
   `Channels`, `ImageJobs` over one subscription row), and the intake of feeds and sheets.
2. **Collections**: re-import against edited, scheduled and published rows of all channels.
3. **Composition**: runs preparing publications that `Publication` delivers, through the
   rows both share.
4. **Proofs**: YouTube under a weaker hypothesis than `MaxOverlaps = 0`, one that lets a second
   executor in once the session is stored.
