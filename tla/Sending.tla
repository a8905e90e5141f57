------------------------------- MODULE Sending -------------------------------
(***************************************************************************)
(* What Publication calls Send, in detail: the channel clients             *)
(* (packages/channels/src/index.ts), the fetcher that routes a request     *)
(* directly or through a proxy and classifies its failures                 *)
(* (packages/db/src/publishing-connection.ts), Instagram's preparation,    *)
(* which is saved between attempts, and the reading of the result by       *)
(* apps/worker/src/publisher.ts. One item, one sender at a time: what the  *)
(* lock and the job queue contribute is in Publication.                    *)
(*                                                                         *)
(* One provider call is one action: its first dispatch, the fallback to    *)
(* the proxy, the connection events it inserts and the reading of its      *)
(* answer. A save of the provider state is an action of its own.           *)
(***************************************************************************)
EXTENDS Integers, Sequences

CONSTANTS
  Channels,       \* destinations the item may be for, a subset of ChannelKinds
  Images,         \* how many images an album may have; 0 is a single medium
  MaxAttempts,    \* attempts of a job
  MaxRevision,    \* bound: edits of the content
  MaxFaults,      \* bound: deaths of the sending process
  MaxUpsets,      \* bound: inserts of a connection event that fail
  MaxContainers,  \* bound: containers the destination prepares
  MaxPosts        \* bound: posts of one request each at the destination

ChannelKinds == {"telegram", "bale", "eitaa", "website", "webhook", "instagram"}
Modes == {"direct", "proxy", "auto"}

ASSUME SendingAssumption ==
  /\ Channels \subseteq ChannelKinds
  /\ Images \subseteq Nat
  /\ MaxAttempts \in Nat \ {0}
  /\ MaxRevision \in Nat /\ MaxFaults \in Nat
  /\ MaxUpsets \in Nat /\ MaxContainers \in Nat /\ MaxPosts \in Nat

VARIABLES
  card,     \* destination, connection mode and number of album images
  row,      \* the publication: status, unknown delivery, attempts made
  variant,  \* the content: revision, and the provider state saved with it
  pc, ctx,  \* the sender's next step and local variables
  posts,    \* the destination: revisions each post is made of
  remote,   \* Instagram's containers
  proxy,    \* whether the item's saved proxy exists and is active
  faults, upsets

vars == <<card, row, variant, pc, ctx, posts, remote, proxy, faults, upsets>>

Revisions == 0 .. MaxRevision
PCs == {"idle", "post", "children", "saveChild", "container", "saveContainer",
        "status", "publish", "note"}
Results == {"none", "confirmed", "unknown", "failed"}
Statuses == {"held", "queued", "publishing", "published", "failed"}

Routable == {"telegram", "instagram"}   \* have a connection mode
Keyed == {"website", "webhook"}         \* honour an Idempotency-Key
Held == {"telegram", "bale", "instagram"}   \* hold a success without receipt as unknown

\* Only Instagram has albums, and only what is routable has a connection mode.
Cards == {c \in [channel : Channels, mode : Modes, images : Images] :
            /\ c.images > 0 => c.channel = "instagram"
            /\ c.mode # "direct" => c.channel \in Routable}

IdleCtx == [revision |-> 0, children |-> <<>>, container |-> 0,
            route |-> "direct", result |-> "none"]

Init ==
  /\ card \in Cards
  /\ row = [status |-> "queued", unknown |-> FALSE, made |-> 0]
  /\ variant = [revision |-> 0, children |-> <<>>, container |-> 0]
  /\ pc = "idle" /\ ctx = IdleCtx
  /\ posts = <<>> /\ remote = <<>> /\ proxy = TRUE
  /\ faults = 0 /\ upsets = 0

-----------------------------------------------------------------------------
(* One request, over a connection mode.                                     *)

\* What one dispatch of a request may come to: it never left, it met a
\* certificate or proxy that stopped it, its answer was lost, or it was
\* answered; and how often it took effect at the destination.
Exchange(able) ==
  {[seen |-> s, done |-> 0] : s \in {"unsent", "barred", "lost", "refused"}}
  \cup IF able THEN {[seen |-> s, done |-> 1] : s \in {"id", "noid", "text", "lost"}}
       ELSE {}

\* A network error on the direct route of an automatic connection.
FallsBack(s) == card.mode = "auto" /\ ctx.route = "direct" /\ s \in {"lost", "unsent"}

Repeatable_Lost(write, s) == TRUE
Repeatable(write, s) == write => s = "unsent"

\* A write whose answer was lost is ambiguous.
Seen_Plain(write, s) == IF write /\ s = "lost" THEN "barred" ELSE s
Seen(write, s) == IF write /\ s = "lost" THEN "ambiguous" ELSE s

Reply(s, n, route) == [seen |-> s, done |-> n, route |-> route, upset |-> FALSE]

Routed(write, able) ==
  {Reply(Seen(write, x.seen), x.done, ctx.route) :
     x \in {e \in Exchange(able) : ~FallsBack(e.seen)}}
  \cup
  {Reply(Seen(write, x.seen), x.done, "proxy") :
     x \in {e \in Exchange(able) : FallsBack(e.seen) /\ ~Repeatable(write, e.seen)}}
  \cup
  {Reply(Seen(write, p[2].seen), (IF write THEN p[1].done ELSE 0) + p[2].done, "proxy") :
     p \in {e \in Exchange(able) : FallsBack(e.seen) /\ Repeatable(write, e.seen)}
             \X Exchange(able)}

\* The insert of a connection event throws in place of what was seen.
Upset(replies) ==
  {[seen |-> x[2], done |-> x[1].done, route |-> x[1].route, upset |-> TRUE] :
     x \in {r \in replies : upsets < MaxUpsets} \X {"ambiguous", "barred"}}

\* The replies the channel client may get to a request; Telegram and Instagram
\* have a transport, the others use the global fetch.
Replies(write, able) ==
  IF card.channel \in Routable
  THEN Routed(write, able) \cup Upset(Routed(write, able))
  ELSE {Reply(x.seen, x.done, ctx.route) : x \in Exchange(able)}

\* Success without a usable receipt is unknown for some clients; the others
\* call it a failure.
Verdict(s) ==
  IF s = "id" THEN "confirmed"
  ELSE IF \/ s \in {"ambiguous", "lost"}
          \/ s \in {"noid", "text"} /\ card.channel \in Held
       THEN "unknown" ELSE "failed"

\* The same while Instagram prepares: an object without an id is a failure.
PreparationVerdict(s) == IF s = "noid" THEN "failed" ELSE Verdict(s)

-----------------------------------------------------------------------------
(* The sender.                                                              *)

Conclude(result, route) ==
  /\ pc' = "note"
  /\ ctx' = [ctx EXCEPT !.result = result, !.route = route]

Count(r) == upsets' = IF r.upset THEN upsets + 1 ELSE upsets

\* The receipt's transaction or the error handler. An unknown delivery is
\* final, a failure is retried while the job has attempts left.
RowAfter(result) ==
  LET made == IF row.made < MaxAttempts THEN row.made + 1 ELSE MaxAttempts IN
  [status |-> IF result = "confirmed" THEN "published"
              ELSE IF result = "unknown" \/ made = MaxAttempts THEN "failed"
              ELSE "queued",
   unknown |-> result = "unknown",
   made |-> made]

\* A connection that needs a proxy has none to use.
NoTransport == card.mode # "direct" /\ ~proxy

\* The attempt fails before anything is marked or sent.
FailEarly ==
  /\ pc = "idle" /\ row.status = "queued" /\ NoTransport
  /\ row' = RowAfter("failed")
  /\ UNCHANGED <<card, variant, pc, ctx, posts, remote, proxy, faults, upsets>>

Reused_Never == 0
Reused == variant.container

FirstStep ==
  IF card.channel # "instagram" THEN "post"
  ELSE IF Reused # 0 THEN "status"
  ELSE IF card.images > 0 THEN "children" ELSE "container"

\* The attempt claims the row, marks it and enters the channel's client.
Depart ==
  /\ pc = "idle" /\ row.status = "queued" /\ ~NoTransport
  /\ row' = [row EXCEPT !.status = "publishing"]
  /\ ctx' = [revision |-> variant.revision, children |-> variant.children,
             container |-> Reused,
             route |-> IF card.mode = "proxy" THEN "proxy" ELSE "direct",
             result |-> "none"]
  /\ pc' = FirstStep
  /\ UNCHANGED <<card, variant, posts, remote, proxy, faults, upsets>>

\* Posts after n effects of a request that publishes these parts.
PostsAfter(n, parts) ==
  IF n = 0 \/ (card.channel \in Keyed /\ posts # <<>>) THEN posts
  ELSE posts \o [i \in 1 .. n |-> parts]

\* One request publishes.
PostAs(kinds) ==
  /\ pc = "post" /\ card.channel \in kinds
  /\ \E r \in Replies(TRUE, Len(posts) < MaxPosts) :
       /\ posts' = PostsAfter(r.done, {ctx.revision})
       /\ Conclude(Verdict(r.seen), r.route)
       /\ Count(r)
  /\ UNCHANGED <<card, row, variant, remote, proxy, faults>>

PublishTelegram == PostAs({"telegram", "bale"})
PublishWebsite == PostAs({"website"})
PublishEitaa == PostAs({"eitaa"})
PublishFallbackWebhook == PostAs({"webhook"})

Post == PublishTelegram \/ PublishWebsite \/ PublishEitaa \/ PublishFallbackWebhook

\* Instagram prepares an album image by image, and remembers each.
CreateChild ==
  /\ pc = "children" /\ Len(ctx.children) < card.images
  /\ \E r \in Replies(TRUE, TRUE) :
       /\ Count(r)
       /\ IF r.seen = "id"
          THEN /\ ctx' = [ctx EXCEPT !.children = Append(@, ctx.revision), !.route = r.route]
               /\ pc' = "saveChild"
          ELSE Conclude(PreparationVerdict(r.seen), r.route)
  /\ UNCHANGED <<card, row, variant, posts, remote, proxy, faults>>

\* The write of the provider state may fail like any statement.
SaveFails == \E result \in {"unknown", "failed"} :
               Conclude(result, ctx.route) /\ UNCHANGED variant

SaveChild ==
  /\ pc = "saveChild"
  /\ \/ /\ variant' = [variant EXCEPT !.children = ctx.children]
        /\ pc' = "children"
        /\ UNCHANGED ctx
     \/ SaveFails
  /\ UNCHANGED <<card, row, posts, remote, proxy, faults, upsets>>

\* Every image must be ready before the album is made.
CheckChildren ==
  /\ pc = "children" /\ Len(ctx.children) >= card.images
  /\ \E r \in Replies(FALSE, TRUE), ready \in BOOLEAN :
       /\ Count(r)
       /\ IF r.seen = "id" /\ ready
          THEN pc' = "container" /\ ctx' = [ctx EXCEPT !.route = r.route]
          ELSE Conclude(IF r.seen = "id" THEN "failed" ELSE PreparationVerdict(r.seen), r.route)
  /\ UNCHANGED <<card, row, variant, posts, remote, proxy, faults>>

Prepared == {ctx.revision} \cup {ctx.children[i] : i \in 1 .. Len(ctx.children)}

CreateContainer ==
  /\ pc = "container"
  /\ \E r \in Replies(TRUE, Len(remote) < MaxContainers) :
       /\ Count(r)
       /\ remote' = IF r.done = 0 THEN remote
                    ELSE Append(remote, [parts |-> Prepared, published |-> FALSE])
       /\ IF r.seen = "id"
          THEN /\ ctx' = [ctx EXCEPT !.container = Len(remote) + 1, !.route = r.route]
               /\ pc' = "saveContainer"
          ELSE Conclude(PreparationVerdict(r.seen), r.route)
  /\ UNCHANGED <<card, row, variant, posts, proxy, faults>>

SaveContainer ==
  /\ pc = "saveContainer"
  /\ \/ /\ variant' = [variant EXCEPT !.container = ctx.container]
        /\ pc' = "status"
        /\ UNCHANGED ctx
     \/ SaveFails
  /\ UNCHANGED <<card, row, posts, remote, proxy, faults, upsets>>

\* What a container's status code says: published before, ready or not.
StatusVerdict(published, ready) ==
  IF published THEN "unknown" ELSE IF ready THEN "ready" ELSE "failed"

CheckContainer ==
  /\ pc = "status"
  /\ \E r \in Replies(FALSE, TRUE), ready \in BOOLEAN :
       LET verdict == IF r.seen = "id"
                      THEN StatusVerdict(remote[ctx.container].published, ready)
                      ELSE PreparationVerdict(r.seen) IN
       /\ Count(r)
       /\ IF verdict = "ready"
          THEN pc' = "publish" /\ ctx' = [ctx EXCEPT !.route = r.route]
          ELSE Conclude(verdict, r.route)
  /\ UNCHANGED <<card, row, variant, posts, remote, proxy, faults>>

\* media_publish; the permalink asked for afterwards decides nothing.
PublishContainer ==
  /\ pc = "publish"
  /\ \E r \in Replies(TRUE, ~remote[ctx.container].published) :
       /\ Count(r)
       /\ IF r.done = 0 THEN UNCHANGED <<posts, remote>>
          ELSE /\ posts' = Append(posts, remote[ctx.container].parts)
               /\ remote' = [remote EXCEPT ![ctx.container].published = TRUE]
       /\ Conclude(Verdict(r.seen), r.route)
  /\ UNCHANGED <<card, row, variant, proxy, faults>>

Note ==
  /\ pc = "note"
  /\ row' = RowAfter(ctx.result)
  /\ pc' = "idle" /\ ctx' = IdleCtx
  /\ UNCHANGED <<card, variant, posts, remote, proxy, faults, upsets>>

\* The process dies while it sends.
Crash ==
  /\ pc # "idle" /\ faults < MaxFaults
  /\ faults' = faults + 1
  /\ pc' = "idle" /\ ctx' = IdleCtx
  /\ UNCHANGED <<card, row, variant, posts, remote, proxy, upsets>>

\* The next execution finds the mark of a sender that is gone.
HoldUnknown ==
  /\ pc = "idle" /\ row.status = "publishing"
  /\ row' = [row EXCEPT !.status = "failed", !.unknown = TRUE]
  /\ UNCHANGED <<card, variant, pc, ctx, posts, remote, proxy, faults, upsets>>

-----------------------------------------------------------------------------
(* People. Whoever says that they looked at the destination has looked.     *)

Movable == row.status \in {"held", "queued", "failed"}
Looked == posts = <<>>

\* An edit in the calendar forgets what was prepared. The PATCH of the content
\* route, which keeps it, is left out (README, section 6).
AfterEdit_Kept == [variant EXCEPT !.revision = @ + 1]
AfterEdit == [revision |-> variant.revision + 1, children |-> <<>>, container |-> 0]

\* An edit withdraws the approval and drops what was prepared.
Edit ==
  /\ Movable /\ variant.revision < MaxRevision
  /\ variant' = AfterEdit
  /\ \E unknown \in {row.unknown, FALSE} :
       /\ unknown # row.unknown => Looked
       /\ row' = [row EXCEPT !.status = "held", !.unknown = unknown]
  /\ UNCHANGED <<card, pc, ctx, posts, remote, proxy, faults, upsets>>

\* Stopped or taken from its date: what was prepared stays on file.
Withhold ==
  /\ Movable /\ row.status # "held"
  /\ row' = [row EXCEPT !.status = "held"]
  /\ UNCHANGED <<card, variant, pc, ctx, posts, remote, proxy, faults, upsets>>

\* Approval of what is held, or a retry of what failed, as a new job.
Resume ==
  /\ row.status \in {"held", "failed"}
  /\ row.unknown => Looked
  /\ row' = [status |-> "queued", unknown |-> FALSE, made |-> 0]
  /\ UNCHANGED <<card, variant, pc, ctx, posts, remote, proxy, faults, upsets>>

\* The proxy is switched off or deleted, or on again.
SetProxy ==
  /\ proxy' = ~proxy
  /\ UNCHANGED <<card, row, variant, pc, ctx, posts, remote, faults, upsets>>

Sender ==
  \/ FailEarly \/ Depart \/ Post \/ CreateChild \/ SaveChild \/ CheckChildren \/ CreateContainer
  \/ SaveContainer \/ CheckContainer \/ PublishContainer \/ Note \/ HoldUnknown

Next == Sender \/ Crash \/ Edit \/ Withhold \/ Resume \/ SetProxy

Spec == Init /\ [][Next]_vars

-----------------------------------------------------------------------------
(* Properties.                                                              *)

TypeOK ==
  /\ card \in Cards
  /\ row \in [status : Statuses, unknown : BOOLEAN, made : 0 .. MaxAttempts]
  /\ variant \in [revision : Revisions, children : Seq(Revisions), container : Nat]
  /\ {variant.container, ctx.container} \subseteq 0 .. Len(remote)
  /\ pc \in {"saveContainer", "status", "publish"} => ctx.container # 0
  /\ pc \in PCs
  /\ ctx \in [revision : Revisions, children : Seq(Revisions), container : Nat,
              route : {"direct", "proxy"}, result : Results]
  /\ posts \in Seq(SUBSET Revisions)
  /\ remote \in Seq([parts : SUBSET Revisions, published : BOOLEAN])
  /\ proxy \in BOOLEAN
  /\ faults \in 0 .. MaxFaults /\ upsets \in 0 .. MaxUpsets

\* However often an item is attempted, rerouted, interrupted, edited and
\* resumed, its destination has at most one copy, unless that is Eitaa
\* (packages/db/src/publishing-connection.ts, packages/channels/src/index.ts).
OneCopy == card.channel # "eitaa" => Len(posts) <= 1

\* What a published item shows is what was posted, with edits in the calendar
\* between the attempts: nothing of an earlier revision is left in the
\* containers Instagram was given (calendar.ts, "delete settings.instagramContainerId").
Fresh ==
  row.status = "published" /\ card.channel \in Held =>
    \A i \in 1 .. Len(posts) : posts[i] = {variant.revision}

\* Attempts go on with what Instagram has prepared: no container is made while
\* the id of one is on file, and no image while there are enough on file.
PreparedOnce ==
  [][/\ remote' # remote /\ Len(remote') > Len(remote) => variant.container = 0
     /\ pc = "children" /\ pc' = "saveChild" => Len(variant.children) < card.images]_vars

-----------------------------------------------------------------------------
(* The inductive invariant.                                                 *)

Marked == row.unknown \/ row.status = "published"

\* A copy at the destination is behind a receipt, the mark of an unknown
\* delivery, or an attempt that is on its way to one of the two.
Accountable ==
  posts # <<>> /\ card.channel \in Held =>
    \/ Marked
    \/ row.status = "publishing" /\ (pc = "idle" \/ ctx.result \in {"confirmed", "unknown"})

\* A receipt is behind a copy.
Receipts == row.status = "published" \/ ctx.result = "confirmed" => posts # <<>>

Underway ==
  /\ pc # "idle" => row.status = "publishing" /\ ctx.revision = variant.revision
  /\ pc = "note" <=> ctx.result # "none"
  /\ pc = "idle" => ctx = IdleCtx
  /\ pc \notin {"idle", "post", "note"} => card.channel = "instagram"
  /\ row.unknown => row.status \in {"held", "failed"}

Whole(saved, i) == saved[i] = variant.revision

\* What is on file, and what the sender holds, is of the current revision.
Current ==
  /\ \A i \in 1 .. Len(variant.children) : Whole(variant.children, i)
  /\ \A i \in 1 .. Len(ctx.children) : Whole(ctx.children, i)
  /\ \A c \in {variant.container, ctx.container} \ {0} :
       remote[c].parts = {variant.revision}

\* From the departure on a post can only be of the current revision.
InPlace ==
  row.status \in {"publishing", "published"} /\ card.channel \in Held =>
    \A i \in 1 .. Len(posts) : posts[i] = {variant.revision}

\* A published container has its post.
Containers == \A c \in 1 .. Len(remote) : remote[c].published => posts # <<>>

IInv ==
  /\ OneCopy
  /\ Accountable /\ Receipts /\ Underway /\ Current /\ InPlace /\ Containers
=============================================================================
