--------------------------- MODULE YoutubeUpload ----------------------------
(***************************************************************************)
(* The resumable upload of one YouTube item: uploadYoutubeVideo            *)
(* (packages/db/src/youtube-upload.ts) with what executeYoutube            *)
(* (apps/worker/src/youtube.ts) stores for it, YouTube's upload sessions,  *)
(* and the remote file the bytes of a collection item come from            *)
(* (packages/db/src/remote-video.ts). YoutubeItem adds the life of the     *)
(* item around it.                                                         *)
(*                                                                         *)
(* A request, what YouTube does with it and what the client does with the  *)
(* answer up to its next database write are one action; the file is        *)
(* counted in chunks.                                                      *)
(***************************************************************************)
EXTENDS Integers, FiniteSets

CONSTANTS
  Workers,        \* BullMQ slots that process publication jobs
  Sessions,       \* numbers of the upload sessions YouTube opens for the item
  None,           \* no session, video, job, owner
  Chunks,         \* size of the video
  MaxRecoveries,  \* interruptions one call recovers from
  MaxRotations,   \* bound: times YouTube moves a session to a new address
  MaxSource       \* bound: versions of the remote file

ASSUME UploadConstants ==
  /\ Sessions \subseteq Nat /\ None \notin Sessions /\ None \notin Workers
  /\ Chunks \in Nat \ {0} /\ MaxRecoveries \in Nat
  /\ MaxRotations \in Nat /\ MaxSource \in Nat \ {0}

VARIABLES
  collection,  \* the item belongs to a content collection
  item,        \* the youtubeItems row
  google,      \* what YouTube holds for each session
  source,      \* version of the remote file now
  unanswered,  \* an executor saw its request for a session go unanswered
  pc, ctx      \* an executor's next step and local variables

Versions == 1 .. MaxSource

\* The settings of the row, which executors write back as a whole.
Settings == {"unknown", "changed", "remote", "media", "cover"}

\* What an executor keeps of the row it claimed.
Copy(row) == [f \in Settings \cup {"rev", "session", "uri", "video"} |-> row[f]]

WithSettings(row, mine) ==
  [f \in DOMAIN row |-> IF f \in Settings THEN mine[f] ELSE row[f]]

Goto(w, step) == pc' = [pc EXCEPT ![w] = step]

\* What an upload leaves behind when it ends.
After(c) == [c EXCEPT !.offset = 0, !.probe = FALSE, !.recoveries = 0]

\* An error reaches executeYoutube's catch.
Throw(w, error) ==
  /\ pc' = [pc EXCEPT ![w] = "fail"]
  /\ ctx' = [ctx EXCEPT ![w] = [After(@) EXCEPT !.error = error]]

Opens_Any(snapshot) == TRUE

\* openCollectionVideoSource with the snapshot stored before, if any.
Opens(snapshot) == snapshot \in {0, source}

\* Outside a session YouTube knows nothing of the item.
Unopened == [uri |-> 0, rev |-> 0, received |-> 0, bytes |-> {}, video |-> "none", listed |-> 0]
Opened(s) == google[s].rev # 0

-----------------------------------------------------------------------------
(* Before the first byte: the source, then the session.                     *)

\* A collection's file must still be the one that was checked; its identity is
\* saved before a session exists. A stored session is asked before it is used.
CheckSource(w) ==
  /\ pc[w] = "source"
  /\ LET mine == ctx[w].mine
         next == [mine EXCEPT !.remote = IF collection THEN source ELSE @,
                              !.media = IF collection THEN FALSE ELSE @]
     IN \/ Throw(w, "error") /\ UNCHANGED item
        \/ /\ ~mine.unknown
           /\ collection => ~(mine.session # None /\ mine.remote = 0)
           /\ IF collection /\ ~Opens(mine.remote)
              THEN Throw(w, "changed") /\ UNCHANGED item
              ELSE /\ collection \/ mine.media
                   /\ ctx' = [ctx EXCEPT ![w].mine = next,
                                         ![w].probe = mine.session # None]
                   /\ item' = WithSettings(item, next)
                   /\ Goto(w, IF mine.session = None THEN "post" ELSE "put")
  /\ UNCHANGED <<collection, unanswered, google, source>>

\* POST videos?uploadType=resumable. The answer names the session, or it is
\* lost, a refusal or without a usable address: whatever YouTube opened then,
\* nobody can reach.
PostSession(w) ==
  /\ pc[w] = "post"
  /\ \/ \E s \in Sessions :
          /\ ~Opened(s) /\ \A r \in Sessions : r < s => Opened(r)
          /\ google' = [google EXCEPT ![s] = [Unopened EXCEPT !.rev = ctx[w].mine.rev]]
          /\ ctx' = [ctx EXCEPT ![w].mine = [@ EXCEPT !.session = s, !.uri = 0]]
          /\ Goto(w, "saveSession")
     \/ \E e \in {"error", "ambiguous"} : Throw(w, e) /\ UNCHANGED google
  /\ UNCHANGED <<collection, unanswered, item, source>>

SaveSession_Not(w) ==
  /\ pc[w] = "saveSession"
  /\ Goto(w, "put")
  /\ UNCHANGED <<collection, unanswered, item, google, source, ctx>>

\* saveSession: the address is stored before it is used.
SaveSession(w) ==
  /\ pc[w] = "saveSession"
  /\ item' = [item EXCEPT !.session = ctx[w].mine.session, !.uri = ctx[w].mine.uri]
  /\ Goto(w, "put")
  /\ UNCHANGED <<collection, unanswered, google, source, ctx>>

-----------------------------------------------------------------------------
(* The transfer: one PUT per turn of the loop.                              *)

\* A PUT without a chunk asks for the offset.
Querying(c) == c.probe \/ c.offset = Chunks

\* What YouTube may hold after a PUT: it stores the chunk or not, and once it
\* has the whole file it may finish the video.
Stored(g, c) ==
  IF ~Querying(c) /\ c.offset = g.received
  THEN {g, [g EXCEPT !.received = @ + 1,
                     !.bytes = @ \cup {source}]}
  ELSE {g}

Finished(g) ==
  IF g.received = Chunks /\ g.video = "none" THEN {g, [g EXCEPT !.video = "pending"]} ELSE {g}

Served(w) ==
  LET g == google[ctx[w].mine.session]
  IN IF ctx[w].mine.uri # g.uri THEN {g} ELSE UNION {Finished(h) : h \in Stored(g, ctx[w])}

\* A chunk is read from the file that was checked, or not at all.
Readable(w) == Querying(ctx[w]) \/ ~collection \/ Opens(ctx[w].mine.remote)

Tell(w, c, step) == ctx' = [ctx EXCEPT ![w] = c] /\ Goto(w, step)

\* recover: wait and ask for the offset, a limited number of times in a call.
Recover(w, c) ==
  IF c.recoveries >= MaxRecoveries THEN Tell(w, [After(c) EXCEPT !.error = "error"], "fail")
  ELSE Tell(w, [c EXCEPT !.recoveries = @ + 1, !.probe = TRUE], "put")

PutBlocked(w) ==
  /\ pc[w] = "put"
  /\ ~Readable(w)
  /\ Throw(w, "changed")
  /\ UNCHANGED <<collection, unanswered, item, google, source>>

\* Network errors, timeouts, 5xx answers and unreadable confirmations.
PutLost(w) ==
  /\ pc[w] = "put" /\ Readable(w)
  /\ \E g \in Served(w) : google' = [google EXCEPT ![ctx[w].mine.session] = g]
  /\ Recover(w, ctx[w])
  /\ UNCHANGED <<collection, unanswered, item, source>>

\* 4xx: an expired session, a paused workspace, a source that cannot be read.
PutRefused(w) ==
  /\ pc[w] = "put"
  /\ Throw(w, "error")
  /\ UNCHANGED <<collection, unanswered, item, google, source>>

\* 308 acknowledges what YouTube holds and may move the session. An address
\* that moved is stored before anything else is sent.
PutContinue(w) ==
  /\ pc[w] = "put" /\ Readable(w)
  /\ ctx[w].mine.uri = google[ctx[w].mine.session].uri
  /\ \E g \in Served(w), moved \in {0, 1} :
       LET c == ctx[w]
           s == c.mine.session
           ack == g.received
           d == [c EXCEPT !.mine.uri = @ + moved, !.offset = ack, !.probe = FALSE]
           stays == IF Querying(c) THEN ack = Chunks ELSE ack = c.offset
       IN /\ g.video = "none" /\ c.mine.uri + moved <= MaxRotations
          /\ IF ack < c.offset \/ (~Querying(c) /\ ack > c.offset + 1)
             THEN /\ google' = [google EXCEPT ![s] = g]
                  /\ Throw(w, "error") /\ UNCHANGED item
             ELSE /\ google' = [google EXCEPT ![s] = [g EXCEPT !.uri = @ + moved]]
                  /\ IF moved = 0
                     THEN IF stays THEN Recover(w, d) ELSE Tell(w, d, "put")
                     ELSE Tell(w, [d EXCEPT !.stays = stays], "saveMoved")
                  /\ item' = WithSettings(item, c.mine)
  /\ UNCHANGED <<collection, unanswered, source>>

SaveMoved(w) ==
  /\ pc[w] = "saveMoved"
  /\ item' = [item EXCEPT !.session = ctx[w].mine.session, !.uri = ctx[w].mine.uri]
  /\ LET c == [ctx[w] EXCEPT !.stays = FALSE]
     IN IF ctx[w].stays THEN Recover(w, c) ELSE Tell(w, c, "put")
  /\ UNCHANGED <<collection, unanswered, google, source>>

\* 200 carries the video's id: after the last chunk, or to a question.
PutDone(w) ==
  /\ pc[w] = "put" /\ Readable(w)
  /\ LET c == ctx[w]
         s == c.mine.session
     IN /\ c.mine.uri = google[s].uri
        /\ \E g \in Served(w) :
             /\ g.video # "none"
             /\ google' = [google EXCEPT ![s] = g]
             /\ IF Querying(c) \/ c.offset + 1 = Chunks
                THEN Tell(w, [After(c) EXCEPT !.mine.video = s], "saveVideo")
                ELSE Throw(w, "error")
  /\ UNCHANGED <<collection, unanswered, item, source>>

\* saveProgress(100, id): the video is known from here on.
SaveVideo(w) ==
  /\ pc[w] = "saveVideo"
  /\ item' = [WithSettings(item, ctx[w].mine) EXCEPT !.video = ctx[w].mine.video]
  /\ Goto(w, "processing")
  /\ UNCHANGED <<collection, unanswered, google, source, ctx>>

UploadStep(w) ==
  \/ CheckSource(w) \/ PostSession(w) \/ SaveSession(w) \/ PutBlocked(w) \/ PutLost(w)
  \/ PutRefused(w) \/ PutContinue(w) \/ SaveMoved(w) \/ PutDone(w) \/ SaveVideo(w)
=============================================================================
