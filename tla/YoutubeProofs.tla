--------------------------- MODULE YoutubeProofs ----------------------------
(***************************************************************************)
(* What TLAPS proves about YoutubeItem, for any number of executors,       *)
(* sessions, chunks, versions, edits and crashes.                          *)
(***************************************************************************)
EXTENDS YoutubeRefinement, FiniteSetTheorems, TLAPS

Constants == UploadConstants /\ ItemConstants

(* The copy of a row is typed, and has the row's fields. *)
LEMMA Copied ==
  ASSUME NEW row \in Row
  PROVE  /\ Copy(row) \in Mine
         /\ Copy(row).session = row.session /\ Copy(row).video = row.video
         /\ Copy(row).unknown = row.unknown
  BY DEF Copy, Row, Mine, Settings

(* Writing the settings back keeps the row's type and touches nothing else. *)
LEMMA Written ==
  ASSUME NEW row \in Row, NEW mine \in Mine
  PROVE  /\ WithSettings(row, mine) \in Row
         /\ \A f \in {"status", "version", "date", "session", "video", "rev", "uri", "approved"} :
              WithSettings(row, mine)[f] = row[f]
         /\ WithSettings(row, mine).unknown = mine.unknown
         /\ WithSettings(row, mine).cover = mine.cover
  BY DEF WithSettings, Row, Mine, Settings

-----------------------------------------------------------------------------
(* Types: an executor's position, its context, YouTube's sessions.          *)

PcTyped == pc \in [Workers -> Steps]
CtxTyped == ctx \in [Workers -> Context]
GoogleTyped == google \in [Sessions -> UploadState]
Addressed == \A w \in Workers : pc[w] \in Transfer => ctx[w].mine.session # None

\* No other executor moves.
Stand(w) == \A v \in Workers : v # w => pc'[v] = pc[v] /\ ctx'[v] = ctx[v]

LEMMA RowType == \A status \in Statuses, media \in BOOLEAN : NewItem(status, media) \in Row
  BY UploadConstants, ItemConstants DEF NewItem, Row

LEMMA IdleType == IdleCtx \in Context
  <1>1. Blank \in Row
    BY RowType DEF Blank, Statuses
  <1>2. Copy(Blank) \in Mine
    BY <1>1, Copied
  <1> QED
    BY <1>2, UploadConstants, ItemConstants DEF IdleCtx, Context, Statuses

LEMMA GotoType ==
  ASSUME PcTyped, NEW w \in Workers, NEW step \in Steps, Goto(w, step)
  PROVE  PcTyped' /\ pc'[w] = step /\ (UNCHANGED ctx => Stand(w))
  BY DEF PcTyped, Goto, Stand

LEMMA ContextType ==
  ASSUME CtxTyped, NEW w \in Workers, NEW c \in Context, ctx' = [ctx EXCEPT ![w] = c]
  PROVE  CtxTyped' /\ ctx'[w] = c /\ \A v \in Workers : v # w => ctx'[v] = ctx[v]
  BY DEF CtxTyped

LEMMA TellType ==
  ASSUME PcTyped, CtxTyped, NEW w \in Workers, NEW c \in Context, NEW step \in Steps,
         Tell(w, c, step)
  PROVE  PcTyped' /\ CtxTyped' /\ Stand(w) /\ pc'[w] = step /\ ctx'[w] = c
  BY DEF PcTyped, CtxTyped, Tell, Goto, Stand

LEMMA AfterType ==
  ASSUME NEW c \in Context, NEW error \in {"error", "ambiguous", "changed"}
  PROVE  /\ After(c) \in Context /\ [After(c) EXCEPT !.error = error] \in Context
         /\ After(c).mine = c.mine /\ [After(c) EXCEPT !.error = error].mine = c.mine
         /\ After(c).version = c.version /\ [After(c) EXCEPT !.error = error].version = c.version
         /\ [After(c) EXCEPT !.error = error].error = error
  <1>1. 0 \in 0 .. Chunks /\ 0 \in 0 .. MaxRecoveries
    BY UploadConstants
  <1>2. After(c) \in Context /\ After(c).mine = c.mine /\ After(c).version = c.version
    BY <1>1 DEF After, Context
  <1>3. ASSUME NEW d \in Context
        PROVE  /\ [d EXCEPT !.error = error] \in Context
               /\ [d EXCEPT !.error = error].mine = d.mine
               /\ [d EXCEPT !.error = error].version = d.version
               /\ [d EXCEPT !.error = error].error = error
    BY DEF Context
  <1> QED
    BY <1>2, <1>3

LEMMA ThrowType ==
  ASSUME PcTyped, CtxTyped, NEW w \in Workers, NEW error \in {"error", "ambiguous", "changed"},
         Throw(w, error)
  PROVE  /\ PcTyped' /\ CtxTyped' /\ Stand(w) /\ pc'[w] = "fail"
         /\ ctx'[w].mine = ctx[w].mine /\ ctx'[w].version = ctx[w].version /\ ctx'[w].error = error
  <1> DEFINE c == [After(ctx[w]) EXCEPT !.error = error]
  <1>1. c \in Context /\ c.mine = ctx[w].mine /\ c.version = ctx[w].version /\ c.error = error
    BY AfterType DEF CtxTyped
  <1>2. pc' = [pc EXCEPT ![w] = "fail"] /\ ctx' = [ctx EXCEPT ![w] = c]
    BY DEF Throw
  <1> QED
    BY <1>1, <1>2 DEF PcTyped, CtxTyped, Stand, Steps, Publishing

LEMMA EndType ==
  ASSUME PcTyped, CtxTyped, NEW w \in Workers, End(w)
  PROVE  PcTyped' /\ CtxTyped' /\ Stand(w) /\ pc'[w] = "finish" /\ ctx'[w] = IdleCtx
  BY IdleType DEF PcTyped, CtxTyped, End, Steps, Stand

LEMMA MineType ==
  ASSUME NEW c \in Context, NEW mine \in Mine
  PROVE  /\ [c EXCEPT !.mine = mine] \in Context
         /\ [c EXCEPT !.mine = mine].mine = mine
  BY DEF Context

LEMMA RecoverType ==
  ASSUME PcTyped, CtxTyped, NEW w \in Workers, NEW c \in Context, Recover(w, c)
  PROVE  /\ PcTyped' /\ CtxTyped' /\ Stand(w) /\ pc'[w] \in {"put", "fail"}
         /\ ctx'[w].mine = c.mine /\ ctx'[w].version = c.version
         /\ pc'[w] = "fail" => ctx'[w].error = "error"
  <1>1. CASE c.recoveries >= MaxRecoveries
    <2> DEFINE d == [After(c) EXCEPT !.error = "error"]
    <2>1. d \in Context /\ d.mine = c.mine /\ d.version = c.version /\ d.error = "error"
      BY AfterType
    <2>2. Tell(w, d, "fail")
      BY <1>1 DEF Recover
    <2> HIDE DEF d
    <2> QED
      BY <2>1, <2>2, TellType DEF Steps, Publishing
  <1>2. CASE ~(c.recoveries >= MaxRecoveries)
    <2>1. c.recoveries + 1 \in 0 .. MaxRecoveries
      BY <1>2, UploadConstants DEF Context
    <2> DEFINE d == [c EXCEPT !.recoveries = @ + 1, !.probe = TRUE]
    <2>2. d \in Context /\ d.mine = c.mine /\ d.version = c.version /\ d.error = c.error
      BY <2>1 DEF Context
    <2> HIDE DEF d
    <2> QED
      BY <1>2, <2>2, TellType DEF Recover, Steps, Publishing, d
  <1> QED
    BY <1>1, <1>2

LEMMA SessionType ==
  ASSUME GoogleTyped, NEW s, NEW g \in UploadState, google' = [google EXCEPT ![s] = g]
  PROVE  GoogleTyped'
  BY DEF GoogleTyped

(* What a PUT may leave behind is typed. Bytes arrive only with a chunk. *)
LEMMA ServedType ==
  ASSUME TypeOK, NEW w \in Workers, ctx[w].mine.session \in Sessions, NEW g \in Served(w)
  PROVE  /\ g \in UploadState /\ g.rev = google[ctx[w].mine.session].rev
         /\ g.uri = google[ctx[w].mine.session].uri
  <1> DEFINE h == google[ctx[w].mine.session]
             c == ctx[w]
  <1>1. h \in UploadState /\ c \in Context /\ source \in Versions
    BY DEF TypeOK
  <1>2. ASSUME NEW k \in UploadState, NEW v \in Finished(k)
        PROVE  v \in UploadState /\ v.rev = k.rev /\ v.uri = k.uri
    BY <1>2 DEF Finished, UploadState
  <1>3. ASSUME NEW k \in Stored(h, c)
        PROVE  k \in UploadState /\ k.rev = h.rev /\ k.uri = h.uri
    <2>1. CASE ~Querying(c) /\ c.offset = h.received
      <3>1. h.received + 1 \in 0 .. Chunks /\ h.bytes \cup {source} \in SUBSET Versions
        BY <1>1, <2>1, UploadConstants DEF Querying, UploadState, Context
      <3> HIDE DEF h, c
      <3>2. [h EXCEPT !.received = @ + 1, !.bytes = @ \cup {source}] \in UploadState
        BY <1>1, <3>1 DEF UploadState
      <3>3. /\ [h EXCEPT !.received = @ + 1, !.bytes = @ \cup {source}].rev = h.rev
            /\ [h EXCEPT !.received = @ + 1, !.bytes = @ \cup {source}].uri = h.uri
        BY <1>1 DEF UploadState
      <3> QED
        BY <1>1, <1>3, <2>1, <3>2, <3>3 DEF Stored
    <2>2. CASE ~(~Querying(c) /\ c.offset = h.received)
      BY <1>1, <1>3, <2>2 DEF Stored
    <2> QED
      BY <2>1, <2>2
  <1> QED
    BY <1>1, <1>2, <1>3 DEF Served

LEMMA CoreTypes ==
  ASSUME TypeOK, item' \in Row, GoogleTyped', PcTyped', CtxTyped',
         NEW w \in Workers, Stand(w), pc'[w] \in Transfer => ctx'[w].mine.session # None,
         UNCHANGED <<collection, source, unanswered, jobs, calls, agreed, preparer, overlaps, faults>>
  PROVE  TypeOK'
  <1>1. Addressed'
    BY DEF TypeOK, Stand, Addressed, PcTyped, CtxTyped
  <1> QED
    BY <1>1 DEF TypeOK, GoogleTyped, PcTyped, CtxTyped, Addressed

(* A step of the upload keeps the types. *)
LEMMA UploadType ==
  ASSUME TypeOK, NEW w \in Workers, UploadStep(w),
         UNCHANGED <<jobs, people, preparer, overlaps, faults>>
  PROVE  TypeOK' /\ Stand(w) /\ pc'[w] \in Publishing
  <1> DEFINE c == ctx[w]
             mine == ctx[w].mine
  <1>0. /\ c \in Context /\ mine \in Mine /\ item \in Row
        /\ PcTyped /\ CtxTyped /\ GoogleTyped
        /\ source \in 0 .. MaxSource /\ None \notin Sessions
    BY UploadConstants DEF TypeOK, Context, PcTyped, CtxTyped, GoogleTyped, Versions
  <1>00. /\ {"post", "put", "saveMoved", "saveSession", "saveVideo", "fail", "processing"} \subseteq Steps
         /\ {"post", "put", "saveMoved", "saveSession", "saveVideo", "fail", "processing"} \subseteq Publishing
         /\ {"post", "fail", "processing"} \cap Transfer = {}
    BY DEF Steps, Publishing, Transfer
  <1>s. pc[w] \in Transfer => mine.session \in Sessions
    BY <1>0 DEF TypeOK, Mine
  <1>e. UNCHANGED <<jobs, calls, agreed, preparer, overlaps, faults>>
    BY DEF people
  <1>1. CASE CheckSource(w)
    <2> DEFINE next == [mine EXCEPT !.remote = IF collection THEN source ELSE @,
                                    !.media = IF collection THEN FALSE ELSE @]
    <2>1. next \in Mine /\ next.session = mine.session
      BY <1>0 DEF Mine
    <2>2. CASE UNCHANGED item /\ \E e \in {"error", "changed"} : Throw(w, e)
      <3>1. PICK e \in {"error", "changed"} : Throw(w, e)
        BY <2>2
      <3>2. PcTyped' /\ CtxTyped' /\ Stand(w) /\ pc'[w] = "fail"
        BY <1>0, <3>1, ThrowType
      <3> QED
        BY <1>0, <1>00, <1>1, <1>e, <2>2, <3>2, CoreTypes DEF CheckSource, GoogleTyped
    <2>3. CASE /\ item' = WithSettings(item, next)
               /\ ctx' = [ctx EXCEPT ![w].mine = next, ![w].probe = mine.session # None]
               /\ Goto(w, IF mine.session = None THEN "post" ELSE "put")
      <3> DEFINE d == [c EXCEPT !.mine = next, !.probe = mine.session # None]
      <3>1. d \in Context /\ d.mine = next
        BY <1>0, <2>1 DEF Context
      <3>2. ctx' = [ctx EXCEPT ![w] = d]
        BY <2>3, <1>0 DEF CtxTyped
      <3> HIDE DEF d
      <3>3. Tell(w, d, IF mine.session = None THEN "post" ELSE "put")
        BY <2>3, <3>2 DEF Tell
      <3>4. /\ PcTyped' /\ CtxTyped' /\ Stand(w) /\ ctx'[w] = d
            /\ pc'[w] = IF mine.session = None THEN "post" ELSE "put"
        BY <1>0, <1>00, <3>1, <3>3, TellType
      <3>5. item' \in Row
        BY <1>0, <2>1, <2>3, Written
      <3>6. pc'[w] \in Transfer => ctx'[w].mine.session # None
        BY <3>4, <3>1, <2>1, <1>00
      <3> QED
        BY <1>0, <1>00, <1>1, <1>e, <3>4, <3>5, <3>6, CoreTypes DEF CheckSource, GoogleTyped
    <2> QED
      BY <1>1, <2>2, <2>3 DEF CheckSource
  <1>2. CASE PostSession(w)
    <2>1. CASE \E e \in {"error", "ambiguous"} : Throw(w, e) /\ UNCHANGED google
      <3>1. PcTyped' /\ CtxTyped' /\ Stand(w) /\ pc'[w] = "fail" /\ UNCHANGED google
        BY <1>0, <2>1, ThrowType
      <3> QED
        BY <1>0, <1>00, <1>2, <1>e, <3>1, CoreTypes DEF PostSession, GoogleTyped
    <2>2. ASSUME NEW s \in Sessions,
                 google' = [google EXCEPT ![s] = [Unopened EXCEPT !.rev = mine.rev]],
                 ctx' = [ctx EXCEPT ![w].mine = [@ EXCEPT !.session = s, !.uri = 0]],
                 Goto(w, "saveSession")
          PROVE  TypeOK' /\ Stand(w) /\ pc'[w] \in Publishing
      <3> DEFINE opened == [mine EXCEPT !.session = s, !.uri = 0]
                 g == [Unopened EXCEPT !.rev = mine.rev]
      <3>1. 0 \in 0 .. MaxRotations /\ 0 \in 0 .. Chunks /\ mine.rev \in 0 .. MaxRevision
        BY <1>0, UploadConstants, ItemConstants DEF Mine
      <3>2. g \in UploadState
        BY <3>1 DEF Unopened, UploadState
      <3>3. opened \in Mine /\ opened.session = s
        BY <1>0, <3>1 DEF Mine
      <3>4. ctx' = [ctx EXCEPT ![w] = [c EXCEPT !.mine = opened]]
        BY <2>2, <1>0 DEF CtxTyped
      <3> HIDE DEF opened, g
      <3>5. [c EXCEPT !.mine = opened] \in Context /\ [c EXCEPT !.mine = opened].mine = opened
        BY <1>0, <3>3, MineType
      <3>6. GoogleTyped'
        BY <1>0, <2>2, <3>2, SessionType DEF g
      <3>7. Tell(w, [c EXCEPT !.mine = opened], "saveSession")
        BY <2>2, <3>4 DEF Tell
      <3>8. PcTyped' /\ CtxTyped' /\ Stand(w) /\ pc'[w] = "saveSession" /\ ctx'[w].mine = opened
        BY <1>0, <1>00, <3>5, <3>7, TellType
      <3>9. ctx'[w].mine.session # None
        BY <3>8, <3>3, <1>0
      <3> QED
        BY <1>0, <1>00, <1>2, <1>e, <3>6, <3>8, <3>9, CoreTypes DEF PostSession
    <2> QED
      BY <1>2, <2>1, <2>2 DEF PostSession
  <1>3. CASE SaveSession(w)
    <2>1. item' \in Row
      BY <1>0, <1>3 DEF SaveSession, Row, Mine
    <2>2. PcTyped' /\ Stand(w) /\ pc'[w] = "put" /\ UNCHANGED ctx
      BY <1>0, <1>00, <1>3, GotoType DEF SaveSession
    <2>3. mine.session # None
      BY <1>0, <1>3, <1>s DEF SaveSession, Transfer
    <2> QED
      BY <1>0, <1>00, <1>3, <1>e, <2>1, <2>2, <2>3, CoreTypes DEF SaveSession, GoogleTyped, CtxTyped
  <1>4. CASE PutBlocked(w) \/ PutRefused(w)
    <2>1. /\ \E e \in {"error", "changed"} : Throw(w, e)
          /\ UNCHANGED <<collection, unanswered, item, google, source>>
      BY <1>4 DEF PutBlocked, PutRefused
    <2>2. PcTyped' /\ CtxTyped' /\ Stand(w) /\ pc'[w] = "fail"
      BY <1>0, <2>1, ThrowType
    <2> QED
      BY <1>0, <1>00, <1>e, <2>1, <2>2, CoreTypes DEF GoogleTyped
  <1>5. CASE PutLost(w)
    <2>1. mine.session \in Sessions
      BY <1>5, <1>s DEF PutLost, Transfer
    <2>2. GoogleTyped'
      BY <1>0, <1>5, <2>1, ServedType, SessionType DEF PutLost
    <2>3. PcTyped' /\ CtxTyped' /\ Stand(w) /\ pc'[w] \in {"put", "fail"} /\ ctx'[w].mine = mine
      BY <1>0, <1>5, RecoverType DEF PutLost
    <2> QED
      BY <1>0, <1>00, <1>5, <1>e, <2>1, <2>2, <2>3, CoreTypes DEF PutLost
  <1>6. CASE PutContinue(w)
    <2> DEFINE s == mine.session
    <2>1. s \in Sessions /\ mine.uri = google[s].uri
      BY <1>6, <1>s DEF PutContinue, Transfer
    <2>2. PICK g \in Served(w), moved \in {0, 1} :
            LET ack == g.received
                d == [c EXCEPT !.mine.uri = @ + moved, !.offset = ack, !.probe = FALSE]
                stays == IF Querying(c) THEN ack = Chunks ELSE ack = c.offset
            IN /\ mine.uri + moved <= MaxRotations
               /\ \/ google' = [google EXCEPT ![s] = g] /\ Throw(w, "error") /\ UNCHANGED item
                  \/ /\ google' = [google EXCEPT ![s] = [g EXCEPT !.uri = @ + moved]]
                     /\ \/ stays /\ Recover(w, d)
                        \/ Tell(w, d, "put")
                        \/ Tell(w, [d EXCEPT !.stays = stays], "saveMoved")
                     /\ item' = WithSettings(item, mine)
      BY <1>6 DEF PutContinue
    <2>3. g \in UploadState /\ g.uri = mine.uri
      BY <2>1, <2>2, ServedType
    <2> DEFINE m == [mine EXCEPT !.uri = @ + moved]
               e == [c EXCEPT !.mine = m]
               d == [c EXCEPT !.mine.uri = @ + moved, !.offset = g.received, !.probe = FALSE]
               stays == IF Querying(c) THEN g.received = Chunks ELSE g.received = c.offset
               h == [g EXCEPT !.uri = @ + moved]
    <2>4. mine.uri + moved \in 0 .. MaxRotations
      BY <1>0, <2>2, UploadConstants DEF Mine
    <2>5. m \in Mine /\ m.session = s
      BY <1>0, <2>4 DEF Mine
    <2>6. h \in UploadState
      BY <2>3, <2>4 DEF UploadState
    <2> HIDE DEF m
    <2>7. e \in Context /\ e.mine = m
      BY <1>0, <2>5, MineType
    <2>8. d = [e EXCEPT !.offset = g.received, !.probe = FALSE]
      BY <1>0 DEF Context, Mine, m
    <2>9. g.received \in 0 .. Chunks /\ stays \in BOOLEAN
      BY <2>3 DEF UploadState
    <2> HIDE DEF e, d, stays, h
    <2>10. d \in Context /\ d.mine = m
      BY <2>7, <2>8, <2>9 DEF Context
    <2>11. [d EXCEPT !.stays = stays] \in Context /\ [d EXCEPT !.stays = stays].mine = m
      BY <2>9, <2>10 DEF Context
    <2>12. CASE google' = [google EXCEPT ![s] = g] /\ Throw(w, "error") /\ UNCHANGED item
      <3>1. PcTyped' /\ CtxTyped' /\ Stand(w) /\ pc'[w] = "fail"
        BY <1>0, <2>12, ThrowType
      <3>2. GoogleTyped'
        BY <1>0, <2>3, <2>12, SessionType
      <3> QED
        BY <1>0, <1>00, <1>6, <1>e, <2>12, <3>1, <3>2, CoreTypes DEF PutContinue
    <2>13. CASE /\ google' = [google EXCEPT ![s] = h]
                /\ item' = WithSettings(item, mine)
                /\ \/ Recover(w, d) \/ Tell(w, d, "put")
                   \/ Tell(w, [d EXCEPT !.stays = stays], "saveMoved")
      <3>1. /\ PcTyped' /\ CtxTyped' /\ Stand(w)
            /\ pc'[w] \in {"put", "fail", "saveMoved"} /\ ctx'[w].mine = m
        <4>1. CASE Recover(w, d)
          BY <1>0, <2>10, <4>1, RecoverType
        <4>2. CASE Tell(w, d, "put")
          BY <1>0, <1>00, <2>10, <4>2, TellType
        <4>3. CASE Tell(w, [d EXCEPT !.stays = stays], "saveMoved")
          BY <1>0, <1>00, <2>11, <4>3, TellType
        <4> QED
          BY <2>13, <4>1, <4>2, <4>3
      <3>2. GoogleTyped'
        BY <1>0, <2>6, <2>13, SessionType
      <3>3. item' \in Row
        BY <1>0, <2>13, Written
      <3>4. ctx'[w].mine.session # None
        BY <3>1, <2>5, <2>1, <1>0
      <3> QED
        BY <1>0, <1>00, <1>6, <1>e, <3>1, <3>2, <3>3, <3>4, CoreTypes DEF PutContinue
    <2> QED
      BY <2>2, <2>12, <2>13 DEF d, stays, h
  <1>7. CASE SaveMoved(w)
    <2> DEFINE d == [c EXCEPT !.stays = FALSE]
    <2>1. d \in Context /\ d.mine = mine
      BY <1>0 DEF Context
    <2> HIDE DEF d
    <2>2. PcTyped' /\ CtxTyped' /\ Stand(w) /\ pc'[w] \in {"put", "fail"} /\ ctx'[w].mine = mine
      <3>1. CASE Recover(w, d)
        BY <1>0, <2>1, <3>1, RecoverType
      <3>2. CASE Tell(w, d, "put")
        BY <1>0, <1>00, <2>1, <3>2, TellType
      <3> QED
        BY <1>7, <3>1, <3>2 DEF SaveMoved, d
    <2>3. item' \in Row
      BY <1>0, <1>7 DEF SaveMoved, Row, Mine
    <2>4. mine.session # None
      BY <1>0, <1>7, <1>s DEF SaveMoved, Transfer
    <2> QED
      BY <1>0, <1>00, <1>7, <1>e, <2>2, <2>3, <2>4, CoreTypes DEF SaveMoved, GoogleTyped
  <1>8. CASE PutDone(w)
    <2>1. mine.session \in Sessions
      BY <1>8, <1>s DEF PutDone, Transfer
    <2>2. GoogleTyped'
      BY <1>0, <1>8, <2>1, ServedType, SessionType DEF PutDone
    <2> DEFINE m == [mine EXCEPT !.video = mine.session]
               d == [After(c) EXCEPT !.mine.video = mine.session]
    <2>3. m \in Mine /\ m.session = mine.session
      BY <1>0, <2>1 DEF Mine
    <2>4. After(c) \in Context /\ After(c).mine = mine
      BY <1>0, AfterType
    <2>5. d = [After(c) EXCEPT !.mine = m]
      BY <2>4 DEF Context
    <2> HIDE DEF m, d
    <2>6. d \in Context /\ d.mine = m
      BY <2>3, <2>4, <2>5, MineType
    <2>7. /\ PcTyped' /\ CtxTyped' /\ Stand(w)
          /\ pc'[w] \in {"saveVideo", "fail"} /\ ctx'[w].mine \in {mine, m}
      <3>1. CASE Tell(w, d, "saveVideo")
        BY <1>0, <1>00, <2>6, <3>1, TellType
      <3>2. CASE Throw(w, "error")
        BY <1>0, <3>2, ThrowType
      <3> QED
        BY <1>8, <3>1, <3>2 DEF PutDone, d
    <2>8. ctx'[w].mine.session # None
      BY <2>7, <2>3, <2>1, <1>0
    <2> QED
      BY <1>0, <1>00, <1>8, <1>e, <2>2, <2>7, <2>8, CoreTypes DEF PutDone
  <1>9. CASE SaveVideo(w)
    <2>1. WithSettings(item, mine) \in Row
      BY <1>0, Written
    <2>2. item' \in Row
      BY <1>0, <1>9, <2>1 DEF SaveVideo, Row, Mine
    <2>3. PcTyped' /\ Stand(w) /\ pc'[w] = "processing" /\ UNCHANGED ctx
      BY <1>0, <1>00, <1>9, GotoType DEF SaveVideo
    <2> QED
      BY <1>0, <1>00, <1>9, <1>e, <2>2, <2>3, CoreTypes DEF SaveVideo, GoogleTyped, CtxTyped
  <1> QED
    BY <1>1, <1>2, <1>3, <1>4, <1>5, <1>6, <1>7, <1>8, <1>9 DEF UploadStep

-----------------------------------------------------------------------------
(* People: what all of their actions have in common.                        *)

\* A route finds the item outside a transfer and leaves it there; the date
\* moves only with the version.
Moved ==
  /\ ~Sending /\ item'.status \notin {"uploading", "processing", "preparing"}
  /\ item'.status = "published" => item.status = "published"
  /\ \A f \in {"session", "video", "unknown", "cover"} : item'[f] = item[f]
  /\ item'.version \in {item.version, item.version + 1}
  /\ item'.version = item.version => item'.date = item.date

\* YouTube keeps every video where it is.
Kept == \A s \in Sessions : \A f \in {"video", "listed", "bytes"} : google'[s][f] = google[s][f]

UsersEffect ==
  /\ Moved /\ Kept
  /\ \A c \in calls' : c \in calls \/ c.version = item'.version

(* A change of the calendar. *)
LEMMA CommitEffect ==
  ASSUME TypeOK, NEW row \in Row, row.version = item.version,
         row.status \notin {"uploading", "processing", "preparing", "published"},
         \A f \in {"session", "video", "unknown", "cover"} : row[f] = item[f],
         NEW kind \in {"plain", "dated", "drop", "prepare", "datedPrepare"},
         Movable \/ item.status \in {"failed", "waiting_approval"}, Commit(row, kind)
  PROVE  /\ item' \in Row /\ calls' \subseteq Calls /\ GoogleTyped' /\ UsersEffect
  <1>1. item.version + 1 \in 0 .. MaxVersion /\ item.version \in Nat
    BY ItemConstants DEF TypeOK, Row, Commit
  <1>2. item' = [row EXCEPT !.version = @ + 1]
    BY DEF Commit
  <1>3. item' \in Row /\ item'.version = item.version + 1 /\ item'.status = row.status
    BY <1>1, <1>2 DEF Row
  <1>4. \A f \in {"session", "video", "unknown", "cover"} : item'[f] = item[f]
    BY <1>2 DEF Row
  <1>5. calls' = calls \cup {[kind |-> kind, version |-> item.version + 1]} /\ UNCHANGED google
    BY DEF Commit, Call, Internal, youtube
  <1>6. calls' \subseteq Calls /\ GoogleTyped'
    BY <1>1, <1>5 DEF TypeOK, Calls, GoogleTyped
  <1>7. ~Sending
    BY DEF Movable, Sending
  <1>8. Moved
    BY <1>1, <1>3, <1>4, <1>7 DEF Moved
  <1> QED
    BY <1>3, <1>5, <1>6, <1>8 DEF UsersEffect, Kept

LEMMA DispatchedType ==
  ASSUME NEW row \in Row
  PROVE  /\ Dispatched(row) \in Row
         /\ \A f \in {"version", "session", "video", "unknown", "cover", "date"} :
              Dispatched(row)[f] = row[f]
         /\ Dispatched(row).status \in {"waiting_approval", "approved", "queued"}
         /\ Task(row) \in {"dated", "drop"}
  BY DEF Dispatched, Task, Row, Statuses

(* Every route keeps the types. *)
LEMMA UsersType ==
  ASSUME TypeOK, Users
  PROVE  TypeOK' /\ UsersEffect /\ UNCHANGED <<collection, source, unanswered, pc, ctx, jobs, preparer>>
  <1> DEFINE fields == {"session", "video", "unknown", "cover"}
             kinds == {"plain", "dated", "drop", "prepare", "datedPrepare"}
             Agreed == agreed' \in [rev : 0 .. MaxRevision, remote : 0 .. MaxSource]
  <1>0. /\ item \in Row /\ GoogleTyped /\ calls \subseteq Calls /\ source \in Versions
        /\ agreed \in [rev : 0 .. MaxRevision, remote : 0 .. MaxSource]
    BY DEF TypeOK, GoogleTyped
  <1>c. /\ item.version \in 0 .. MaxVersion /\ 0 \in 0 .. MaxVersion /\ MaxVersion \in Nat
        /\ item.rev \in 1 .. MaxRevision /\ MaxRevision \in Nat
        /\ item.remote \in 0 .. MaxSource /\ 0 \in 0 .. MaxSource
    BY <1>0, UploadConstants, ItemConstants DEF Row
  <1>a. ASSUME NEW row \in Row, Agree(row) PROVE Agreed
    BY <1>a DEF Agree, Row
  <1>i. ASSUME item' \in Row, Moved, UNCHANGED people, Internal
        PROVE  TypeOK' /\ UsersEffect /\ UNCHANGED <<collection, source, unanswered, pc, ctx, jobs, preparer>>
    BY <1>i DEF people, Internal, youtube, TypeOK, UsersEffect, Kept
  <1>1. CASE PatchMedia
    <2>1. item' = [item EXCEPT !.media = TRUE, !.status = "waiting_approval"]
      BY <1>1 DEF PatchMedia
    <2>2. item' \in Row /\ item'.status = "waiting_approval"
      BY <1>0, <2>1 DEF Row, Statuses
    <2>3. Moved
      BY <1>0, <1>1, <2>1, <2>2 DEF PatchMedia, Row, Moved, Sending
    <2> QED
      BY <1>1, <1>i, <2>2, <2>3 DEF PatchMedia
  <1>11. CASE Cancel
    <2>1. item' = [item EXCEPT !.status = "cancelled"]
      BY <1>11 DEF Cancel
    <2>2. item' \in Row /\ item'.status = "cancelled"
      BY <1>0, <2>1 DEF Row, Statuses
    <2>3. Moved
      BY <1>0, <1>11, <2>1, <2>2 DEF Cancel, Row, Moved, Sending
    <2> QED
      BY <1>11, <1>i, <2>2, <2>3 DEF Cancel
  <1>12. CASE RetryFetch
    <2>1. item' = [item EXCEPT !.status = "waiting_approval", !.media = TRUE] /\ item.status = "failed"
      BY <1>12 DEF RetryFetch, Retriable
    <2>2. item' \in Row /\ item'.status = "waiting_approval"
      BY <1>0, <2>1 DEF Row, Statuses
    <2>3. Moved
      BY <1>0, <2>1, <2>2 DEF Row, Moved, Sending
    <2> QED
      BY <1>12, <1>i, <2>2, <2>3 DEF RetryFetch
  <1>2. CASE Resolve
    <2>0. item.status = "waiting_approval" /\ Internal
      BY <1>2 DEF Resolve
    <2>1. CASE item' = [item EXCEPT !.status = "rejected"] /\ UNCHANGED people
      <3>1. item' \in Row /\ item'.status = "rejected"
        BY <1>0, <2>1 DEF Row, Statuses
      <3>2. Moved
        BY <1>0, <2>0, <2>1, <3>1 DEF Row, Moved, Sending
      <3> QED
        BY <1>i, <2>0, <2>1, <3>1, <3>2
    <2>2. ASSUME NEW rev \in {item.rev, item.rev + 1}, rev <= MaxRevision,
                 item' = [item EXCEPT !.status = "queued", !.approved = TRUE, !.rev = rev],
                 Call("plain", item.version), Agree(item')
          PROVE  TypeOK' /\ UsersEffect /\ UNCHANGED <<collection, source, unanswered, pc, ctx, jobs, preparer>>
      <3>1. rev \in 1 .. MaxRevision
        BY <1>c, <2>2
      <3>2. item' \in Row /\ item'.version = item.version /\ item'.status = "queued"
        BY <1>0, <2>2, <3>1 DEF Row, Statuses
      <3>3. Moved
        BY <1>0, <2>0, <2>2, <3>2 DEF Row, Moved, Sending
      <3>4. Agreed
        BY <1>a, <2>2, <3>2
      <3>5. calls' = calls \cup {[kind |-> "plain", version |-> item.version]}
        BY <2>2 DEF Call
      <3>6. [kind |-> "plain", version |-> item.version] \in Calls
        BY <1>c DEF Calls
      <3> QED
        BY <1>0, <2>0, <3>2, <3>3, <3>4, <3>5, <3>6 DEF Internal, youtube, TypeOK, UsersEffect, Kept
    <2> QED
      BY <1>2, <2>1, <2>2 DEF Resolve
  <1>3. CASE RetryPrepare
    <2>1. item.version + 1 \in 0 .. MaxVersion
      BY <1>c, <1>3 DEF RetryPrepare
    <2>2. item' = [item EXCEPT !.status = "waiting_video", !.version = @ + 1, !.approved = FALSE,
                               !.changed = FALSE]
      BY <1>3 DEF RetryPrepare
    <2>3. item' \in Row /\ Moved /\ item'.version = item.version + 1
      <3>1. item' \in Row /\ item'.version = item.version + 1 /\ item'.status = "waiting_video"
        BY <1>0, <2>1, <2>2 DEF Row, Statuses
      <3>2. \A f \in {"session", "video", "unknown", "cover"} : item'[f] = item[f]
        BY <1>0, <2>2 DEF Row
      <3>3. item.status = "failed" /\ item'.version # item.version
        BY <1>c, <1>3, <3>1 DEF RetryPrepare, Retriable
      <3> QED
        BY <3>1, <3>2, <3>3 DEF Moved, Sending
    <2>4. /\ calls' = calls \cup {[kind |-> "prepare", version |-> item.version + 1]}
          /\ Internal /\ UNCHANGED agreed
      BY <1>3 DEF RetryPrepare, Call
    <2>5. [kind |-> "prepare", version |-> item.version + 1] \in Calls
      BY <2>1 DEF Calls
    <2> QED
      BY <1>0, <2>3, <2>4, <2>5 DEF Internal, youtube, TypeOK, UsersEffect, Kept
  <1>4. CASE RetrySend
    <2>1. /\ item' = [item EXCEPT !.status = "queued"] /\ item.status = "failed"
          /\ calls' = calls \cup {[kind |-> "plain", version |-> item.version]}
          /\ Internal /\ UNCHANGED agreed
      BY <1>4 DEF RetrySend, Retriable, Call
    <2>2. item' \in Row /\ Moved /\ item'.version = item.version
      BY <1>0, <1>c, <2>1 DEF Row, Statuses, Moved, Sending
    <2>3. [kind |-> "plain", version |-> item.version] \in Calls
      BY <1>c DEF Calls
    <2> QED
      BY <1>0, <2>1, <2>2, <2>3 DEF Internal, youtube, TypeOK, UsersEffect, Kept
  <1>k. ASSUME NEW row \in Row, NEW kind \in kinds, Commit(row, kind), Agreed,
               item' \in Row, calls' \subseteq Calls, GoogleTyped', UsersEffect
        PROVE  TypeOK' /\ UNCHANGED <<collection, source, unanswered, pc, ctx, jobs, preparer>>
    BY <1>k DEF Commit, Internal, youtube, TypeOK, GoogleTyped
  <1>5. CASE Schedule
    <2>1. PICK date \in {"none", "future"} :
            LET row == [item EXCEPT !.date = date] IN Commit(Dispatched(row), Task(row))
      BY <1>5 DEF Schedule
    <2> DEFINE row == [item EXCEPT !.date = date]
    <2>2. row \in Row /\ row.version = item.version /\ \A f \in fields : row[f] = item[f]
      BY <1>0 DEF Row
    <2> HIDE DEF row
    <2>3. Commit(Dispatched(row), Task(row)) /\ Movable /\ UNCHANGED agreed
      BY <1>5, <2>1 DEF Schedule, row
    <2>4. item' \in Row /\ calls' \subseteq Calls /\ GoogleTyped' /\ UsersEffect
      BY <2>2, <2>3, DispatchedType, CommitEffect
    <2> QED
      BY <1>0, <1>k, <2>2, <2>3, <2>4, DispatchedType
  <1>6. CASE Edit
    <2> DEFINE row == [item EXCEPT !.rev = @ + 1, !.approved = FALSE]
               stay == [row EXCEPT !.status = "waiting_approval"]
               again(remote) == [row EXCEPT !.status = "waiting_video", !.remote = remote,
                                            !.media = @ /\ remote # 0]
    <2>1. Movable /\ UNCHANGED agreed /\ item.rev + 1 \in 1 .. MaxRevision
      BY <1>6, <1>c DEF Edit
    <2>2. row \in Row /\ row.version = item.version /\ \A f \in fields : row[f] = item[f]
      BY <1>0, <2>1 DEF Row
    <2>3. \/ Commit(stay, "drop")
          \/ \E remote \in {0, item.remote} : Commit(again(remote), "datedPrepare")
      BY <1>6 DEF Edit
    <2> HIDE DEF row
    <2>4. CASE Commit(stay, "drop")
      <3>1. /\ stay \in Row /\ stay.version = item.version /\ stay.status = "waiting_approval"
            /\ \A f \in fields : stay[f] = item[f]
        BY <2>2 DEF Row, Statuses
      <3> HIDE DEF stay
      <3> QED
        BY <1>0, <1>k, <2>1, <2>4, <3>1, CommitEffect
    <2>5. ASSUME NEW remote \in {0, item.remote}, Commit(again(remote), "datedPrepare")
          PROVE  TypeOK' /\ UsersEffect /\ UNCHANGED <<collection, source, unanswered, pc, ctx, jobs, preparer>>
      <3> DEFINE next == again(remote)
      <3>1. /\ next \in Row /\ next.version = item.version /\ next.status = "waiting_video"
            /\ \A f \in fields : next[f] = item[f]
        <4> DEFINE media == row.media /\ remote # 0
        <4>1. remote \in 0 .. MaxSource /\ media \in BOOLEAN
          BY <1>c
        <4>2. next = [row EXCEPT !.status = "waiting_video", !.remote = remote, !.media = media]
          BY <2>2 DEF Row
        <4> HIDE DEF next, media
        <4> QED
          BY <2>2, <4>1, <4>2 DEF Row, Statuses
      <3>2. Commit(next, "datedPrepare")
        BY <2>5
      <3> HIDE DEF next
      <3> QED
        BY <1>0, <1>k, <2>1, <3>1, <3>2, CommitEffect
    <2> QED
      BY <2>3, <2>4, <2>5
  <1>m. ASSUME NEW row \in Row, row.version = item.version,
               row.status \in {"cancelled", "rejected", "queued"}, \A f \in fields : row[f] = item[f],
               NEW kind \in kinds, Movable \/ item.status \in {"failed", "waiting_approval"},
               Commit(row, kind), UNCHANGED agreed
        PROVE  TypeOK' /\ UsersEffect /\ UNCHANGED <<collection, source, unanswered, pc, ctx, jobs, preparer>>
    <2>1. item' \in Row /\ calls' \subseteq Calls /\ GoogleTyped' /\ UsersEffect
      BY <1>m, CommitEffect
    <2> QED
      BY <1>0, <1>k, <1>m, <2>1
  <1>7. CASE Stop
    <2> DEFINE row == [item EXCEPT !.status = "cancelled"]
    <2>1. /\ row \in Row /\ row.version = item.version /\ row.status = "cancelled"
          /\ \A f \in fields : row[f] = item[f]
      BY <1>0 DEF Row, Statuses
    <2>2. Commit(row, "drop") /\ Movable /\ UNCHANGED agreed
      BY <1>7 DEF Stop
    <2> HIDE DEF row
    <2> QED
      BY <1>m, <2>1, <2>2
  <1>13. CASE CalendarReject
    <2> DEFINE row == [item EXCEPT !.status = "rejected", !.approved = FALSE]
    <2>1. /\ row \in Row /\ row.version = item.version /\ row.status = "rejected"
          /\ \A f \in fields : row[f] = item[f]
      BY <1>0 DEF Row, Statuses
    <2>2. Commit(row, "drop") /\ item.status = "waiting_approval" /\ UNCHANGED agreed
      BY <1>13 DEF CalendarReject
    <2> HIDE DEF row
    <2> QED
      BY <1>m, <2>1, <2>2
  <1>14. CASE CalendarRetry
    <2> DEFINE row == [item EXCEPT !.status = "queued", !.date = IF @ = "none" THEN "due" ELSE @]
    <2>1. /\ row \in Row /\ row.version = item.version /\ row.status = "queued"
          /\ \A f \in fields : row[f] = item[f]
      BY <1>0 DEF Row, Statuses
    <2>2. Commit(row, "dated") /\ item.status = "failed" /\ UNCHANGED agreed
      BY <1>14 DEF CalendarRetry
    <2> HIDE DEF row
    <2> QED
      BY <1>m, <2>1, <2>2
  <1>8. CASE CalendarApprove
    <2> DEFINE row == [item EXCEPT !.approved = TRUE]
    <2>1. row \in Row /\ row.version = item.version /\ \A f \in fields : row[f] = item[f]
      BY <1>0 DEF Row
    <2>2. Commit(Dispatched(row), Task(row)) /\ Agree(row) /\ item.status = "waiting_approval"
      BY <1>8 DEF CalendarApprove
    <2> HIDE DEF row
    <2>3. item' \in Row /\ calls' \subseteq Calls /\ GoogleTyped' /\ UsersEffect
      BY <2>1, <2>2, DispatchedType, CommitEffect
    <2> QED
      BY <1>a, <1>k, <2>1, <2>2, <2>3, DispatchedType
  <1>n. item.date \in {"none", "future", "due"} /\ item.media \in BOOLEAN
    BY <1>0 DEF Row
  <1>9. ASSUME NEW status \in {"waiting_video", "waiting_approval", "cancelled"},
               NEW rev \in 1 .. MaxRevision, NEW date \in {"none", "future", "due"},
               NEW remote \in 0 .. MaxSource, NEW media \in BOOLEAN,
               item' = [item EXCEPT !.status = status, !.version = @ + 1, !.approved = FALSE,
                                    !.rev = rev, !.date = date, !.remote = remote, !.media = media],
               \/ UNCHANGED calls
               \/ calls' = calls \cup {[kind |-> "prepare", version |-> item.version + 1]},
               item.version < MaxVersion, ~Locked, UNCHANGED agreed, Internal
        PROVE  TypeOK' /\ UsersEffect /\ UNCHANGED <<collection, source, unanswered, pc, ctx, jobs, preparer>>
    <2>1. item.version + 1 \in 0 .. MaxVersion
      BY <1>c, <1>9
    <2>2. item' \in Row /\ item'.version = item.version + 1 /\ item'.status = status
      BY <1>0, <1>9, <2>1 DEF Row, Statuses
    <2>3. Moved
      <3>1. \A f \in fields : item'[f] = item[f]
        BY <1>0, <1>9 DEF Row
      <3>2. ~Sending
        BY <1>9 DEF Locked, Sending
      <3> QED
        BY <1>c, <2>2, <3>1, <3>2 DEF Moved
    <2>4. [kind |-> "prepare", version |-> item.version + 1] \in Calls
      BY <2>1 DEF Calls
    <2>5. calls' \subseteq Calls /\ \A c \in calls' : c \in calls \/ c.version = item'.version
      BY <1>0, <1>9, <2>2, <2>4
    <2> QED
      BY <1>0, <1>9, <2>2, <2>3, <2>5 DEF Internal, youtube, TypeOK, UsersEffect, Kept
  <1>15. CASE Import
    <2>1. PICK relinked \in BOOLEAN, date \in {item.date, "none", "future"},
               rev \in {item.rev, item.rev + 1}, status \in {"waiting_video", "waiting_approval"} :
            /\ rev <= MaxRevision
            /\ item' = Imported(relinked, date, rev, status)
            /\ IF status = "waiting_video" THEN Call("prepare", item.version + 1) ELSE UNCHANGED calls
      BY <1>15 DEF Import
    <2> DEFINE remote == IF relinked THEN 0 ELSE item.remote
               media == item.media /\ ~relinked
    <2>2. /\ rev \in 1 .. MaxRevision /\ date \in {"none", "future", "due"}
          /\ remote \in 0 .. MaxSource /\ media \in BOOLEAN
      BY <1>c, <1>n, <2>1
    <2>3. item' = [item EXCEPT !.status = status, !.version = @ + 1, !.approved = FALSE,
                               !.rev = rev, !.date = date, !.remote = remote, !.media = media]
      BY <2>1 DEF Imported
    <2>5. \/ UNCHANGED calls
          \/ calls' = calls \cup {[kind |-> "prepare", version |-> item.version + 1]}
      BY <2>1 DEF Call
    <2>6. status \in {"waiting_video", "waiting_approval"} /\ UNCHANGED agreed /\ Internal
          /\ item.version < MaxVersion /\ ~Locked
      BY <1>15, <2>1 DEF Import
    <2> HIDE DEF remote, media
    <2> QED
      BY <1>9, <2>2, <2>3, <2>5, <2>6, ZenonT(30)
  <1>16. CASE RemoveRow
    <2> DEFINE rev == item.rev
               date == item.date
               remote == item.remote
               media == item.media
    <2>1. item' = [item EXCEPT !.status = "cancelled", !.version = @ + 1, !.approved = FALSE,
                               !.rev = rev, !.date = date, !.remote = remote, !.media = media]
      BY <1>0, <1>16 DEF RemoveRow, Row
    <2>2. /\ rev \in 1 .. MaxRevision /\ date \in {"none", "future", "due"}
          /\ remote \in 0 .. MaxSource /\ media \in BOOLEAN
      BY <1>c, <1>n
    <2>3. item.version < MaxVersion /\ ~Locked /\ UNCHANGED <<calls, agreed>> /\ Internal
      BY <1>16 DEF RemoveRow, people
    <2> HIDE DEF rev, date, remote, media
    <2> QED
      BY <1>9, <2>1, <2>2, <2>3
  <1>10. CASE UpdatePublished
    <2>1. item.version + 1 \in 0 .. MaxVersion /\ item.rev + 1 \in 1 .. MaxRevision
      BY <1>c, <1>10 DEF UpdatePublished
    <2>2. item' \in Row
      BY <1>0, <1>10, <2>1 DEF UpdatePublished, Row
    <2>5. Moved
      BY <1>0, <1>10, <1>c DEF UpdatePublished, Row, Moved, Sending
    <2>3. GoogleTyped' /\ Kept
      <3> DEFINE s == item.video
                 g == [google[s] EXCEPT !.rev = item.rev + 1]
      <3>1. google' = [google EXCEPT ![s] = g]
        BY <1>10 DEF UpdatePublished
      <3>2. ASSUME s \in Sessions
            PROVE  g \in UploadState /\ g.video = google[s].video /\ g.listed = google[s].listed
                   /\ g.bytes = google[s].bytes
        BY <1>0, <2>1, <3>2, ItemConstants DEF GoogleTyped, UploadState
      <3> HIDE DEF s, g
      <3> QED
        BY <1>0, <3>1, <3>2 DEF GoogleTyped, Kept
    <2>4. Agreed
      BY <1>0, <1>10, <2>1 DEF UpdatePublished
    <2> QED
      BY <1>0, <1>10, <2>2, <2>3, <2>4, <2>5 DEF UpdatePublished, TypeOK, UsersEffect, GoogleTyped
  <1> QED
    BY <1>1, <1>2, <1>3, <1>4, <1>5, <1>6, <1>7, <1>8, <1>10, <1>11, <1>12, <1>13, <1>14, <1>15,
       <1>16 DEF Users

-----------------------------------------------------------------------------
(* The queue, time and failures.                                            *)

JobsTyped == jobs \in [Keys -> Job]

\* Jobs get no other version than the item's and those of the routes on their way.
JobsEffect ==
  \A k \in Keys : jobs'[k].version \in {0, jobs[k].version, item.version} \cup {c.version : c \in calls}

LEMMA JobType ==
  /\ NoJob \in Job /\ NoJob.version = 0
  /\ \A n \in 0 .. MaxVersion : Waiting(n) \in Job /\ Waiting(n).version = n
  /\ \A job \in Job : /\ Stalled(job) \in Job /\ Stalled(job).version \in {0, job.version}
                      /\ [job EXCEPT !.owner = None] \in Job
                      /\ [job EXCEPT !.owner = None].version = job.version
                      /\ \A w \in Workers :
                           /\ [job EXCEPT !.state = "active", !.owner = w] \in Job
                           /\ [job EXCEPT !.state = "active", !.owner = w].version = job.version
  <1>1. NoJob \in Job /\ NoJob.version = 0
    BY ItemConstants DEF NoJob, Job
  <1>2. ASSUME NEW n \in 0 .. MaxVersion
        PROVE  Waiting(n) \in Job /\ Waiting(n).version = n
    BY ItemConstants DEF NoJob, Waiting, Job
  <1>3. ASSUME NEW job \in Job
        PROVE  /\ Stalled(job) \in Job /\ Stalled(job).version \in {0, job.version}
               /\ [job EXCEPT !.owner = None] \in Job
               /\ [job EXCEPT !.owner = None].version = job.version
    <2>1. /\ [job EXCEPT !.state = "waiting", !.stalled = TRUE] \in Job
          /\ [job EXCEPT !.state = "waiting", !.stalled = TRUE].version = job.version
      BY DEF Job
    <2>2. Stalled(job) \in Job /\ Stalled(job).version \in {0, job.version}
      BY <1>1, <2>1 DEF Stalled
    <2> QED
      BY <2>2 DEF Job
  <1>4. ASSUME NEW job \in Job, NEW w \in Workers
        PROVE  /\ [job EXCEPT !.state = "active", !.owner = w] \in Job
               /\ [job EXCEPT !.state = "active", !.owner = w].version = job.version
    BY DEF Job
  <1> QED
    BY <1>1, <1>2, <1>3, <1>4

LEMMA QueueType ==
  ASSUME TypeOK, NEW c \in calls
  PROVE  /\ c.version \in 0 .. MaxVersion
         /\ \A j \in {Replaced(c), Cleaned(c), Added(c), [jobs EXCEPT ![Plain] = NoJob]} :
              /\ j \in [Keys -> Job]
              /\ \A k \in Keys : j[k].version \in {0, jobs[k].version, c.version}
  <1>1. c.version \in 0 .. MaxVersion /\ JobsTyped
    BY DEF TypeOK, Calls, JobsTyped
  <1>2. /\ Replaced(c) \in [Keys -> Job]
        /\ \A k \in Keys : Replaced(c)[k].version \in {0, jobs[k].version, c.version}
    BY <1>1, JobType DEF Replaced, JobsTyped
  <1>3. /\ Cleaned(c) \in [Keys -> Job]
        /\ \A k \in Keys : Cleaned(c)[k].version \in {0, jobs[k].version, c.version}
    <2>1. CASE c.kind = "prepare"
      BY <1>1, <2>1 DEF Cleaned, JobsTyped
    <2>2. CASE c.kind # "prepare"
      BY <1>1, <2>2, JobType DEF Cleaned, Dropped, JobsTyped
    <2> QED
      BY <2>1, <2>2
  <1>4. /\ Added(c) \in [Keys -> Job]
        /\ \A k \in Keys : Added(c)[k].version \in {0, jobs[k].version, c.version}
    <2> DEFINE j == [Cleaned(c) EXCEPT ![Ticket(c)] = Waiting(c.version)]
    <2>1. j \in [Keys -> Job] /\ \A k \in Keys : j[k].version \in {0, jobs[k].version, c.version}
      BY <1>1, <1>3, JobType
    <2> QED
      BY <1>3, <2>1 DEF Added
  <1>5. /\ [jobs EXCEPT ![Plain] = NoJob] \in [Keys -> Job]
        /\ \A k \in Keys : [jobs EXCEPT ![Plain] = NoJob][k].version \in {0, jobs[k].version, c.version}
    BY <1>1, JobType DEF JobsTyped
  <1> QED
    BY <1>1, <1>2, <1>3, <1>4, <1>5

\* An enqueue that failed marks the row, another leaves it.
Refused(c) == EnqueueRefused(c) /\ item' = [item EXCEPT !.status = "failed"]
Missed ==
  /\ item.status \in {"queued", "waiting_video"} /\ item' = [item EXCEPT !.status = "failed"]
  /\ UNCHANGED overlaps

(* A route reaches the queue. *)
LEMMA EnqueueType ==
  ASSUME TypeOK, NEW c \in calls,
         EnqueuePlain(c) \/ EnqueueRefused(c) \/ EnqueueDated(c) \/ EnqueueFailed(c)
  PROVE  /\ TypeOK' /\ JobsEffect /\ calls' \subseteq calls
         /\ UNCHANGED <<collection, google, source, unanswered, pc, ctx, agreed, preparer, faults>>
         /\ UNCHANGED <<item, overlaps>> \/ Missed \/ Refused(c)
  <1>0. item \in Row /\ JobsTyped /\ overlaps \in 0 .. MaxOverlaps
    BY DEF TypeOK, JobsTyped
  <1>1. UNCHANGED <<collection, google, source, unanswered, pc, ctx, agreed, preparer, faults>>
    BY DEF EnqueuePlain, EnqueueRefused, EnqueueDated, EnqueueFailed, Outside, youtube
  <1>2. calls' \subseteq calls
    BY DEF EnqueuePlain, EnqueueRefused, EnqueueDated, EnqueueFailed, Done
  <1>3. jobs' \in {jobs, Replaced(c), Cleaned(c), Added(c), [jobs EXCEPT ![Plain] = NoJob]}
    BY DEF EnqueuePlain, EnqueueRefused, EnqueueDated, EnqueueFailed
  <1>4. JobsTyped' /\ JobsEffect
    <2>1. CASE jobs' = jobs
      BY <1>0, <2>1 DEF JobsTyped, JobsEffect
    <2>2. ASSUME NEW j \in {Replaced(c), Cleaned(c), Added(c), [jobs EXCEPT ![Plain] = NoJob]}, jobs' = j
          PROVE  JobsTyped' /\ JobsEffect
      <3>1. j \in [Keys -> Job] /\ \A k \in Keys : j[k].version \in {0, jobs[k].version, c.version}
        BY QueueType
      <3> QED
        BY <2>2, <3>1 DEF JobsTyped, JobsEffect
    <2> QED
      BY <1>3, <2>1, <2>2
  <1>5. UNCHANGED <<item, overlaps>> \/ Missed \/ Refused(c)
    BY DEF EnqueuePlain, EnqueueRefused, EnqueueDated, EnqueueFailed, Missed, Refused
  <1>6. item' \in Row
    <2>1. [item EXCEPT !.status = "failed"] \in Row
      BY <1>0 DEF Row, Statuses
    <2> QED
      BY <1>0, <1>5, <2>1 DEF Missed, Refused
  <1>7. overlaps' \in 0 .. MaxOverlaps
    <2>1. CASE EnqueueRefused(c)
      BY <1>0, <2>1, ItemConstants DEF EnqueueRefused, Overlap
    <2>2. CASE UNCHANGED overlaps
      BY <1>0, <2>2
    <2> QED
      BY <1>5, <2>1, <2>2 DEF Refused, Missed
  <1> QED
    BY <1>1, <1>2, <1>4, <1>5, <1>6, <1>7 DEF TypeOK, JobsTyped

\* Recovery and the stall check hand jobs out again.
Requeued ==
  /\ JobsEffect
  /\ UNCHANGED <<collection, item, google, source, unanswered, pc, ctx, calls, agreed, preparer, overlaps, faults>>

(* Everything else of the world keeps the types. *)
LEMMA WorldType ==
  ASSUME TypeOK, World
  PROVE  /\ TypeOK'
         /\ \/ Enqueue \/ Requeued \/ ApiCrash \/ Elapse \/ ChangeSource
            \/ \E w \in Workers : Crash(w)
  <1>0. /\ item \in Row /\ JobsTyped /\ calls \subseteq Calls /\ source \in Versions /\ CtxTyped /\ PcTyped
        /\ faults \in 0 .. MaxFaults
    BY DEF TypeOK, JobsTyped, CtxTyped, PcTyped
  <1>1. CASE Enqueue
    BY <1>1, EnqueueType DEF Enqueue
  <1>2. CASE RecoverJob
    <2>1. JobsTyped' /\ JobsEffect
      <3>1. item.version \in 0 .. MaxVersion
        BY <1>0 DEF Row
      <3> DEFINE k == Ready
                 job == Waiting(item.version)
      <3>2. jobs' = [jobs EXCEPT ![k] = job]
        BY <1>2 DEF RecoverJob
      <3>3. job \in Job /\ job.version = item.version
        BY <3>1, JobType
      <3> HIDE DEF k, job
      <3> QED
        BY <1>0, <3>2, <3>3 DEF JobsTyped, JobsEffect
    <2> QED
      BY <1>2, <2>1 DEF RecoverJob, TypeOK, JobsTyped, Requeued, youtube, people
  <1>3. CASE \E k \in Keys : Stall(k)
    <2>1. PICK k \in Keys : Stall(k)
      BY <1>3
    <2>2. jobs' = [jobs EXCEPT ![k] = Stalled(jobs[k])]
      BY <2>1 DEF Stall
    <2> DEFINE job == Stalled(jobs[k])
    <2>3. job \in Job /\ job.version \in {0, jobs[k].version}
      BY <1>0, JobType DEF JobsTyped
    <2>4. jobs' = [jobs EXCEPT ![k] = job]
      BY <2>2
    <2> HIDE DEF job
    <2>5. JobsTyped' /\ JobsEffect
      BY <1>0, <2>3, <2>4 DEF JobsTyped, JobsEffect
    <2> QED
      BY <2>1, <2>5 DEF Stall, TypeOK, JobsTyped, Requeued, youtube, people
  <1>4. CASE ApiCrash
    BY <1>4, ItemConstants DEF ApiCrash, TypeOK, youtube
  <1>5. CASE Elapse
    <2>1. item' \in Row
      BY <1>0, <1>5 DEF Elapse, Row
    <2> QED
      BY <1>5, <2>1 DEF Elapse, TypeOK, youtube, people
  <1>6. CASE ChangeSource
    <2>1. source' \in Versions
      BY <1>0, <1>6, UploadConstants DEF ChangeSource, Versions
    <2> QED
      BY <1>6, <2>1 DEF ChangeSource, TypeOK, people
  <1>7. ASSUME NEW w \in Workers, Crash(w) PROVE TypeOK'
    <2>1. JobsTyped'
      BY <1>0, <1>7, JobType DEF Crash, JobsTyped
    <2>2. CtxTyped'
      BY <1>0, <1>7, IdleType, ContextType DEF Crash
    <2>3. PcTyped' /\ pc'[w] = "idle"
      BY <1>0, <1>7, GotoType DEF Crash, Steps
    <2>4. Addressed'
      <3>1. \A v \in Workers : v # w => pc'[v] = pc[v] /\ ctx'[v] = ctx[v]
        BY <1>0, <1>7 DEF Crash, Goto, PcTyped, CtxTyped
      <3> QED
        BY <2>3, <3>1 DEF TypeOK, Addressed, Transfer
    <2>5. preparer' \in Workers \cup {None} /\ faults' \in 0 .. MaxFaults
      BY <1>0, <1>7, ItemConstants DEF Crash, TypeOK
    <2> QED
      BY <1>7, <2>1, <2>2, <2>3, <2>4, <2>5 DEF Crash, TypeOK, JobsTyped, CtxTyped, PcTyped, Addressed,
         youtube, people
  <1> QED
    BY <1>1, <1>2, <1>3, <1>4, <1>5, <1>6, <1>7 DEF World

-----------------------------------------------------------------------------
(* Workers.                                                                 *)

LEMMA LessonType ==
  ASSUME NEW c \in Context
  PROVE  /\ Lesson(c) \in Mine /\ Lesson(c).session = c.mine.session /\ Lesson(c).video = c.mine.video
         /\ Lesson(c).unknown =
              (c.mine.unknown \/ (c.error = "ambiguous" /\ c.mine.session = None /\ c.mine.video = None))
         /\ Lesson(c).cover = c.mine.cover
  BY DEF Lesson, Context, Mine

(* What YouTube's video becomes when it is polled and listed. *)
LEMMA VideoType ==
  ASSUME GoogleTyped, NEW s
  PROVE  /\ [google EXCEPT ![s].video = "processed"] \in [Sessions -> UploadState]
         /\ ~(google[s].listed > 0) => [google EXCEPT ![s].listed = @ + 1] \in [Sessions -> UploadState]
  <1>1. ASSUME NEW g \in UploadState PROVE [g EXCEPT !.video = "processed"] \in UploadState
    BY DEF UploadState
  <1>2. ASSUME NEW g \in UploadState, ~(g.listed > 0) PROVE [g EXCEPT !.listed = @ + 1] \in UploadState
    <2>1. g.listed + 1 \in 0 .. 1
      BY <1>2 DEF UploadState
    <2> QED
      BY <2>1 DEF UploadState
  <1>3. CASE s \in Sessions
    BY <1>1, <1>2, <1>3 DEF GoogleTyped
  <1>4. CASE s \notin Sessions
    BY <1>4 DEF GoogleTyped
  <1> QED
    BY <1>3, <1>4

(* An executor's context after it noted a version, a status or other settings. *)
LEMMA NoteType ==
  ASSUME NEW c \in Context
  PROVE  /\ \A n \in 0 .. MaxVersion : [c EXCEPT !.version = n] \in Context
         /\ \A s \in Statuses : [c EXCEPT !.seen = s] \in Context
  BY DEF Context

LEMMA WorkerCore ==
  ASSUME TypeOK, item' \in Row, GoogleTyped', PcTyped', CtxTyped', JobsTyped',
         preparer' \in Workers \cup {None}, overlaps' \in 0 .. MaxOverlaps, unanswered' \in BOOLEAN,
         NEW w \in Workers, Stand(w), pc'[w] \notin Transfer,
         UNCHANGED <<collection, source, calls, agreed, faults>>
  PROVE  TypeOK'
  <1>1. Addressed'
    BY DEF TypeOK, Stand, Addressed, PcTyped, CtxTyped
  <1> QED
    BY <1>1 DEF TypeOK, GoogleTyped, PcTyped, CtxTyped, Addressed, JobsTyped

(* A worker's step keeps the types, and no other worker moves. *)
LEMMA WorkerType ==
  ASSUME TypeOK, NEW w \in Workers, WorkerStep(w)
  PROVE  TypeOK' /\ Stand(w)
  <1> DEFINE c == ctx[w]
             mine == ctx[w].mine
             idling == {"idle", "finish", "read", "claim", "prepLock", "prepClaim", "prepInspect",
                        "prepReady", "prepLater", "prepFailed", "authenticate", "source", "cover",
                        "poll", "playlist", "publish", "fail"}
  <1>0. /\ c \in Context /\ mine \in Mine /\ item \in Row /\ c.version \in 0 .. MaxVersion
        /\ PcTyped /\ CtxTyped /\ GoogleTyped /\ JobsTyped
    BY DEF TypeOK, Context, PcTyped, CtxTyped, GoogleTyped, JobsTyped
  <1>00. idling \subseteq Steps /\ idling \cap Transfer = {}
    BY DEF Steps, Publishing, Preparation, Transfer
  <1> USE DEF youtube, people
  <1>1. ASSUME NEW k \in Keys, StartJob(w, k) PROVE TypeOK' /\ Stand(w)
    <2> DEFINE d == [c EXCEPT !.version = jobs[k].version]
               step == IF k[1] = "prepare" THEN "prepLock" ELSE "read"
    <2>1. d \in Context
      BY <1>0, NoteType DEF JobsTyped, Job
    <2>2. ctx' = [ctx EXCEPT ![w] = d] /\ Goto(w, step)
      BY <1>0, <1>1 DEF StartJob, CtxTyped
    <2> HIDE DEF d
    <2>3. PcTyped' /\ CtxTyped' /\ Stand(w) /\ pc'[w] = step
      BY <1>0, <1>00, <2>1, <2>2, TellType DEF Tell
    <2> DEFINE job == [jobs[k] EXCEPT !.state = "active", !.owner = w]
    <2>4. job \in Job
      BY <1>0, JobType DEF JobsTyped
    <2>5. jobs' = [jobs EXCEPT ![k] = job]
      BY <1>0, <1>1 DEF StartJob, JobsTyped
    <2> HIDE DEF job
    <2>6. JobsTyped'
      BY <1>0, <2>4, <2>5 DEF JobsTyped
    <2> QED
      BY <1>0, <1>00, <1>1, <2>3, <2>6, WorkerCore DEF StartJob, TypeOK, GoogleTyped
  <1>2. CASE PollImages(w)
    <2> DEFINE d == [c EXCEPT !.version = item.version]
    <2>1. d \in Context
      BY <1>0, NoteType DEF Row
    <2>2. ctx' = [ctx EXCEPT ![w] = d] /\ Goto(w, "prepLock")
      BY <1>0, <1>2 DEF PollImages, CtxTyped
    <2> HIDE DEF d
    <2>3. PcTyped' /\ CtxTyped' /\ Stand(w) /\ pc'[w] = "prepLock"
      BY <1>0, <1>00, <2>1, <2>2, TellType DEF Tell
    <2> QED
      BY <1>0, <1>00, <1>2, <2>3, WorkerCore DEF PollImages, TypeOK, GoogleTyped, JobsTyped
  <1>3. CASE FinishJob(w)
    <2>1. PcTyped' /\ Stand(w) /\ pc'[w] = "idle" /\ UNCHANGED ctx
      BY <1>0, <1>00, <1>3, GotoType DEF FinishJob
    <2>2. JobsTyped'
      BY <1>0, <1>3, JobType DEF FinishJob, JobsTyped
    <2> QED
      BY <1>0, <1>00, <1>3, <2>1, <2>2, WorkerCore DEF FinishJob, TypeOK, GoogleTyped, CtxTyped
  <1>4. CASE Read(w)
    <2>1. CASE Goto(w, "claim") /\ ctx' = [ctx EXCEPT ![w].seen = item.status]
      <3> DEFINE d == [c EXCEPT !.seen = item.status]
      <3>1. d \in Context
        BY <1>0, NoteType DEF Row
      <3>2. ctx' = [ctx EXCEPT ![w] = d]
        BY <1>0, <2>1 DEF CtxTyped
      <3> HIDE DEF d
      <3>3. PcTyped' /\ CtxTyped' /\ Stand(w) /\ pc'[w] = "claim"
        BY <1>0, <1>00, <2>1, <3>1, <3>2, TellType DEF Tell
      <3> QED
        BY <1>0, <1>00, <1>4, <3>3, WorkerCore DEF Read, TypeOK, GoogleTyped, JobsTyped
    <2>2. CASE End(w)
      <3>1. PcTyped' /\ CtxTyped' /\ Stand(w) /\ pc'[w] = "finish"
        BY <1>0, <2>2, EndType
      <3> QED
        BY <1>0, <1>00, <1>4, <3>1, WorkerCore DEF Read, TypeOK, GoogleTyped, JobsTyped
    <2> QED
      BY <1>4, <2>1, <2>2 DEF Read
  <1>5. CASE Claim(w)
    <2>1. CASE ~Claimable(w)
      <3>1. PcTyped' /\ CtxTyped' /\ Stand(w) /\ pc'[w] = "finish"
        BY <1>0, <1>5, <2>1, EndType DEF Claim
      <3> QED
        BY <1>0, <1>00, <1>5, <2>1, <3>1, WorkerCore DEF Claim, TypeOK, GoogleTyped, JobsTyped
    <2>2. CASE Claimable(w)
      <3> DEFINE next == [item EXCEPT !.status = IF item.video # None THEN "processing"
                                                 ELSE "uploading"]
                 d == [IdleCtx EXCEPT !.mine = Copy(next)]
      <3>1. /\ Overlap /\ item' = next /\ ctx' = [ctx EXCEPT ![w] = d] /\ Goto(w, "authenticate")
            /\ UNCHANGED <<youtube, jobs, people, preparer, faults>>
        BY <1>5, <2>2 DEF Claim
      <3>2. next \in Row
        BY <1>0 DEF Row, Statuses
      <3>3. d \in Context
        BY <3>2, Copied, IdleType, MineType
      <3> HIDE DEF next, d
      <3>4. PcTyped' /\ CtxTyped' /\ Stand(w) /\ pc'[w] = "authenticate"
        BY <1>0, <1>00, <3>1, <3>3, TellType DEF Tell
      <3>5. overlaps' \in 0 .. MaxOverlaps
        BY <3>1, ItemConstants DEF Overlap, TypeOK
      <3> QED
        BY <1>0, <1>00, <3>1, <3>2, <3>4, <3>5, WorkerCore DEF TypeOK, GoogleTyped, JobsTyped
    <2> QED
      BY <2>1, <2>2
  <1>6. CASE Authenticate(w)
    <2>1. item' \in Row
      BY <1>0, <1>6, Written DEF Authenticate
    <2>2. PcTyped' /\ CtxTyped' /\ Stand(w) /\ pc'[w] \in {"fail", "source", "cover"}
      <3>1. CASE Throw(w, "error")
        BY <1>0, <3>1, ThrowType
      <3>2. CASE Goto(w, IF mine.video = None THEN "source" ELSE "cover") /\ UNCHANGED ctx
        BY <1>0, <1>00, <3>2, GotoType DEF CtxTyped
      <3> QED
        BY <1>6, <3>1, <3>2 DEF Authenticate
    <2> QED
      BY <1>0, <1>00, <1>6, <2>1, <2>2, WorkerCore DEF Authenticate, TypeOK, GoogleTyped, JobsTyped
  <1>7. CASE Upload(w)
    BY <1>7, UploadType DEF Upload
  <1>8. CASE MarkProcessing(w)
    <2>1. item' \in Row
      BY <1>0, <1>8 DEF MarkProcessing, Row, Mine, Statuses
    <2>2. PcTyped' /\ Stand(w) /\ pc'[w] = "cover" /\ UNCHANGED ctx
      BY <1>0, <1>00, <1>8, GotoType DEF MarkProcessing
    <2> QED
      BY <1>0, <1>00, <1>8, <2>1, <2>2, WorkerCore DEF MarkProcessing, TypeOK, GoogleTyped, JobsTyped,
         CtxTyped
  <1>9. CASE SetCover(w)
    <2>1. CASE ctx' = [ctx EXCEPT ![w].mine.cover = TRUE] /\ Goto(w, "poll")
               /\ item' = WithSettings(item, [mine EXCEPT !.cover = TRUE])
      <3> DEFINE next == [mine EXCEPT !.cover = TRUE]
                 d == [c EXCEPT !.mine = next]
      <3>1. next \in Mine
        BY <1>0 DEF Mine
      <3>2. ctx' = [ctx EXCEPT ![w] = d]
        BY <1>0, <2>1 DEF CtxTyped, Context
      <3>3. item' \in Row
        BY <1>0, <2>1, <3>1, Written
      <3>4. d \in Context
        BY <1>0, <3>1, MineType
      <3> HIDE DEF next, d
      <3>5. PcTyped' /\ CtxTyped' /\ Stand(w) /\ pc'[w] = "poll"
        BY <1>0, <1>00, <2>1, <3>2, <3>4, TellType DEF Tell
      <3> QED
        BY <1>0, <1>00, <1>9, <3>3, <3>5, WorkerCore DEF SetCover, TypeOK, GoogleTyped, JobsTyped
    <2>2. CASE Throw(w, "error") /\ UNCHANGED item
      <3>1. PcTyped' /\ CtxTyped' /\ Stand(w) /\ pc'[w] = "fail"
        BY <1>0, <2>2, ThrowType
      <3> QED
        BY <1>0, <1>00, <1>9, <2>2, <3>1, WorkerCore DEF SetCover, TypeOK, GoogleTyped, JobsTyped
    <2> QED
      BY <1>9, <2>1, <2>2 DEF SetCover
  <1>10. CASE Poll(w)
    <2>1. GoogleTyped'
      <3> DEFINE s == mine.video
      <3>1. google' = google \/ google' = [google EXCEPT ![s].video = "processed"]
        BY <1>10 DEF Poll
      <3> HIDE DEF s
      <3> QED
        BY <1>0, <3>1, VideoType DEF GoogleTyped
    <2>2. PcTyped' /\ CtxTyped' /\ Stand(w) /\ pc'[w] \in {"playlist", "fail"}
      <3>1. CASE Throw(w, "error")
        BY <1>0, <3>1, ThrowType
      <3>2. CASE Goto(w, "playlist") /\ UNCHANGED ctx
        BY <1>0, <1>00, <3>2, GotoType DEF CtxTyped
      <3> QED
        BY <1>10, <3>1, <3>2 DEF Poll
    <2> QED
      BY <1>0, <1>00, <1>10, <2>1, <2>2, WorkerCore DEF Poll, TypeOK, JobsTyped
  <1>11. CASE AttachPlaylist(w)
    <2>1. GoogleTyped'
      <3> DEFINE s == mine.video
      <3>1. google' = google \/ (~(google[s].listed > 0) /\ google' = [google EXCEPT ![s].listed = @ + 1])
        BY <1>11 DEF AttachPlaylist, InPlaylist
      <3> HIDE DEF s
      <3> QED
        BY <1>0, <3>1, VideoType DEF GoogleTyped
    <2>2. PcTyped' /\ CtxTyped' /\ Stand(w) /\ pc'[w] \in {"publish", "fail"}
      <3>1. CASE Throw(w, "error")
        BY <1>0, <3>1, ThrowType
      <3>2. CASE Goto(w, "publish") /\ UNCHANGED ctx
        BY <1>0, <1>00, <3>2, GotoType DEF CtxTyped
      <3> QED
        BY <1>11, <3>1, <3>2 DEF AttachPlaylist
    <2>3. item' \in Row
      BY <1>0, <1>11, Written DEF AttachPlaylist
    <2> QED
      BY <1>0, <1>00, <1>11, <2>1, <2>2, <2>3, WorkerCore DEF AttachPlaylist, TypeOK, JobsTyped
  <1>12. CASE MarkPublished(w)
    <2>1. item' \in Row
      BY <1>0, <1>12 DEF MarkPublished, Row, Statuses
    <2>2. PcTyped' /\ CtxTyped' /\ Stand(w) /\ pc'[w] = "finish"
      BY <1>0, <1>12, EndType DEF MarkPublished
    <2> QED
      BY <1>0, <1>00, <1>12, <2>1, <2>2, WorkerCore DEF MarkPublished, TypeOK, JobsTyped, GoogleTyped
  <1>13. CASE Fail(w)
    <2>1. WithSettings(item, Lesson(c)) \in Row
      BY <1>0, Written, LessonType
    <2>2. item' \in Row
      BY <1>13, <2>1 DEF Fail, Row, Statuses
    <2>3. PcTyped' /\ CtxTyped' /\ Stand(w) /\ pc'[w] = "finish"
      BY <1>0, <1>13, EndType DEF Fail
    <2>4. unanswered' \in BOOLEAN
      BY <1>13 DEF Fail
    <2> QED
      BY <1>0, <1>00, <1>13, <2>2, <2>3, <2>4, WorkerCore DEF Fail, TypeOK, JobsTyped, GoogleTyped
  <1>14. CASE PrepareLock(w)
    <2>1. /\ PcTyped' /\ CtxTyped' /\ Stand(w) /\ pc'[w] \in {"finish", "prepClaim"}
          /\ preparer' \in Workers \cup {None}
      <3>1. CASE End(w) /\ UNCHANGED preparer
        BY <1>0, <3>1, EndType DEF TypeOK
      <3>2. CASE preparer' = w /\ Goto(w, "prepClaim") /\ UNCHANGED ctx
        BY <1>0, <1>00, <3>2, GotoType DEF CtxTyped
      <3> QED
        BY <1>14, <3>1, <3>2 DEF PrepareLock
    <2> QED
      BY <1>0, <1>00, <1>14, <2>1, WorkerCore DEF PrepareLock, TypeOK, JobsTyped, GoogleTyped
  <1>15. CASE PrepareClaim(w)
    <2>1. CASE Preparable(w)
      <3> DEFINE d == [c EXCEPT !.mine = Copy(item)]
      <3>1. item' = [item EXCEPT !.status = "preparing"] /\ ctx' = [ctx EXCEPT ![w] = d]
            /\ Goto(w, "prepInspect") /\ UNCHANGED preparer
        BY <1>0, <1>15, <2>1 DEF PrepareClaim, CtxTyped
      <3>2. d \in Context
        BY <1>0, Copied, MineType
      <3>3. item' \in Row
        BY <1>0, <3>1 DEF Row, Statuses
      <3> HIDE DEF d
      <3>4. PcTyped' /\ CtxTyped' /\ Stand(w) /\ pc'[w] = "prepInspect"
        BY <1>0, <1>00, <3>1, <3>2, TellType DEF Tell
      <3> QED
        BY <1>0, <1>00, <1>15, <3>1, <3>3, <3>4, WorkerCore DEF PrepareClaim, TypeOK, JobsTyped, GoogleTyped
    <2>2. CASE ~Preparable(w)
      <3>1. PcTyped' /\ CtxTyped' /\ Stand(w) /\ pc'[w] = "finish"
        BY <1>0, <1>15, <2>2, EndType DEF PrepareClaim
      <3> QED
        BY <1>0, <1>00, <1>15, <2>2, <3>1, WorkerCore DEF PrepareClaim, TypeOK, JobsTyped, GoogleTyped
    <2> QED
      BY <2>1, <2>2
  <1>16. CASE PrepareInspect(w)
    <2>1. PICK next \in Mine, step \in {"prepFailed", "prepLater", "prepReady"} :
            /\ ctx' = [ctx EXCEPT ![w].mine = next] /\ Goto(w, step)
            /\ item' = IF StillPreparing(w) THEN WithSettings(item, next) ELSE item
      <3> DEFINE cleared == [mine EXCEPT !.remote = 0, !.media = FALSE]
                 checked == [cleared EXCEPT !.remote = source, !.changed = FALSE]
                 ends == {<<mine, "prepFailed">>, <<cleared, "prepFailed">>, <<checked, "prepFailed">>,
                          <<checked, "prepLater">>, <<checked, "prepReady">>}
      <3>1. source \in 0 .. MaxSource /\ 0 \in 0 .. MaxSource
        BY UploadConstants DEF TypeOK, Versions
      <3>2. cleared \in Mine
        BY <1>0, <3>1 DEF Mine
      <3>3. checked \in Mine
        BY <3>1, <3>2 DEF Mine
      <3>4. PICK end \in ends :
              /\ ctx' = [ctx EXCEPT ![w].mine = end[1]] /\ Goto(w, end[2])
              /\ item' = IF StillPreparing(w) THEN WithSettings(item, end[1]) ELSE item
        BY <1>16 DEF PrepareInspect
      <3> HIDE DEF cleared, checked
      <3>5. end[1] \in Mine /\ end[2] \in {"prepFailed", "prepLater", "prepReady"}
        BY <1>0, <3>2, <3>3
      <3> QED
        BY <3>4, <3>5
    <2> DEFINE d == [c EXCEPT !.mine = next]
    <2>2. d \in Context
      BY <1>0, MineType
    <2>3. ctx' = [ctx EXCEPT ![w] = d]
      BY <1>0, <2>1 DEF CtxTyped
    <2> HIDE DEF d
    <2>4. PcTyped' /\ CtxTyped' /\ Stand(w) /\ pc'[w] = step
      BY <1>0, <1>00, <2>1, <2>2, <2>3, TellType DEF Tell
    <2>5. item' \in Row
      BY <1>0, <2>1, Written
    <2> QED
      BY <1>0, <1>00, <1>16, <2>4, <2>5, WorkerCore DEF PrepareInspect, TypeOK, JobsTyped, GoogleTyped
  <1>17. CASE PrepareEnd(w)
    <2>1. WithSettings(item, mine) \in Row
      BY <1>0, Written
    <2>2. item' \in Row
      BY <1>0, <1>17, <2>1 DEF PrepareEnd, Prepared, Row, Statuses
    <2>3. PcTyped' /\ CtxTyped' /\ Stand(w) /\ pc'[w] = "finish"
      BY <1>0, <1>17, EndType DEF PrepareEnd
    <2> QED
      BY <1>0, <1>00, <1>17, <2>2, <2>3, WorkerCore DEF PrepareEnd, TypeOK, JobsTyped, GoogleTyped
  <1> QED
    BY <1>1, <1>2, <1>3, <1>4, <1>5, <1>6, <1>7, <1>8, <1>9, <1>10, <1>11, <1>12, <1>13, <1>14,
       <1>15, <1>16, <1>17 DEF WorkerStep

(* Types at the start. *)
LEMMA InitType == Init => TypeOK
  <1> SUFFICES ASSUME Init PROVE TypeOK
    OBVIOUS
  <1>1. item \in Row
    BY RowType DEF Init, Blank, Statuses
  <1>2. 0 \in 0 .. MaxRotations /\ 0 \in 0 .. MaxRevision /\ 0 \in 0 .. Chunks
        /\ 0 \in 0 .. MaxSource /\ 0 \in 0 .. MaxFaults /\ 0 \in 0 .. MaxOverlaps
        /\ 0 \in 0 .. MaxVersion
    BY UploadConstants, ItemConstants
  <1>3. Unopened \in UploadState
    BY <1>2 DEF Unopened, UploadState
  <1>4. google \in [Sessions -> UploadState] /\ ctx \in [Workers -> Context]
        /\ jobs \in [Keys -> Job]
    BY <1>3, IdleType, JobType DEF Init
  <1>5. pc \in [Workers -> Steps] /\ \A w \in Workers : pc[w] \notin Transfer
    BY DEF Init, Steps, Transfer
  <1>6. calls \subseteq Calls /\ agreed \in [rev : 0 .. MaxRevision, remote : 0 .. MaxSource]
    BY <1>2 DEF Init, Calls
  <1>7. source \in Versions /\ collection \in BOOLEAN
    BY UploadConstants, ItemConstants DEF Init, Versions
  <1> QED
    BY <1>1, <1>2, <1>4, <1>5, <1>6, <1>7 DEF Init, TypeOK

(* Every reachable state is typed: whatever the routes, the executors, the  *)
(* queue and YouTube do, a session never gets more than the video's chunks, *)
(* a video is never listed twice and a transfer always has a session        *)
(* (youtube-upload.ts, youtube.ts, routes/youtube.ts, routes/calendar.ts).  *)
THEOREM TypeCorrect == Spec => []TypeOK
  <1>1. TypeOK /\ [Next]_vars => TypeOK'
    <2> SUFFICES ASSUME TypeOK, [Next]_vars PROVE TypeOK'
      OBVIOUS
    <2>1. CASE UNCHANGED vars
      BY <2>1 DEF vars, TypeOK
    <2>2. CASE Next
      BY <2>2, UsersType, WorldType, WorkerType DEF Next
    <2> QED
      BY <2>1, <2>2
  <1> QED
    BY InitType, <1>1, PTL DEF Spec

-----------------------------------------------------------------------------
(* One executor at a time (MaxOverlaps = 0): IInv is inductive.             *)

Nobody == \A v \in Workers : pc[v] \notin Publishing

VideoStep == item.video # None => item'.video = item.video

LEMMA Apart == Publishing \cap (Preparation \cup {"idle", "read", "claim", "finish", "prepLock"}) = {}
               /\ Preparation \cap {"idle", "read", "claim", "finish", "prepLock"} = {}
  BY DEF Publishing, Preparation

(* A claim, or an enqueue that was refused, finds no executor at work. *)
LEMMA Unobserved ==
  ASSUME TypeOK, MaxOverlaps = 0, Overlap
  PROVE  Nobody
  BY DEF TypeOK, Overlap, Nobody

\* What nobody but an executor changes.
Lasting == {"session", "video", "unknown", "cover"}

(* A step beside the workers. *)
LEMMA Beside ==
  ASSUME IInv, TypeOK', UNCHANGED <<pc, ctx, preparer, unanswered>>, Kept,
         \A f \in Lasting : item'[f] = item[f],
         item'.version \in {item.version, item.version + 1},
         item'.version = item.version => item'.date \in {item.date, "due"},
         Nobody \/ (item'.status = item.status /\ item'.version = item.version),
         item'.status = item.status \/ item'.status # "preparing",
         item'.status = "published" => item.status = "published",
         \A k \in Keys : jobs'[k].version <= item'.version,
         \A c \in calls' : c.version <= item'.version
  PROVE  IInv' /\ VideoStep
  <1>0. /\ item \in Row /\ item' \in Row /\ item.version \in Nat /\ item'.version \in Nat
        /\ \A w \in Workers : ctx[w].version \in Nat
        /\ None \notin Sessions
    BY ItemConstants, UploadConstants DEF IInv, TypeOK, Row, Context
  <1>1. Alone'
    BY DEF IInv, Alone
  <1>v. item'.video # None => item'.video \in Sessions
    BY <1>0 DEF Row
  <1>2. ASSUME NEW w \in Workers, pc'[w] \in Publishing PROVE Agrees(w)'
    <2>1. Agrees(w) /\ pc[w] \in Publishing
      BY <1>2 DEF IInv
    <2>2. item'.status = item.status /\ item'.version = item.version
      BY <2>1 DEF Nobody
    <2>3. Sending' /\ item'.date # "future"
      BY <2>1, <2>2 DEF Agrees, Sending
    <2> QED
      BY <1>v, <2>1, <2>3 DEF Agrees, Lasting, Kept
  <1>3. ASSUME NEW w \in Workers, pc'[w] \in Preparation PROVE Prepares(w)'
    <2>1. Prepares(w) /\ ctx[w].version <= item.version
      BY <1>3 DEF IInv, Punctual
    <2>2. StillPreparing(w)' => item.version = item'.version
      BY <1>0, <2>1 DEF StillPreparing
    <2>3. StillPreparing(w)' => StillPreparing(w)
      BY <2>2 DEF StillPreparing
    <2> QED
      BY <2>1, <2>3 DEF Prepares, Lasting
  <1>4. Punctual'
    <2>1. \A w \in Workers : ctx'[w].version <= item'.version
      BY <1>0 DEF IInv, Punctual
    <2>2. ASSUME NEW w \in Workers, pc'[w] \in {"read", "claim"}, ctx'[w].version = item'.version
          PROVE  item'.date # "future"
      <3>1. item'.version = item.version
        BY <1>0, <2>2 DEF IInv, Punctual
      <3> QED
        BY <2>2, <3>1 DEF IInv, Punctual
    <2> QED
      BY <2>1, <2>2 DEF Punctual
  <1>5. Started' \subseteq {item'.session}
    BY DEF IInv, Started, Kept, Lasting
  <1>6. unanswered' => item'.unknown
    BY DEF IInv, Lasting
  <1>7. PublishedProcessed'
    BY <1>v DEF IInv, PublishedProcessed, Kept, Lasting
  <1> QED
    BY <1>1, <1>2, <1>3, <1>4, <1>5, <1>6, <1>7 DEF IInv, VideoStep, Lasting

(* A step of one worker: what holds of the others. *)
LEMMA Own ==
  ASSUME IInv, TypeOK', NEW w \in Workers, Stand(w),
         item'.version = item.version, item'.date = item.date, UNCHANGED calls,
         \A k \in Keys : jobs'[k].version \in {0, jobs[k].version},
         pc'[w] \in Publishing => Agrees(w)' /\ (pc[w] \in Publishing \/ Nobody),
         pc'[w] \in Preparation => Prepares(w)',
         pc[w] \in Publishing \/ Nobody \/ UNCHANGED <<item, google>>,
         preparer' = preparer \/ preparer \in {None, w},
         UNCHANGED item \/ item'.status # "preparing" \/ preparer = w,
         ctx'[w].version <= item.version,
         pc'[w] \in {"read", "claim"} /\ ctx'[w].version = item.version => item.date # "future",
         Started' \subseteq {item'.session}, unanswered' => item'.unknown, PublishedProcessed'
  PROVE  IInv'
  <1>0. /\ item.version \in Nat
        /\ \A k \in Keys : jobs[k].version \in Nat
    BY ItemConstants DEF IInv, TypeOK, Row, Job
  <1>1. Alone'
    BY DEF IInv, Alone, Stand, Nobody
  <1>2. ASSUME NEW v \in Workers, pc'[v] \in Publishing PROVE Agrees(v)'
    <2>1. CASE v = w
      BY <1>2, <2>1
    <2>2. CASE v # w
      <3>1. pc'[v] = pc[v] /\ ctx'[v] = ctx[v]
        BY <2>2 DEF Stand
      <3>2. UNCHANGED <<item, google>>
        BY <1>2, <2>2, <3>1 DEF IInv, Alone, Nobody
      <3>3. Agrees(v)
        BY <1>2, <3>1 DEF IInv
      <3> QED
        BY <3>1, <3>2, <3>3 DEF Agrees, Sending
    <2> QED
      BY <2>1, <2>2
  <1>3. ASSUME NEW v \in Workers, pc'[v] \in Preparation PROVE Prepares(v)'
    <2>1. CASE v = w
      BY <1>3, <2>1
    <2>2. CASE v # w
      <3>1. pc'[v] = pc[v] /\ ctx'[v] = ctx[v]
        BY <2>2 DEF Stand
      <3>2. Prepares(v) /\ preparer = v
        BY <1>3, <3>1 DEF IInv, Prepares
      <3>3. preparer' = v
        BY <2>2, <3>2, UploadConstants
      <3>4. UNCHANGED item \/ ~StillPreparing(v)'
        BY <2>2, <3>2 DEF StillPreparing
      <3> QED
        BY <3>1, <3>2, <3>3, <3>4 DEF Prepares, StillPreparing
    <2> QED
      BY <2>1, <2>2
  <1>4. Punctual'
    <2>1. \A k \in Keys : jobs'[k].version <= item'.version
      BY <1>0 DEF IInv, Punctual
    <2>2. ASSUME NEW v \in Workers
          PROVE  /\ ctx'[v].version <= item'.version
                 /\ pc'[v] \in {"read", "claim"} /\ ctx'[v].version = item'.version => item'.date # "future"
      <3>1. CASE v = w
        BY <3>1
      <3>2. CASE v # w
        BY <3>2 DEF IInv, Punctual, Stand
      <3> QED
        BY <3>1, <3>2
    <2> QED
      BY <2>1, <2>2 DEF IInv, Punctual
  <1> QED
    BY <1>1, <1>2, <1>3, <1>4 DEF IInv

(* A step of the executor that goes on publishing. *)
LEMMA Proceeds ==
  ASSUME IInv, TypeOK', NEW w \in Workers, Stand(w), pc[w] \in Publishing, pc'[w] \in Publishing,
         \A f \in {"version", "date", "unknown"} : item'[f] = item[f],
         item'.status \in {"uploading", "processing"},
         UNCHANGED <<jobs, calls, preparer, unanswered>>,
         ctx'[w].version = ctx[w].version, Agrees(w)', Started' \subseteq {item'.session}
  PROVE  IInv'
  <1>1. pc'[w] \notin Preparation /\ pc'[w] \notin {"read", "claim"}
    BY Apart
  <1>2. PublishedProcessed'
    BY DEF PublishedProcessed
  <1>3. unanswered' => item'.unknown
    BY DEF IInv
  <1>4. ctx'[w].version <= item.version
    BY DEF IInv, Punctual
  <1> QED
    BY <1>1, <1>2, <1>3, <1>4, Own

(* The routes. *)
LEMMA UsersKeep ==
  ASSUME IInv, Users
  PROVE  IInv' /\ VideoStep
  <1>0. TypeOK /\ TypeOK' /\ UsersEffect /\ UNCHANGED <<pc, ctx, jobs, preparer, unanswered>>
    BY UsersType DEF IInv
  <1>1. Moved /\ Kept
    BY <1>0 DEF UsersEffect
  <1>2. Nobody
    BY <1>1 DEF IInv, Agrees, Moved, Nobody
  <1>3. item.version \in Nat /\ item'.version >= item.version
    BY <1>0, <1>1, ItemConstants DEF TypeOK, Row, Moved
  <1>4. \A k \in Keys : jobs'[k].version <= item'.version
    <2>1. \A k \in Keys : jobs[k].version \in Nat
      BY <1>0, ItemConstants DEF TypeOK, Job
    <2> QED
      BY <1>0, <1>1, <1>3, <2>1 DEF IInv, Punctual, Moved
  <1>5. \A c \in calls' : c.version <= item'.version
    <2>1. \A c \in calls : c.version \in Nat
      BY <1>0, ItemConstants DEF TypeOK, Calls
    <2> QED
      BY <1>0, <1>1, <1>3, <2>1 DEF IInv, Punctual, Moved, UsersEffect
  <1> QED
    BY <1>0, <1>1, <1>2, <1>4, <1>5, Beside DEF Moved, Lasting

(* The queue, recovery, time and crashes. *)
LEMMA WorldKeeps ==
  ASSUME IInv, MaxOverlaps = 0, World
  PROVE  IInv' /\ VideoStep
  <1>0. /\ TypeOK /\ TypeOK' /\ item \in Row /\ item.version \in Nat
        /\ \A k \in Keys : jobs[k].version \in Nat /\ jobs[k].version <= item.version
        /\ \A c \in calls : c.version <= item.version
    BY WorldType, ItemConstants DEF IInv, Punctual, TypeOK, Row, Job
  <1>1. ASSUME JobsEffect PROVE \A k \in Keys : jobs'[k].version <= item.version
    BY <1>0, <1>1 DEF JobsEffect
  <1>2. CASE Enqueue
    <2>1. PICK c \in calls : EnqueuePlain(c) \/ EnqueueRefused(c) \/ EnqueueDated(c) \/ EnqueueFailed(c)
      BY <1>2 DEF Enqueue
    <2>2. /\ JobsEffect /\ calls' \subseteq calls
          /\ UNCHANGED <<google, unanswered, pc, ctx, preparer>>
          /\ UNCHANGED <<item, overlaps>> \/ Missed \/ Refused(c)
      BY <1>0, <2>1, EnqueueType
    <2>3. UNCHANGED item \/ (Nobody /\ item' = [item EXCEPT !.status = "failed"])
      <3>1. CASE Missed
        BY <3>1 DEF Missed, IInv, Agrees, Sending, Nobody
      <3>2. CASE Refused(c)
        BY <1>0, <3>2, Unobserved DEF Refused, EnqueueRefused
      <3> QED
        BY <2>2, <3>1, <3>2
    <2>4. /\ \A f \in Lasting \cup {"version", "date"} : item'[f] = item[f]
          /\ item'.status = item.status \/ (Nobody /\ item'.status = "failed")
      BY <1>0, <2>3 DEF Row, Lasting
    <2>5. Kept
      BY <2>2 DEF Kept
    <2>6. item'.version = item.version /\ item'.date = item.date
      BY <2>4
    <2> QED
      BY <1>0, <1>1, <2>2, <2>4, <2>5, <2>6, Beside
  <1>3. CASE Requeued
    <2>1. Kept
      BY <1>3 DEF Kept, Requeued
    <2> QED
      BY <1>0, <1>1, <1>3, <2>1, Beside DEF Requeued
  <1>4. CASE ApiCrash \/ ChangeSource
    <2>1. Kept /\ UNCHANGED <<pc, ctx, preparer, unanswered, item, jobs>> /\ calls' \subseteq calls
      BY <1>4 DEF Kept, ApiCrash, ChangeSource, youtube, people
    <2> QED
      BY <1>0, <2>1, Beside
  <1>5. CASE Elapse
    <2>1. Kept /\ UNCHANGED <<pc, ctx, preparer, unanswered, calls, jobs>>
      BY <1>5 DEF Kept, Elapse, youtube, people
    <2>2. item' = [item EXCEPT !.date = "due"]
      BY <1>5 DEF Elapse
    <2>3. /\ \A f \in Lasting \cup {"version", "status"} : item'[f] = item[f]
          /\ item'.date = "due"
      BY <1>0, <2>2 DEF Row, Lasting
    <2>4. item'.version = item.version /\ item'.status = item.status
      BY <2>3
    <2> QED
      BY <1>0, <2>1, <2>3, <2>4, Beside
  <1>6. ASSUME NEW w \in Workers, Crash(w) PROVE IInv' /\ VideoStep
    <2>1. UNCHANGED <<item, calls, google, unanswered>>
      BY <1>6 DEF Crash, youtube, people
    <2>2. Stand(w) /\ pc'[w] = "idle" /\ ctx'[w] = IdleCtx
      BY <1>0, <1>6 DEF Crash, Goto, TypeOK, Stand
    <2>3. ctx'[w].version <= item.version
      BY <1>0, <2>2 DEF IdleCtx
    <2>4. preparer' = preparer \/ preparer = w
      BY <1>6 DEF Crash
    <2>5. \A k \in Keys : jobs'[k].version \in {0, jobs[k].version}
      BY <1>0, <1>6, JobType DEF Crash, TypeOK
    <2>6. pc'[w] \notin Publishing /\ pc'[w] \notin Preparation
      BY <2>2, Apart
    <2>7. Started' \subseteq {item'.session} /\ (unanswered' => item'.unknown) /\ PublishedProcessed'
      BY <2>1 DEF IInv, Started, PublishedProcessed
    <2> QED
      BY <1>0, <2>1, <2>2, <2>3, <2>4, <2>5, <2>6, <2>7, Own DEF VideoStep
  <1> QED
    BY <1>0, <1>2, <1>3, <1>4, <1>5, <1>6, WorldType

(* Workers outside a publication. *)
LEMMA OthersKeep ==
  ASSUME IInv, MaxOverlaps = 0, NEW w \in Workers,
         \/ \E k \in Keys : StartJob(w, k)
         \/ PollImages(w) \/ FinishJob(w) \/ Read(w) \/ Claim(w)
         \/ PrepareLock(w) \/ PrepareClaim(w) \/ PrepareInspect(w) \/ PrepareEnd(w)
  PROVE  IInv' /\ VideoStep
  <1>0. /\ TypeOK /\ item \in Row /\ item.version \in Nat /\ PcTyped /\ CtxTyped
        /\ ctx[w] \in Context /\ ctx[w].mine \in Mine /\ ctx[w].version <= item.version
        /\ \A k \in Keys : jobs[k] \in Job /\ jobs[k].version \in Nat /\ jobs[k].version <= item.version
    BY ItemConstants DEF IInv, Punctual, TypeOK, Row, Job, Context, PcTyped, CtxTyped
  <1>t. TypeOK' /\ Stand(w)
    BY <1>0, WorkerType DEF WorkerStep
  <1>s. PublishedProcessed /\ Started \subseteq {item.session} /\ (unanswered => item.unknown)
    BY DEF IInv
  <1>e. ASSUME UNCHANGED <<item, google, calls, unanswered>>
        PROVE  /\ VideoStep /\ Started' \subseteq {item'.session} /\ (unanswered' => item'.unknown)
               /\ PublishedProcessed'
    BY <1>s, <1>e DEF VideoStep, Started, PublishedProcessed
  <1>f. ASSUME End(w)
        PROVE  pc'[w] \notin Publishing /\ pc'[w] \notin Preparation /\ pc'[w] \notin {"read", "claim"}
               /\ ctx'[w].version <= item.version
    <2>1. pc'[w] = "finish" /\ ctx'[w] = IdleCtx
      BY <1>0, <1>f, EndType
    <2> QED
      BY <1>0, <2>1, Apart DEF IdleCtx
  <1>j. ASSUME UNCHANGED jobs PROVE \A k \in Keys : jobs'[k].version \in {0, jobs[k].version}
    BY <1>j
  <1> USE DEF youtube, people
  <1>1. ASSUME NEW k \in Keys, StartJob(w, k) PROVE IInv' /\ VideoStep
    <2>1. /\ UNCHANGED <<item, google, calls, unanswered, preparer>>
          /\ jobs' = [jobs EXCEPT ![k].state = "active", ![k].owner = w]
          /\ pc'[w] = (IF k[1] = "prepare" THEN "prepLock" ELSE "read")
          /\ k[1] = "prepare" \/ jobs[k].version # item.version \/ item.date # "future"
      BY <1>0, <1>1, GotoType DEF StartJob, PcTyped, Goto
    <2>2. ctx'[w].version = jobs[k].version
      BY <1>0, <1>1 DEF StartJob, CtxTyped, Context
    <2>3. \A l \in Keys : jobs'[l].version \in {0, jobs[l].version}
      <3> DEFINE job == [jobs[k] EXCEPT !.state = "active", !.owner = w]
      <3>1. jobs' = [jobs EXCEPT ![k] = job]
        BY <1>0, <2>1 DEF TypeOK
      <3>2. job.version = jobs[k].version
        BY <1>0, JobType
      <3> HIDE DEF job
      <3> QED
        BY <1>0, <3>1, <3>2 DEF TypeOK
    <2>4. pc'[w] \notin Publishing /\ pc'[w] \notin Preparation
      BY <2>1, Apart
    <2>5. pc'[w] \in {"read", "claim"} /\ ctx'[w].version = item.version => item.date # "future"
      BY <2>1, <2>2
    <2> QED
      BY <1>0, <1>t, <1>e, <2>1, <2>2, <2>3, <2>4, <2>5, Own
  <1>2. CASE PollImages(w)
    <2>1. UNCHANGED <<item, google, calls, unanswered, preparer, jobs>> /\ pc'[w] = "prepLock"
      BY <1>0, <1>2 DEF PollImages, PcTyped, Goto
    <2>2. ctx'[w].version = item.version
      BY <1>0, <1>2 DEF PollImages, CtxTyped, Context
    <2>3. pc'[w] \notin Publishing /\ pc'[w] \notin Preparation
      BY <2>1, Apart
    <2> QED
      BY <1>0, <1>t, <1>e, <1>j, <2>1, <2>2, <2>3, Own
  <1>3. CASE FinishJob(w)
    <2>1. UNCHANGED <<item, google, calls, unanswered, preparer, ctx>> /\ pc'[w] = "idle"
      BY <1>0, <1>3 DEF FinishJob, PcTyped, Goto
    <2>2. \A k \in Keys : jobs'[k].version \in {0, jobs[k].version}
      BY <1>3, JobType DEF FinishJob
    <2>3. pc'[w] \notin Publishing /\ pc'[w] \notin Preparation
      BY <2>1, Apart
    <2> QED
      BY <1>0, <1>t, <1>e, <2>1, <2>2, <2>3, Own
  <1>4. CASE Read(w)
    <2>0. UNCHANGED <<item, google, calls, unanswered, preparer, jobs>>
      BY <1>4 DEF Read
    <2>1. CASE End(w)
      BY <1>t, <1>e, <1>f, <1>j, <2>0, <2>1, Own
    <2>2. CASE Goto(w, "claim") /\ ctx' = [ctx EXCEPT ![w].seen = item.status]
      <3>1. pc[w] = "read" /\ pc'[w] = "claim"
        BY <1>0, <1>4, <2>2 DEF PcTyped, Goto, Read
      <3>2. ctx'[w].version = ctx[w].version
        BY <1>0, <2>2 DEF CtxTyped, Context
      <3>3. pc'[w] \notin Publishing /\ pc'[w] \notin Preparation
        BY <3>1, Apart
      <3>4. ctx'[w].version = item.version => item.date # "future"
        BY <3>1, <3>2 DEF IInv, Punctual
      <3> QED
        BY <1>0, <1>t, <1>e, <1>j, <2>0, <3>1, <3>2, <3>3, <3>4, Own
    <2> QED
      BY <1>4, <2>1, <2>2 DEF Read
  <1>5. CASE Claim(w)
    <2>1. CASE ~Claimable(w)
      <3>1. UNCHANGED <<item, google, calls, unanswered, preparer, jobs>> /\ End(w)
        BY <1>5, <2>1 DEF Claim
      <3> QED
        BY <1>t, <1>e, <1>f, <1>j, <3>1, Own
    <2>2. CASE Claimable(w)
      <3> DEFINE next == [item EXCEPT !.status = IF item.video # None THEN "processing"
                                                 ELSE "uploading"]
                 d == [IdleCtx EXCEPT !.mine = Copy(next)]
      <3>1. /\ Overlap /\ item' = next /\ ctx' = [ctx EXCEPT ![w] = d] /\ Goto(w, "authenticate")
            /\ UNCHANGED <<youtube, jobs, people, preparer, faults>>
        BY <1>5, <2>2 DEF Claim
      <3>2. /\ next \in Row /\ next.status \in {"uploading", "processing"}
            /\ \A f \in Lasting \cup {"version", "date"} : next[f] = item[f]
        BY <1>0 DEF Row, Statuses, Lasting
      <3>3. /\ Copy(next).session = next.session /\ Copy(next).video = next.video
            /\ Copy(next).unknown = next.unknown /\ Copy(next) \in Mine
        BY <3>2, Copied
      <3>4. d.mine = Copy(next) /\ d.version = 0 /\ d.error = "none"
        BY DEF IdleCtx
      <3> HIDE DEF next, d
      <3>5. pc'[w] = "authenticate" /\ ctx'[w] = d
        BY <1>0, <3>1 DEF PcTyped, CtxTyped, Goto
      <3>6. Nobody
        BY <1>0, <3>1, Unobserved
      <3>7. item.date # "future"
        <4>1. pc[w] = "claim" /\ item.version = ctx[w].version
          BY <1>5, <2>2 DEF Claim, Claimable
        <4> QED
          BY <4>1 DEF IInv, Punctual
      <3>8. Agrees(w)'
        BY <3>1, <3>2, <3>3, <3>4, <3>5, <3>7 DEF Agrees, Sending, Lasting, Transfer
      <3>9. /\ VideoStep /\ Started' \subseteq {item'.session} /\ (unanswered' => item'.unknown)
            /\ PublishedProcessed' /\ item'.version = item.version /\ item'.date = item.date
            /\ item'.status # "preparing"
        BY <1>s, <3>1, <3>2 DEF VideoStep, Started, PublishedProcessed, Lasting
      <3>10. pc'[w] \notin Preparation /\ pc'[w] \notin {"read", "claim"} /\ ctx'[w].version <= item.version
        BY <1>0, <3>4, <3>5 DEF Preparation
      <3> QED
        BY <1>t, <1>j, <3>1, <3>5, <3>6, <3>8, <3>9, <3>10, Own
    <2> QED
      BY <2>1, <2>2
  <1>6. CASE PrepareLock(w)
    <2>0. UNCHANGED <<item, google, calls, unanswered, jobs>> /\ preparer = None
      BY <1>6 DEF PrepareLock
    <2>1. CASE End(w)
      BY <1>t, <1>e, <1>f, <1>j, <2>0, <2>1, Own
    <2>2. CASE preparer' = w /\ Goto(w, "prepClaim") /\ UNCHANGED ctx
      <3>1. pc'[w] = "prepClaim"
        BY <1>0, <2>2 DEF PcTyped, Goto
      <3>2. pc'[w] \notin Publishing /\ pc'[w] \notin {"read", "claim"}
        BY <3>1 DEF Publishing
      <3>3. Prepares(w)'
        BY <2>2, <3>1 DEF Prepares
      <3> QED
        BY <1>0, <1>t, <1>e, <1>j, <2>0, <2>2, <3>2, <3>3, Own
    <2> QED
      BY <1>6, <2>1, <2>2 DEF PrepareLock
  <1>7. ASSUME pc[w] \in Preparation PROVE preparer = w
    BY <1>7 DEF IInv, Prepares
  <1>8. CASE PrepareClaim(w)
    <2>0. UNCHANGED <<google, calls, unanswered, jobs>> /\ preparer = w
      BY <1>7, <1>8 DEF PrepareClaim, Preparation
    <2>1. CASE ~Preparable(w)
      <3>1. End(w) /\ UNCHANGED item
        BY <1>8, <2>1 DEF PrepareClaim
      <3> QED
        BY <1>t, <1>e, <1>f, <1>j, <2>0, <3>1, Own
    <2>2. CASE Preparable(w)
      <3>1. /\ item' = [item EXCEPT !.status = "preparing"] /\ UNCHANGED preparer
            /\ ctx' = [ctx EXCEPT ![w].mine = Copy(item)] /\ Goto(w, "prepInspect")
        BY <1>8, <2>2 DEF PrepareClaim
      <3>2. pc'[w] = "prepInspect" /\ ctx'[w].mine = Copy(item) /\ ctx'[w].version = ctx[w].version
        BY <1>0, <3>1 DEF PcTyped, CtxTyped, Goto, Context
      <3>3. \A f \in Lasting \cup {"version", "date"} : item'[f] = item[f]
        BY <1>0, <3>1 DEF Row, Lasting
      <3>4. item'.status = "preparing"
        BY <1>0, <3>1 DEF Row
      <3>5. Nobody
        BY <2>2 DEF Preparable, IInv, Agrees, Sending, Nobody
      <3>6. pc'[w] \notin Publishing /\ pc'[w] \notin {"read", "claim"}
        BY <3>2 DEF Publishing
      <3>7. Prepares(w)'
        BY <1>0, <2>0, <3>1, <3>2, <3>3, Copied DEF Prepares, Lasting
      <3>8. /\ VideoStep /\ Started' \subseteq {item'.session} /\ (unanswered' => item'.unknown)
            /\ PublishedProcessed' /\ item'.version = item.version /\ item'.date = item.date
        BY <1>s, <2>0, <3>3, <3>4 DEF VideoStep, Started, PublishedProcessed, Lasting
      <3> QED
        BY <1>0, <1>t, <1>j, <2>0, <3>1, <3>2, <3>5, <3>6, <3>7, <3>8, Own
    <2> QED
      BY <2>1, <2>2
  <1>9. ASSUME pc[w] \in Preparation \ {"prepClaim"}, StillPreparing(w), NEW next \in Mine,
               next.unknown = ctx[w].mine.unknown, NEW status \in Statuses, status # "published",
               item' = [WithSettings(item, next) EXCEPT !.status = status], UNCHANGED <<google, unanswered>>
        PROVE  /\ Nobody /\ VideoStep /\ Started' \subseteq {item'.session} /\ (unanswered' => item'.unknown)
               /\ PublishedProcessed' /\ item'.version = item.version /\ item'.date = item.date
               /\ item'.status = status /\ item'.unknown = item.unknown
    <2>1. next.unknown = item.unknown
      BY <1>9 DEF IInv, Prepares
    <2>2. Nobody
      BY <1>9 DEF StillPreparing, IInv, Agrees, Sending, Nobody
    <2> DEFINE row == WithSettings(item, next)
    <2>3. /\ row \in Row /\ row.version = item.version /\ row.date = item.date
          /\ row.session = item.session /\ row.video = item.video /\ row.unknown = item.unknown
      BY <1>0, <1>9, <2>1, Written
    <2>4. item' = [row EXCEPT !.status = status]
      BY <1>9
    <2> HIDE DEF row
    <2>5. /\ item'.version = item.version /\ item'.date = item.date /\ item'.status = status
          /\ item'.session = item.session /\ item'.video = item.video /\ item'.unknown = item.unknown
      BY <2>3, <2>4 DEF Row
    <2> QED
      BY <1>s, <1>9, <2>2, <2>5 DEF VideoStep, Started, PublishedProcessed
  <1>10. CASE PrepareInspect(w)
    <2>0. pc[w] = "prepInspect" /\ UNCHANGED <<google, calls, unanswered, jobs, preparer>>
      BY <1>10 DEF PrepareInspect
    <2>p. pc[w] \in Preparation \ {"prepClaim"}
      BY <2>0 DEF Preparation
    <2>1. PICK next \in Mine, step \in {"prepFailed", "prepLater", "prepReady"} :
            /\ next.unknown = ctx[w].mine.unknown
            /\ ctx' = [ctx EXCEPT ![w].mine = next] /\ Goto(w, step)
            /\ item' = IF StillPreparing(w) THEN WithSettings(item, next) ELSE item
      <3> DEFINE mine == ctx[w].mine
                 cleared == [mine EXCEPT !.remote = 0, !.media = FALSE]
                 checked == [cleared EXCEPT !.remote = source, !.changed = FALSE]
                 ends == {<<mine, "prepFailed">>, <<cleared, "prepFailed">>, <<checked, "prepFailed">>,
                          <<checked, "prepLater">>, <<checked, "prepReady">>}
      <3>1. source \in 0 .. MaxSource /\ 0 \in 0 .. MaxSource
        BY <1>0, UploadConstants DEF TypeOK, Versions
      <3>2. cleared \in Mine /\ cleared.unknown = mine.unknown
        BY <1>0, <3>1 DEF Mine
      <3>3. checked \in Mine /\ checked.unknown = mine.unknown
        BY <3>1, <3>2 DEF Mine
      <3>4. PICK end \in ends :
              /\ ctx' = [ctx EXCEPT ![w].mine = end[1]] /\ Goto(w, end[2])
              /\ item' = IF StillPreparing(w) THEN WithSettings(item, end[1]) ELSE item
        BY <1>10 DEF PrepareInspect
      <3>6. mine \in Mine
        BY <1>0
      <3> HIDE DEF mine, cleared, checked
      <3>5. end[1] \in Mine /\ end[1].unknown = mine.unknown
            /\ end[2] \in {"prepFailed", "prepLater", "prepReady"}
        BY <3>2, <3>3, <3>6
      <3> QED
        BY <3>4, <3>5 DEF mine
    <2>2. pc'[w] = step /\ ctx'[w].mine = next /\ ctx'[w].version = ctx[w].version
      BY <1>0, <2>1 DEF PcTyped, CtxTyped, Goto, Context
    <2>3. pc'[w] \notin Publishing /\ pc'[w] \notin {"read", "claim"} /\ pc'[w] # "prepClaim"
      BY <2>2 DEF Publishing
    <2>4. CASE StillPreparing(w)
      <3>1. item' = [WithSettings(item, next) EXCEPT !.status = "preparing"]
        <4>1. WithSettings(item, next) \in Row /\ WithSettings(item, next).status = "preparing"
          BY <1>0, <2>4, Written DEF StillPreparing
        <4> QED
          BY <2>1, <2>4, <4>1 DEF Row
      <3>2. /\ Nobody /\ VideoStep /\ Started' \subseteq {item'.session} /\ (unanswered' => item'.unknown)
            /\ PublishedProcessed' /\ item'.version = item.version /\ item'.date = item.date
            /\ item'.unknown = item.unknown
        BY <1>9, <2>0, <2>p, <2>1, <2>4, <3>1 DEF Statuses
      <3>3. Prepares(w)'
        <4>1. next.unknown = item.unknown
          BY <2>0, <2>p, <2>1, <2>4 DEF IInv, Prepares
        <4> QED
          BY <1>7, <2>0, <2>p, <2>2, <3>2, <4>1 DEF Prepares
      <3> QED
        BY <1>0, <1>t, <1>j, <1>7, <2>0, <2>p, <2>2, <2>3, <3>2, <3>3, Own
    <2>5. CASE ~StillPreparing(w)
      <3>1. UNCHANGED item
        BY <2>1, <2>5
      <3>2. Prepares(w)'
        BY <1>7, <2>0, <2>p, <2>2, <2>5, <3>1 DEF Prepares, StillPreparing
      <3> QED
        BY <1>0, <1>t, <1>e, <1>j, <2>0, <2>2, <2>3, <3>1, <3>2, Own
    <2> QED
      BY <2>4, <2>5
  <1>11. CASE PrepareEnd(w)
    <2>0. End(w) /\ UNCHANGED <<google, calls, unanswered, jobs>>
      BY <1>11 DEF PrepareEnd
    <2>1. pc[w] \in Preparation \ {"prepClaim"}
      BY <1>11 DEF PrepareEnd, Preparation
    <2>2. CASE StillPreparing(w)
      <3>1. Prepared(w) \in {"waiting_approval", "waiting_video", "failed"}
        BY DEF Prepared
      <3>2. item' = [WithSettings(item, ctx[w].mine) EXCEPT !.status = Prepared(w)]
        BY <1>11, <2>2 DEF PrepareEnd
      <3>3. Prepared(w) \in Statuses /\ Prepared(w) # "published" /\ Prepared(w) # "preparing"
        BY <3>1 DEF Statuses
      <3>4. /\ Nobody /\ VideoStep /\ Started' \subseteq {item'.session} /\ (unanswered' => item'.unknown)
            /\ PublishedProcessed' /\ item'.version = item.version /\ item'.date = item.date
            /\ item'.status = Prepared(w)
        BY <1>0, <1>9, <2>0, <2>1, <2>2, <3>2, <3>3
      <3> QED
        BY <1>t, <1>f, <1>j, <1>7, <2>0, <2>1, <3>4, Own
    <2>3. CASE ~StillPreparing(w)
      <3>1. UNCHANGED item
        BY <1>11, <2>3 DEF PrepareEnd
      <3> QED
        BY <1>t, <1>e, <1>f, <1>j, <1>7, <2>0, <2>1, <3>1, Own
    <2> QED
      BY <2>2, <2>3
  <1> QED
    BY <1>1, <1>2, <1>3, <1>4, <1>5, <1>6, <1>8, <1>10, <1>11

(* What an executor's step of the publication starts from. *)
LEMMA Executor ==
  ASSUME IInv, NEW w \in Workers, pc[w] \in Publishing
  PROVE  /\ TypeOK /\ Agrees(w) /\ item \in Row /\ ctx[w] \in Context /\ ctx[w].mine \in Mine
         /\ PcTyped /\ CtxTyped /\ GoogleTyped /\ item.status \in {"uploading", "processing"}
         /\ Started \subseteq {item.session} /\ None \notin Sessions
         /\ pc[w] \in Transfer => ctx[w].mine.session \in Sessions
  <1>1. TypeOK /\ Agrees(w) /\ Started \subseteq {item.session}
    BY DEF IInv
  <1>2. ctx[w] \in Context /\ ctx[w].mine \in Mine /\ item \in Row
    BY <1>1 DEF TypeOK, Context
  <1> QED
    BY <1>1, <1>2, UploadConstants DEF TypeOK, PcTyped, CtxTyped, GoogleTyped, Agrees, Sending, Mine

(* An error before a session is asked for, or after it is stored. *)
LEMMA Throws ==
  ASSUME IInv, NEW w \in Workers, TypeOK', pc[w] \in Publishing \ {"saveSession", "saveVideo"},
         NEW error \in {"error", "ambiguous", "changed"}, error = "ambiguous" => pc[w] = "post",
         Throw(w, error), \A f \in Lasting \cup {"version", "date", "status"} : item'[f] = item[f],
         UNCHANGED <<jobs, calls, preparer, unanswered>>, Started' \subseteq {item.session}
  PROVE  IInv' /\ VideoStep
  <1>0. /\ TypeOK /\ Agrees(w) /\ item \in Row /\ PcTyped /\ CtxTyped
        /\ item.status \in {"uploading", "processing"}
    BY Executor
  <1>1. /\ Stand(w) /\ pc'[w] = "fail" /\ ctx'[w].mine = ctx[w].mine
        /\ ctx'[w].version = ctx[w].version /\ ctx'[w].error = error
    BY <1>0, ThrowType
  <1>2. Agrees(w)'
    BY <1>0, <1>1 DEF Agrees, Sending, Transfer, Lasting
  <1>3. \A f \in {"version", "date", "unknown"} : item'[f] = item[f]
    BY DEF Lasting
  <1> QED
    BY <1>0, <1>1, <1>2, <1>3, Proceeds DEF Publishing, Lasting, VideoStep

(* The upload. *)
LEMMA UploadKeeps ==
  ASSUME IInv, NEW w \in Workers, Upload(w)
  PROVE  IInv' /\ VideoStep
  <1> DEFINE c == ctx[w]
             mine == ctx[w].mine
  <1>p. pc[w] \in {"source", "post"} \cup Transfer /\ pc[w] \in Publishing
    BY DEF Upload, UploadStep, CheckSource, PostSession, SaveSession, PutBlocked, PutLost, PutRefused,
       PutContinue, SaveMoved, PutDone, SaveVideo, Transfer, Publishing
  <1>0. /\ TypeOK /\ Agrees(w) /\ item \in Row /\ c \in Context /\ mine \in Mine /\ PcTyped /\ CtxTyped
        /\ GoogleTyped /\ item.status \in {"uploading", "processing"} /\ Started \subseteq {item.session}
        /\ (pc[w] \in Transfer => mine.session \in Sessions) /\ None \notin Sessions
    BY <1>p, Executor
  <1>t. TypeOK' /\ Stand(w) /\ pc'[w] \in Publishing
    BY <1>0, UploadType DEF Upload
  <1>u. UNCHANGED <<jobs, calls, agreed, preparer, unanswered, collection, source>>
    BY DEF Upload, UploadStep, people, CheckSource, PostSession, SaveSession, PutBlocked, PutLost,
       PutRefused, PutContinue, SaveMoved, PutDone, SaveVideo
  <1>v. item.video = None /\ mine.unknown = item.unknown
    BY <1>0, <1>p DEF Agrees
  <1>vs. VideoStep
    BY <1>v DEF VideoStep
  <1>w. ASSUME NEW next \in Mine, next.unknown = mine.unknown, item' = WithSettings(item, next)
        PROVE  \A f \in {"version", "date", "unknown", "status", "session", "video"} : item'[f] = item[f]
    BY <1>0, <1>v, <1>w, Written
  <1>e. ASSUME UNCHANGED google, item'.session = item.session PROVE Started' \subseteq {item'.session}
    BY <1>0, <1>e DEF Started
  <1>g. ASSUME pc[w] \in Transfer \ {"saveSession"}, NEW g, google' = [google EXCEPT ![mine.session] = g]
        PROVE  Started' \subseteq {item.session}
    <2>1. mine.session = item.session
      BY <1>0, <1>g DEF Agrees, Transfer
    <2> QED
      BY <1>0, <1>g, <2>1 DEF Started, GoogleTyped
  <1>1. CASE CheckSource(w)
    <2> DEFINE next == [mine EXCEPT !.remote = IF collection THEN source ELSE @,
                                    !.media = IF collection THEN FALSE ELSE @]
    <2>0. pc[w] = "source" /\ UNCHANGED google
      BY <1>1 DEF CheckSource
    <2>1. next.session = mine.session /\ next.video = mine.video /\ next.unknown = mine.unknown /\ next.cover = mine.cover
      BY <1>0 DEF Mine
    <2>2. next \in Mine
      <3>1. source \in 0 .. MaxSource
        BY <1>0, UploadConstants DEF TypeOK, Versions
      <3> QED
        BY <1>0, <3>1 DEF Mine
    <2>3. ASSUME NEW e \in {"error", "changed"}, Throw(w, e), UNCHANGED item PROVE IInv'
      BY <1>0, <1>t, <1>u, <1>e, <1>p, <2>0, <2>3, Throws
    <2>4. ASSUME ~mine.unknown, item' = WithSettings(item, next),
                 ctx' = [ctx EXCEPT ![w].mine = next, ![w].probe = mine.session # None],
                 Goto(w, IF mine.session = None THEN "post" ELSE "put")
          PROVE  IInv'
      <3>1. ctx'[w].mine = next /\ ctx'[w].version = c.version
        BY <1>0, <2>4 DEF CtxTyped, Context
      <3>2. pc'[w] = IF mine.session = None THEN "post" ELSE "put"
        BY <1>0, <2>4 DEF PcTyped, Goto
      <3>3. \A f \in {"version", "date", "unknown", "status", "session", "video"} : item'[f] = item[f]
        BY <1>w, <2>1, <2>2, <2>4
      <3>4. mine.session = item.session /\ mine.video = item.video
        BY <1>0, <2>0 DEF Agrees
      <3> HIDE DEF next
      <3>5. Agrees(w)'
        BY <1>0, <1>v, <2>1, <2>4, <3>1, <3>2, <3>3, <3>4 DEF Agrees, Sending, Transfer
      <3>6. Started' \subseteq {item'.session}
        BY <1>e, <2>0, <3>3
      <3> QED
        BY <1>0, <1>p, <1>t, <1>u, <3>1, <3>3, <3>5, <3>6, Proceeds
    <2> QED
      BY <1>1, <1>vs, <2>3, <2>4 DEF CheckSource
  <1>2. CASE PostSession(w)
    <2>0. pc[w] = "post" /\ UNCHANGED item
      BY <1>2 DEF PostSession
    <2>1. ASSUME NEW e \in {"error", "ambiguous"}, Throw(w, e), UNCHANGED google PROVE IInv'
      BY <1>0, <1>t, <1>u, <1>e, <1>p, <2>0, <2>1, Throws
    <2>2. ASSUME NEW s \in Sessions,
                 google' = [google EXCEPT ![s] = [Unopened EXCEPT !.rev = mine.rev]],
                 ctx' = [ctx EXCEPT ![w].mine = [@ EXCEPT !.session = s, !.uri = 0]],
                 Goto(w, "saveSession")
          PROVE  IInv'
      <3>1. ctx'[w].mine = [mine EXCEPT !.session = s, !.uri = 0] /\ ctx'[w].version = c.version
        BY <1>0, <2>2 DEF CtxTyped, Context
      <3>2. ctx'[w].mine.video = mine.video /\ ctx'[w].mine.unknown = mine.unknown
        BY <1>0, <3>1 DEF Mine
      <3>3. pc'[w] = "saveSession"
        BY <1>0, <2>2 DEF PcTyped, Goto
      <3>4. item.session = None /\ mine.video = item.video
        BY <1>0, <2>0 DEF Agrees
      <3>5. Agrees(w)'
        BY <1>0, <1>v, <2>0, <3>2, <3>3, <3>4 DEF Agrees, Sending, Transfer
      <3>6. Started' \subseteq {item'.session}
        BY <1>0, <2>0, <2>2 DEF Started, Unopened, GoogleTyped
      <3> QED
        BY <1>0, <1>p, <1>t, <1>u, <2>0, <3>1, <3>5, <3>6, Proceeds
    <2> QED
      BY <1>2, <1>vs, <2>1, <2>2 DEF PostSession
  <1>3. CASE SaveSession(w)
    <2>1. /\ item' = [item EXCEPT !.session = mine.session, !.uri = mine.uri]
          /\ UNCHANGED <<google, ctx>> /\ pc[w] = "saveSession" /\ pc'[w] = "put"
      BY <1>0, <1>3 DEF SaveSession, PcTyped, Goto
    <2>2. /\ \A f \in {"version", "date", "unknown", "status", "video"} : item'[f] = item[f]
          /\ item'.session = mine.session
      BY <1>0, <2>1 DEF Row
    <2>3. Agrees(w)'
      BY <1>0, <1>v, <2>1, <2>2 DEF Agrees, Sending, Transfer
    <2>4. Started' \subseteq {item'.session}
      <3>1. item.session = None
        BY <1>0, <2>1 DEF Agrees
      <3> QED
        BY <1>0, <2>1, <3>1 DEF Started
    <2> QED
      BY <1>0, <1>p, <1>t, <1>u, <1>vs, <2>1, <2>2, <2>3, <2>4, Proceeds
  <1>4. CASE PutBlocked(w) \/ PutRefused(w)
    <2>1. /\ \E e \in {"error", "changed"} : Throw(w, e)
          /\ UNCHANGED <<google, item>> /\ pc[w] = "put"
      BY <1>4 DEF PutBlocked, PutRefused
    <2> QED
      BY <1>0, <1>t, <1>u, <1>e, <1>p, <1>vs, <2>1, Throws
  <1>r. ASSUME pc[w] \in {"put", "saveMoved"}, pc'[w] \in {"put", "fail", "saveMoved"},
               ctx'[w].version = c.version,
               \A f \in {"session", "video", "unknown"} : ctx'[w].mine[f] = mine[f],
               \A f \in {"version", "date", "unknown", "status", "session", "video"} : item'[f] = item[f],
               Started' \subseteq {item.session}, pc'[w] = "fail" => ctx'[w].error # "ambiguous"
        PROVE  IInv'
    <2>1. mine.session = item.session /\ mine.video = item.video
      BY <1>0, <1>r DEF Agrees
    <2>2. Agrees(w)'
      BY <1>0, <1>v, <1>r, <2>1 DEF Agrees, Sending, Transfer
    <2>3. Started' \subseteq {item'.session} /\ item'.status \in {"uploading", "processing"}
      BY <1>0, <1>r
    <2> QED
      BY <1>0, <1>p, <1>t, <1>u, <1>r, <2>2, <2>3, Proceeds
  <1>5. CASE PutLost(w)
    <2>1. pc[w] = "put" /\ UNCHANGED item /\ Recover(w, c)
      BY <1>5 DEF PutLost
    <2>2. /\ pc'[w] \in {"put", "fail"} /\ ctx'[w].mine = mine /\ ctx'[w].version = c.version
          /\ pc'[w] = "fail" => ctx'[w].error = "error"
      BY <1>0, <2>1, RecoverType
    <2>3. Started' \subseteq {item.session}
      BY <1>5, <1>g, <2>1 DEF PutLost, Transfer
    <2> QED
      BY <1>r, <1>vs, <2>1, <2>2, <2>3
  <1>6. CASE PutContinue(w)
    <2>0. pc[w] = "put"
      BY <1>6 DEF PutContinue
    <2>1. PICK g \in Served(w), moved \in {0, 1} :
            LET d == [c EXCEPT !.mine.uri = @ + moved, !.offset = g.received, !.probe = FALSE]
                stays == IF Querying(c) THEN g.received = Chunks ELSE g.received = c.offset
            IN \/ google' = [google EXCEPT ![mine.session] = g] /\ Throw(w, "error") /\ UNCHANGED item
               \/ /\ google' = [google EXCEPT ![mine.session] = [g EXCEPT !.uri = @ + moved]]
                  /\ mine.uri + moved <= MaxRotations
                  /\ \/ Recover(w, d) \/ Tell(w, d, "put")
                     \/ Tell(w, [d EXCEPT !.stays = stays], "saveMoved")
                  /\ item' = WithSettings(item, mine)
      BY <1>6 DEF PutContinue
    <2>2. Started' \subseteq {item.session}
      <3>1. \/ google' = [google EXCEPT ![mine.session] = g]
            \/ google' = [google EXCEPT ![mine.session] = [g EXCEPT !.uri = @ + moved]]
        BY <2>1
      <3> QED
        BY <1>g, <2>0, <3>1 DEF Transfer
    <2>3. CASE Throw(w, "error") /\ UNCHANGED item
      BY <1>0, <1>t, <1>u, <1>p, <1>vs, <2>0, <2>2, <2>3, Throws
    <2>4. CASE ~(Throw(w, "error") /\ UNCHANGED item)
      <3> DEFINE m == [mine EXCEPT !.uri = @ + moved]
                 e == [c EXCEPT !.mine = m]
                 d == [c EXCEPT !.mine.uri = @ + moved, !.offset = g.received, !.probe = FALSE]
                 stays == IF Querying(c) THEN g.received = Chunks ELSE g.received = c.offset
                 f == [d EXCEPT !.stays = stays]
      <3>0. /\ item' = WithSettings(item, mine) /\ mine.uri + moved <= MaxRotations
            /\ \/ Recover(w, d) \/ Tell(w, d, "put") \/ Tell(w, f, "saveMoved")
        BY <2>1, <2>4
      <3>1. mine.uri + moved \in 0 .. MaxRotations
        BY <1>0, <3>0, UploadConstants DEF Mine
      <3>2. m \in Mine /\ m.session = mine.session /\ m.video = mine.video /\ m.unknown = mine.unknown
        BY <1>0, <3>1 DEF Mine
      <3> HIDE DEF m
      <3>3. e \in Context /\ e.mine = m /\ e.version = c.version
        BY <1>0, <3>2, MineType DEF Context
      <3>4. d = [e EXCEPT !.offset = g.received, !.probe = FALSE]
        BY <1>0 DEF Context, Mine, m
      <3>5. g.received \in 0 .. Chunks /\ stays \in BOOLEAN
        BY <1>0, <2>0, ServedType DEF UploadState, Transfer
      <3> HIDE DEF e, d, stays
      <3>6. d \in Context /\ d.mine = m /\ d.version = c.version
        BY <3>3, <3>4, <3>5 DEF Context
      <3>7. f \in Context /\ f.mine = m /\ f.version = c.version
        BY <3>5, <3>6 DEF Context
      <3> HIDE DEF f
      <3>8. /\ pc'[w] \in {"put", "fail", "saveMoved"} /\ ctx'[w].mine = m /\ ctx'[w].version = c.version
            /\ pc'[w] = "fail" => ctx'[w].error = "error"
        <4>1. CASE Recover(w, d)
          BY <1>0, <3>6, <4>1, RecoverType
        <4>2. CASE Tell(w, d, "put")
          BY <1>0, <3>6, <4>2, TellType DEF Steps, Publishing
        <4>3. CASE Tell(w, f, "saveMoved")
          BY <1>0, <3>7, <4>3, TellType DEF Steps, Publishing
        <4> QED
          BY <3>0, <4>1, <4>2, <4>3
      <3>9. \A h \in {"version", "date", "unknown", "status", "session", "video"} : item'[h] = item[h]
        BY <1>0, <1>w, <3>0
      <3> QED
        BY <1>r, <1>vs, <2>0, <2>2, <3>2, <3>8, <3>9
    <2> QED
      BY <2>3, <2>4
  <1>7. CASE SaveMoved(w)
    <2> DEFINE d == [c EXCEPT !.stays = FALSE]
    <2>0. /\ pc[w] = "saveMoved" /\ UNCHANGED google
          /\ item' = [item EXCEPT !.session = mine.session, !.uri = mine.uri]
          /\ Recover(w, d) \/ Tell(w, d, "put")
      BY <1>7 DEF SaveMoved
    <2>1. d \in Context /\ d.mine = mine /\ d.version = c.version
      BY <1>0 DEF Context
    <2> HIDE DEF d
    <2>2. /\ pc'[w] \in {"put", "fail"} /\ ctx'[w].mine = mine /\ ctx'[w].version = c.version
          /\ pc'[w] = "fail" => ctx'[w].error = "error"
      <3>1. CASE Recover(w, d)
        BY <1>0, <2>1, <3>1, RecoverType
      <3>2. CASE Tell(w, d, "put")
        BY <1>0, <2>1, <3>2, TellType DEF Steps, Publishing
      <3> QED
        BY <2>0, <3>1, <3>2
    <2>3. mine.session = item.session
      BY <1>0, <2>0 DEF Agrees
    <2>4. \A f \in {"version", "date", "unknown", "status", "session", "video"} : item'[f] = item[f]
      BY <1>0, <2>0, <2>3 DEF Row
    <2>5. Started' \subseteq {item.session}
      BY <1>e, <2>0, <2>4
    <2> QED
      BY <1>r, <1>vs, <2>0, <2>2, <2>4, <2>5
  <1>8. CASE PutDone(w)
    <2>0. pc[w] = "put" /\ UNCHANGED item
      BY <1>8 DEF PutDone
    <2>1. Started' \subseteq {item.session}
      BY <1>8, <1>g, <2>0 DEF PutDone, Transfer
    <2>2. CASE Throw(w, "error")
      BY <1>0, <1>t, <1>u, <1>p, <1>vs, <2>0, <2>1, <2>2, Throws
    <2>3. CASE Tell(w, [After(c) EXCEPT !.mine.video = mine.session], "saveVideo")
      <3>1. After(c) \in Context /\ After(c).mine = mine /\ After(c).version = c.version
        BY <1>0, AfterType
      <3>2. ctx'[w] = [After(c) EXCEPT !.mine.video = mine.session] /\ pc'[w] = "saveVideo"
        BY <1>0, <2>3 DEF Tell, Goto, PcTyped, CtxTyped
      <3>3. ctx'[w].mine = [mine EXCEPT !.video = mine.session] /\ ctx'[w].version = c.version
        BY <3>1, <3>2 DEF Context
      <3>4. /\ ctx'[w].mine.session = mine.session /\ ctx'[w].mine.video = mine.session
            /\ ctx'[w].mine.unknown = mine.unknown /\ mine.session # None
        BY <1>0, <2>0, <3>3 DEF Mine, Transfer
      <3>5. Agrees(w)'
        BY <1>0, <1>v, <2>0, <3>2, <3>4 DEF Agrees, Sending, Transfer
      <3> QED
        BY <1>0, <1>p, <1>t, <1>u, <1>vs, <2>0, <2>1, <3>3, <3>4, <3>5, Proceeds
    <2> QED
      BY <1>8, <2>2, <2>3 DEF PutDone
  <1>9. CASE SaveVideo(w)
    <2> DEFINE row == WithSettings(item, mine)
    <2>0. /\ pc[w] = "saveVideo" /\ pc'[w] = "processing" /\ UNCHANGED <<google, ctx>>
          /\ item' = [row EXCEPT !.video = mine.video]
      BY <1>0, <1>9 DEF SaveVideo, PcTyped, Goto
    <2>1. /\ row \in Row
          /\ \A f \in {"version", "date", "status", "session"} : row[f] = item[f]
          /\ row.unknown = item.unknown
      BY <1>0, <1>v, Written
    <2> HIDE DEF row
    <2>2. /\ \A f \in {"version", "date", "status", "session", "unknown"} : item'[f] = item[f]
          /\ item'.video = mine.video
      BY <2>0, <2>1 DEF Row
    <2>3. Agrees(w)'
      BY <1>0, <1>v, <2>0, <2>2 DEF Agrees, Sending, Transfer
    <2>4. Started' \subseteq {item'.session}
      BY <1>e, <2>0, <2>2
    <2> QED
      BY <1>0, <1>p, <1>t, <1>u, <1>vs, <2>0, <2>2, <2>3, <2>4, Proceeds
  <1> QED
    BY <1>1, <1>2, <1>3, <1>4, <1>5, <1>6, <1>7, <1>8, <1>9 DEF Upload, UploadStep

(* The publication around the upload. *)
LEMMA PublicationKeeps ==
  ASSUME IInv, NEW w \in Workers,
         \/ Authenticate(w) \/ MarkProcessing(w) \/ SetCover(w) \/ Poll(w) \/ AttachPlaylist(w)
         \/ MarkPublished(w) \/ Fail(w)
  PROVE  IInv' /\ VideoStep
  <1> DEFINE c == ctx[w]
             mine == ctx[w].mine
  <1>p. /\ pc[w] \in {"authenticate", "processing", "cover", "poll", "playlist", "publish", "fail"}
        /\ pc[w] \in Publishing
    BY DEF Authenticate, MarkProcessing, SetCover, Poll, AttachPlaylist, MarkPublished, Fail, Publishing
  <1>0. /\ TypeOK /\ Agrees(w) /\ item \in Row /\ c \in Context /\ mine \in Mine /\ PcTyped /\ CtxTyped
        /\ GoogleTyped /\ item.status \in {"uploading", "processing"} /\ Started \subseteq {item.session}
        /\ None \notin Sessions
    BY <1>p, Executor
  <1>t. TypeOK' /\ Stand(w)
    BY <1>0, WorkerType DEF WorkerStep
  <1>u. UNCHANGED <<jobs, calls, preparer>> /\ (pc[w] # "fail" => UNCHANGED unanswered)
    BY DEF people, youtube, Authenticate, MarkProcessing, SetCover, Poll, AttachPlaylist, MarkPublished, Fail
  <1>v. /\ mine.unknown = item.unknown /\ mine.session = item.session /\ mine.video = item.video
        /\ item.video \in Sessions \cup {None}
    BY <1>0, <1>p DEF Agrees, Row
  <1>e. ASSUME UNCHANGED google, item'.session = item.session PROVE Started' \subseteq {item'.session}
    BY <1>0, <1>e DEF Started
  <1>w. ASSUME NEW next \in Mine, next.unknown = mine.unknown, item' = WithSettings(item, next)
        PROVE  /\ \A f \in {"version", "date", "unknown", "status", "session", "video"} : item'[f] = item[f]
               /\ item'.cover = next.cover /\ VideoStep
    BY <1>0, <1>v, <1>w, Written DEF VideoStep
  <1>r. ASSUME pc'[w] \in Publishing, ctx'[w].version = c.version, Agrees(w)',
               \A f \in {"version", "date", "unknown", "session", "video"} : item'[f] = item[f],
               item'.status \in {"uploading", "processing"}, UNCHANGED unanswered, Started' \subseteq {item'.session}
        PROVE  IInv' /\ VideoStep
    BY <1>p, <1>t, <1>u, <1>r, Proceeds DEF VideoStep
  <1>1. CASE Authenticate(w)
    <2>0. /\ pc[w] = "authenticate" /\ UNCHANGED <<google, unanswered>>
          /\ item' = WithSettings(item, mine)
      BY <1>1 DEF Authenticate, youtube
    <2>1. \A f \in {"version", "date", "unknown", "status", "session", "video"} : item'[f] = item[f]
      BY <1>0, <1>w, <2>0
    <2>2. /\ pc'[w] \in {"fail", "source", "cover"} /\ ctx'[w].mine = mine /\ ctx'[w].version = c.version
          /\ pc'[w] = "fail" => ctx'[w].error = "error"
          /\ pc'[w] = "source" => mine.video = None
          /\ pc'[w] = "cover" => mine.video # None
      <3>1. CASE Throw(w, "error")
        BY <1>0, <3>1, ThrowType
      <3>2. CASE Goto(w, IF mine.video = None THEN "source" ELSE "cover") /\ UNCHANGED ctx
        BY <1>0, <3>2 DEF Goto, PcTyped
      <3> QED
        BY <1>1, <3>1, <3>2 DEF Authenticate
    <2>3. Agrees(w)'
      BY <1>0, <1>v, <2>0, <2>1, <2>2 DEF Agrees, Sending, Transfer
    <2>4. Started' \subseteq {item'.session}
      BY <1>e, <2>0, <2>1
    <2> QED
      BY <1>0, <1>r, <2>0, <2>1, <2>2, <2>3, <2>4 DEF Publishing
  <1>2. CASE MarkProcessing(w)
    <2>0. /\ pc[w] = "processing" /\ pc'[w] = "cover" /\ UNCHANGED <<google, unanswered, ctx>>
          /\ item' = [item EXCEPT !.status = "processing", !.video = mine.video]
      BY <1>0, <1>2 DEF MarkProcessing, youtube, PcTyped, Goto
    <2>1. /\ \A f \in {"version", "date", "unknown", "session", "video"} : item'[f] = item[f]
          /\ item'.status = "processing"
      BY <1>0, <1>v, <2>0 DEF Row
    <2>2. item.video # None
      BY <1>0, <2>0 DEF Agrees
    <2>3. Agrees(w)'
      BY <1>0, <1>v, <2>0, <2>1, <2>2 DEF Agrees, Sending, Transfer
    <2>4. Started' \subseteq {item'.session}
      BY <1>e, <2>0, <2>1
    <2> QED
      BY <1>0, <1>r, <2>0, <2>1, <2>3, <2>4 DEF Publishing
  <1>3. CASE SetCover(w)
    <2>0. pc[w] = "cover" /\ UNCHANGED <<google, unanswered>> /\ item.video # None
      BY <1>0, <1>3 DEF SetCover, youtube, Agrees
    <2>1. CASE Throw(w, "error") /\ UNCHANGED item
      BY <1>0, <1>t, <1>u, <1>p, <1>e, <2>0, <2>1, Throws
    <2>2. CASE /\ ctx' = [ctx EXCEPT ![w].mine.cover = TRUE] /\ Goto(w, "poll")
               /\ item' = WithSettings(item, [mine EXCEPT !.cover = TRUE])
      <3> DEFINE next == [mine EXCEPT !.cover = TRUE]
      <3>1. next \in Mine /\ next.session = mine.session /\ next.video = mine.video
            /\ next.unknown = mine.unknown /\ next.cover = TRUE
        BY <1>0 DEF Mine
      <3>2. ctx'[w].mine = next /\ ctx'[w].version = c.version /\ pc'[w] = "poll"
        BY <1>0, <2>2 DEF CtxTyped, Context, PcTyped, Goto
      <3>3. item' = WithSettings(item, next)
        BY <2>2
      <3> HIDE DEF next
      <3>4. /\ \A f \in {"version", "date", "unknown", "status", "session", "video"} : item'[f] = item[f]
            /\ item'.cover = TRUE
        BY <1>w, <3>1, <3>3
      <3>5. Agrees(w)'
        BY <1>0, <1>v, <2>0, <3>1, <3>2, <3>4 DEF Agrees, Sending, Transfer
      <3>6. Started' \subseteq {item'.session}
        BY <1>e, <2>0, <3>4
      <3> QED
        BY <1>0, <1>r, <2>0, <3>2, <3>4, <3>5, <3>6 DEF Publishing
    <2> QED
      BY <1>3, <2>1, <2>2 DEF SetCover
  <1>s. ASSUME NEW f \in {"video", "listed"}, NEW n, google' = [google EXCEPT ![mine.video][f] = n]
        PROVE  Started' = Started
    BY <1>0, <1>s DEF Started, GoogleTyped, UploadState
  <1>4. CASE Poll(w)
    <2>0. pc[w] = "poll" /\ UNCHANGED <<item, unanswered>> /\ item.video # None /\ mine.cover /\ item.cover
      BY <1>0, <1>4 DEF Poll, Agrees
    <2>1. CASE Throw(w, "error") /\ UNCHANGED google
      BY <1>0, <1>t, <1>u, <1>p, <1>e, <2>0, <2>1, Throws
    <2>2. CASE /\ google' = [google EXCEPT ![mine.video].video = "processed"]
               /\ Goto(w, "playlist") /\ UNCHANGED ctx
      <3>1. pc'[w] = "playlist"
        BY <1>0, <2>2 DEF PcTyped, Goto
      <3>2. google'[item.video].video = "processed"
        BY <1>0, <1>v, <2>0, <2>2 DEF GoogleTyped, UploadState
      <3>3. Agrees(w)'
        BY <1>0, <1>v, <2>0, <2>2, <3>1, <3>2 DEF Agrees, Sending, Transfer
      <3>4. Started' \subseteq {item'.session}
        BY <1>0, <1>s, <2>0, <2>2
      <3> QED
        BY <1>0, <1>r, <2>0, <2>2, <3>1, <3>3, <3>4 DEF Publishing
    <2> QED
      BY <1>4, <2>1, <2>2 DEF Poll
  <1>5. CASE AttachPlaylist(w)
    <2> DEFINE s == mine.video
               listed == IF google[s].listed > 0 THEN google ELSE [google EXCEPT ![s].listed = @ + 1]
    <2>0. /\ pc[w] = "playlist" /\ UNCHANGED unanswered /\ item.video # None /\ mine.cover /\ item.cover
          /\ google[s].video = "processed" /\ s \in Sessions /\ s = item.video
          /\ item' = WithSettings(item, mine)
      BY <1>0, <1>v, <1>5 DEF AttachPlaylist, Agrees
    <2>1. /\ \A f \in {"version", "date", "unknown", "status", "session", "video"} : item'[f] = item[f]
          /\ item'.cover
      BY <1>0, <1>w, <2>0
    <2>2. \/ Goto(w, "publish") /\ google' = listed /\ UNCHANGED ctx
          \/ Throw(w, "error") /\ google' \in {google, listed}
      BY <1>5 DEF AttachPlaylist, InPlaylist
    <2>3. listed[s].listed = 1 /\ listed[s].video = "processed"
      <3>1. google[s] \in UploadState /\ google[s].listed \in 0 .. 1
        BY <1>0, <2>0 DEF GoogleTyped, UploadState
      <3>2. CASE google[s].listed > 0
        BY <2>0, <3>1, <3>2
      <3>3. CASE ~(google[s].listed > 0)
        <4>1. google[s].listed = 0
          BY <3>1, <3>3
        <4> QED
          BY <1>0, <2>0, <3>1, <3>3, <4>1 DEF GoogleTyped, UploadState
      <3> QED
        BY <3>2, <3>3
    <2>4. Started' \subseteq {item'.session}
      <3>1. google' = google \/ google' = [google EXCEPT ![s].listed = google[s].listed + 1]
        BY <2>2
      <3>2. Started' = Started
        BY <1>s, <3>1 DEF Started
      <3> QED
        BY <1>0, <2>1, <3>2
    <2> HIDE DEF listed
    <2>5. CASE Goto(w, "publish") /\ google' = listed /\ UNCHANGED ctx
      <3>1. pc'[w] = "publish"
        BY <1>0, <2>5 DEF PcTyped, Goto
      <3>2. Agrees(w)'
        BY <1>0, <1>v, <2>0, <2>1, <2>3, <2>5, <3>1 DEF Agrees, Sending, Transfer
      <3> QED
        BY <1>0, <1>r, <2>0, <2>1, <2>4, <2>5, <3>1, <3>2 DEF Publishing
    <2>6. CASE Throw(w, "error")
      <3>1. pc'[w] = "fail" /\ ctx'[w].mine = mine /\ ctx'[w].version = c.version /\ ctx'[w].error = "error"
        BY <1>0, <2>6, ThrowType
      <3>2. Agrees(w)'
        BY <1>0, <1>v, <2>0, <2>1, <3>1 DEF Agrees, Sending, Transfer
      <3> QED
        BY <1>0, <1>r, <2>0, <2>1, <2>4, <3>1, <3>2 DEF Publishing
    <2> QED
      BY <2>2, <2>5, <2>6
  <1>f. ASSUME End(w), UNCHANGED google, item'.status \in {"published", "failed"},
               \A f \in {"version", "date", "unknown", "session", "video"} : item'[f] = item[f] \/ f = "unknown",
               unanswered' => item'.unknown, PublishedProcessed'
        PROVE  IInv' /\ VideoStep
    <2>1. pc'[w] = "finish" /\ ctx'[w] = IdleCtx
      BY <1>0, <1>f, EndType
    <2>2. pc'[w] \notin Publishing /\ pc'[w] \notin Preparation /\ pc'[w] \notin {"read", "claim"}
      BY <2>1, Apart
    <2>3. ctx'[w].version <= item.version
      BY <1>0, <2>1, ItemConstants DEF IdleCtx, Row
    <2>4. /\ item'.version = item.version /\ item'.date = item.date /\ item'.session = item.session
          /\ item'.video = item.video /\ item'.status # "preparing"
      BY <1>f
    <2>5. Started' \subseteq {item'.session}
      BY <1>e, <1>f, <2>4
    <2> QED
      BY <1>p, <1>t, <1>u, <1>f, <2>2, <2>3, <2>4, <2>5, Own DEF VideoStep
  <1>6. CASE MarkPublished(w)
    <2>0. /\ pc[w] = "publish" /\ End(w) /\ UNCHANGED <<google, unanswered>>
          /\ item' = [item EXCEPT !.status = "published"]
      BY <1>6 DEF MarkPublished, youtube
    <2>1. /\ \A f \in {"version", "date", "unknown", "session", "video", "cover"} : item'[f] = item[f]
          /\ item'.status = "published"
      BY <1>0, <2>0 DEF Row
    <2>2. PublishedProcessed'
      BY <1>0, <2>0, <2>1 DEF PublishedProcessed, Agrees
    <2>3. unanswered' => item'.unknown
      BY <2>0, <2>1 DEF IInv
    <2> QED
      BY <1>f, <2>0, <2>1, <2>2, <2>3
  <1>7. CASE Fail(w)
    <2> DEFINE row == WithSettings(item, Lesson(c))
    <2>0. /\ pc[w] = "fail" /\ End(w) /\ UNCHANGED google
          /\ item' = [row EXCEPT !.status = "failed"]
          /\ unanswered' = (unanswered \/ c.error = "ambiguous")
      BY <1>7 DEF Fail
    <2>1. /\ row \in Row /\ row.unknown = Lesson(c).unknown
          /\ \A f \in {"version", "date", "session", "video"} : row[f] = item[f]
      BY <1>0, LessonType, Written
    <2> HIDE DEF row
    <2>2. /\ \A f \in {"version", "date", "session", "video"} : item'[f] = item[f]
          /\ item'.status = "failed" /\ item'.unknown = Lesson(c).unknown
      BY <2>0, <2>1 DEF Row
    <2>3. c.error = "ambiguous" => mine.session = None /\ mine.video = None
      BY <1>0, <1>v, <2>0 DEF Agrees
    <2>4. unanswered' => item'.unknown
      BY <1>0, <1>v, <2>0, <2>2, <2>3, LessonType DEF IInv
    <2>5. PublishedProcessed'
      BY <2>2 DEF PublishedProcessed
    <2> QED
      BY <1>f, <2>0, <2>2, <2>4, <2>5
  <1> QED
    BY <1>1, <1>2, <1>3, <1>4, <1>5, <1>6, <1>7

(* The invariant holds at the start. *)
LEMMA InitKeeps == Init => IInv
  <1> SUFFICES ASSUME Init PROVE IInv
    OBVIOUS
  <1>1. TypeOK
    BY InitType
  <1>2. item.status # "published" /\ item.version = 0 /\ item.session = None /\ item.date # "future"
    BY DEF Init, Blank, NewItem
  <1>3. \A w \in Workers : pc[w] = "idle" /\ ctx[w].version = 0
    BY DEF Init, IdleCtx
  <1>4. \A w \in Workers : pc[w] \notin Publishing /\ pc[w] \notin Preparation
    BY <1>3, Apart
  <1>5. Started = {}
    BY DEF Init, Started, Unopened
  <1>6. Punctual
    <2>1. jobs = [k \in Keys |-> NoJob]
      BY DEF Init
    <2>2. \A k \in Keys : jobs[k].version = 0
      BY <2>1, JobType
    <2>3. calls = {} \/ calls = {[kind |-> "prepare", version |-> 0]}
      BY DEF Init
    <2>4. \A c \in calls : c.version = 0
      BY <2>3
    <2> QED
      BY <1>2, <1>3, <2>2, <2>4 DEF Punctual
  <1> QED
    BY <1>1, <1>2, <1>4, <1>5, <1>6 DEF IInv, Alone, PublishedProcessed, Init

(* A step keeps the invariant and the video. *)
LEMMA StepKeeps ==
  ASSUME IInv, MaxOverlaps = 0, [Next]_vars
  PROVE  IInv' /\ VideoStep
  <1>1. CASE UNCHANGED vars
    BY <1>1 DEF vars, IInv, TypeOK, Alone, Agrees, Sending, Prepares, StillPreparing, Punctual, Started,
       PublishedProcessed, VideoStep
  <1>2. CASE Users
    BY <1>2, UsersKeep
  <1>3. CASE World
    BY <1>3, WorldKeeps
  <1>4. ASSUME NEW w \in Workers, WorkerStep(w) PROVE IInv' /\ VideoStep
    BY <1>4, OthersKeep, UploadKeeps, PublicationKeeps DEF WorkerStep
  <1> QED
    BY <1>1, <1>2, <1>3, <1>4 DEF Next

(* While no write comes beside an executor at work, the row, the executor's *)
(* copy of it and what YouTube holds agree at every step of the publication *)
(* (executeYoutube in youtube.ts, uploadYoutubeVideo in youtube-upload.ts). *)
THEOREM Inductive ==
  ASSUME MaxOverlaps = 0
  PROVE  Spec => []IInv
  <1>1. IInv /\ [Next]_vars => IInv'
    BY StepKeeps
  <1> QED
    BY InitKeeps, <1>1, PTL DEF Spec

(* Then the bytes of an item go into one session of YouTube only, for any   *)
(* number of workers, crashes, lost answers, retries and edits.             *)
THEOREM OneSession ==
  ASSUME MaxOverlaps = 0
  PROVE  Spec => []OneVideo
  <1>1. IInv => OneVideo
    <2> SUFFICES ASSUME IInv PROVE Cardinality(Started) <= 1
      BY DEF OneVideo
    <2>1. Started \subseteq {item.session}
      BY DEF IInv
    <2>2. Started = {} \/ Started = {item.session}
      BY <2>1
    <2>3. Cardinality({}) = 0 /\ Cardinality({item.session}) = 1
      BY FS_EmptySet, FS_Singleton
    <2> QED
      BY <2>2, <2>3
  <1>2. Spec => []IInv
    BY Inductive
  <1> QED
    BY <1>1, <1>2, PTL

(* A published item has its cover, and its video is processed and listed in *)
(* the playlist once (executeYoutube's last steps).                         *)
THEOREM PublishedWhole ==
  ASSUME MaxOverlaps = 0
  PROVE  Spec => []PublishedProcessed
  <1>1. IInv => PublishedProcessed
    BY DEF IInv
  <1>2. Spec => []IInv
    BY Inductive
  <1> QED
    BY <1>1, <1>2, PTL

(* No session is asked for before the item's date (claim in youtube.ts, the *)
(* delay of the jobs in youtube-queue.ts).                                  *)
THEOREM NotEarly ==
  ASSUME MaxOverlaps = 0
  PROVE  Spec => NeverEarly
  <1>1. IInv => (Opening => item.date # "future")
    BY DEF IInv, Opening, Agrees, Publishing
  <1>2. Spec => []IInv
    BY Inductive
  <1> QED
    BY <1>1, <1>2, PTL DEF NeverEarly

(* Nor after the catch saw a request for one go unanswered: the mark it     *)
(* leaves survives every later write of the settings.                       *)
THEOREM UnknownHolds ==
  ASSUME MaxOverlaps = 0
  PROVE  Spec => UnknownStops
  <1>1. IInv => (Opening => ~unanswered)
    BY DEF IInv, Opening, Agrees, Publishing
  <1>2. Spec => []IInv
    BY Inductive
  <1> QED
    BY <1>1, <1>2, PTL DEF UnknownStops

(* The video an item got is never replaced or forgotten.                    *)
THEOREM VideoStays ==
  ASSUME MaxOverlaps = 0
  PROVE  Spec => VideoKept
  <1>1. IInv /\ [Next]_vars => [item.video # None => item'.video = item.video]_vars
    BY StepKeeps DEF VideoStep
  <1>2. Spec => []IInv
    BY Inductive
  <1> QED
    BY <1>1, <1>2, PTL DEF VideoKept, Spec

-----------------------------------------------------------------------------
(* What was approved (MaxOverlaps = 0): BInv is inductive beside IInv.      *)

\* A row that goes to YouTube is approved, one that waits for its approval is
\* not; what was approved is what the row still holds.
Goes == {"queued", "uploading", "processing"}
Awaits == {"waiting_video", "preparing", "waiting_approval"}
Standing ==
  /\ item.status \in Goes => item.approved
  /\ item.status \in Awaits => ~item.approved
  /\ item.approved => /\ item.session = None => agreed.rev = item.rev
                      /\ agreed.remote \in {0, item.remote}

\* A session belongs to an approved row, for one revision and one file.
File == IF collection THEN item.remote ELSE 1
Recorded ==
  /\ item.session # None =>
       /\ item.approved /\ File # 0
       /\ google[item.session].rev = agreed.rev /\ google[item.session].bytes \subseteq {File}
  /\ item.video # None => item.video = item.session

\* A file of its own never changes and is never prepared.
Fixed ==
  ~collection => /\ item.remote = 0 /\ source = 1
                 /\ \A w \in Workers : pc[w] \notin Preparation

\* An executor works with the row's revision and file.
Follows(w) ==
  LET mine == ctx[w].mine
  IN /\ mine.rev = item.rev /\ mine.remote = item.remote
     /\ pc[w] \in {"post"} \cup Transfer => File # 0
     /\ pc[w] = "saveSession" => google[mine.session].rev = agreed.rev
     /\ pc[w] = "saveVideo" => mine.video = item.session

BInv ==
  /\ Standing /\ Recorded /\ Fixed
  /\ \A w \in Workers :
       /\ pc[w] = "claim" => ctx[w].seen \in Goes
       /\ pc[w] \in Publishing => Follows(w)

\* The copy of a row has its content, and settings carry the file back.
LEMMA ContentCopied ==
  ASSUME NEW row \in Row, NEW mine \in Mine
  PROVE  /\ Copy(row).rev = row.rev /\ Copy(row).remote = row.remote
         /\ WithSettings(row, mine).remote = mine.remote
  BY DEF Copy, WithSettings, Row, Mine, Settings

\* The content of the row stays; it may have failed.
LEMMA Rests ==
  ASSUME Standing, Recorded, ~collection => item.remote = 0, UNCHANGED <<collection, google, agreed>>,
         \A f \in {"session", "video", "rev", "remote", "approved"} : item'[f] = item[f],
         item'.status = item.status \/ item'.status \notin Goes \cup Awaits
  PROVE  Standing' /\ Recorded' /\ (~collection' => item'.remote = 0)
  <1>1. /\ item'.session = item.session /\ item'.video = item.video /\ item'.rev = item.rev
        /\ item'.remote = item.remote /\ item'.approved = item.approved
    OBVIOUS
  <1>2. File' = File
    BY <1>1 DEF File
  <1> QED
    BY <1>1, <1>2 DEF Standing, Recorded

\* A step of one worker: the others' positions and copies stay.
LEMMA Elsewhere ==
  ASSUME IInv, BInv, NEW w \in Workers, Stand(w), UNCHANGED <<collection, source>>,
         Standing', Recorded', ~collection => item'.remote = 0,
         pc'[w] \in Preparation => collection \/ pc[w] \in Preparation,
         pc'[w] = "claim" => ctx'[w].seen \in Goes,
         pc'[w] \in Publishing => Follows(w)',
         Nobody \/ pc[w] \in Publishing \/ UNCHANGED <<item, google, agreed>>
  PROVE  BInv'
  <1>1. Fixed'
    BY DEF BInv, Fixed, Stand
  <1>2. ASSUME NEW v \in Workers, v # w
        PROVE  /\ pc'[v] = "claim" => ctx'[v].seen \in Goes
               /\ pc'[v] \in Publishing => Follows(v)'
    <2>1. pc'[v] = pc[v] /\ ctx'[v] = ctx[v]
      BY <1>2 DEF Stand
    <2>2. pc'[v] = "claim" => ctx'[v].seen \in Goes
      BY <2>1 DEF BInv
    <2>3. ASSUME pc'[v] \in Publishing PROVE Follows(v)'
      <3>1. pc[v] \in Publishing /\ Follows(v)
        BY <2>1, <2>3 DEF BInv
      <3>2. UNCHANGED <<item, google, agreed>>
        BY <1>2, <3>1 DEF IInv, Alone, Nobody
      <3>3. File' = File
        BY <3>2 DEF File
      <3> QED
        BY <2>1, <3>1, <3>2, <3>3 DEF Follows
    <2> QED
      BY <2>2, <2>3
  <1> QED
    BY <1>1, <1>2 DEF BInv

(* The routes. *)
LEMMA UsersFollow ==
  ASSUME IInv, BInv, Users
  PROVE  BInv'
  <1>0. /\ TypeOK /\ item \in Row /\ Moved /\ UNCHANGED <<collection, source, pc, ctx>>
        /\ Standing /\ Recorded /\ (~collection => item.remote = 0)
    BY UsersType DEF IInv, BInv, Fixed, TypeOK, UsersEffect
  <1>1. Nobody
    BY <1>0 DEF IInv, Agrees, Moved, Nobody
  <1>2. item'.session = item.session /\ item'.video = item.video
    BY <1>0 DEF Moved
  <1>3. ASSUME Standing', Recorded', ~collection => item'.remote = 0 PROVE BInv'
    BY <1>0, <1>1, <1>3 DEF BInv, Fixed, Nobody
  <1>4. ASSUME UNCHANGED <<google, agreed>>,
               item'.rev = item.rev, item'.remote = item.remote, item'.approved = item.approved,
               item'.status \in Goes => item.approved, item'.status \in Awaits => ~item.approved
        PROVE  BInv'
    <2>1. File' = File
      BY <1>0, <1>4 DEF File
    <2>2. Standing' /\ Recorded'
      BY <1>0, <1>2, <1>4, <2>1 DEF Standing, Recorded
    <2> QED
      BY <1>0, <1>3, <1>4, <2>2
  <1>5. ASSUME ~item'.approved, item'.status \notin Goes, item.session = None,
               ~collection => item'.remote = item.remote
        PROVE  BInv'
    <2>1. Standing' /\ Recorded'
      BY <1>0, <1>2, <1>5 DEF Standing, Recorded
    <2> QED
      BY <1>0, <1>3, <1>5, <2>1
  <1>6. ASSUME item.status = "waiting_approval", item'.approved, item'.status \notin Awaits,
               item'.remote = item.remote, Agree(item')
        PROVE  BInv'
    <2>1. ~item.approved /\ item.session = None
      BY <1>0, <1>6 DEF Standing, Recorded, Awaits
    <2>2. agreed'.rev = item'.rev /\ agreed'.remote = item'.remote
      BY <1>6 DEF Agree
    <2>3. Standing' /\ Recorded'
      BY <1>0, <1>2, <1>6, <2>1, <2>2 DEF Standing, Recorded
    <2> QED
      BY <1>0, <1>3, <1>6, <2>3
  <1> USE DEF Goes, Awaits
  <1>s. item.session # None => item.approved /\ item.status # "waiting_approval"
    BY <1>0 DEF Standing, Recorded
  <1>7. CASE PatchMedia \/ Cancel \/ RetryFetch \/ RetrySend
    <2>1. /\ UNCHANGED <<google, agreed>>
          /\ item'.rev = item.rev /\ item'.remote = item.remote /\ item'.approved = item.approved
          /\ \/ item.status = "waiting_video" /\ item'.status = "waiting_approval"
             \/ item'.status = "cancelled"
             \/ ~item.approved /\ item'.status = "waiting_approval"
             \/ item.approved /\ item'.status = "queued"
      BY <1>0, <1>7 DEF PatchMedia, Cancel, RetryFetch, RetrySend, people, Internal, youtube, Row
    <2> QED
      BY <1>0, <1>4, <2>1 DEF Standing
  <1>8. CASE Resolve
    <2>1. /\ item.status = "waiting_approval" /\ UNCHANGED google
          /\ \/ item' = [item EXCEPT !.status = "rejected"] /\ UNCHANGED people
             \/ \E rev \in {item.rev, item.rev + 1} :
                  /\ item' = [item EXCEPT !.status = "queued", !.approved = TRUE, !.rev = rev]
                  /\ Agree(item')
      BY <1>8 DEF Resolve, Internal, youtube
    <2>2. CASE item' = [item EXCEPT !.status = "rejected"] /\ UNCHANGED people
      <3>1. /\ item'.rev = item.rev /\ item'.remote = item.remote /\ item'.approved = item.approved
            /\ item'.status = "rejected" /\ UNCHANGED agreed
        BY <1>0, <2>2 DEF Row, people
      <3> QED
        BY <1>4, <2>1, <3>1
    <2>3. ASSUME NEW rev \in {item.rev, item.rev + 1},
                 item' = [item EXCEPT !.status = "queued", !.approved = TRUE, !.rev = rev], Agree(item')
          PROVE  BInv'
      <3>1. item'.approved /\ item'.status = "queued" /\ item'.remote = item.remote
        BY <1>0, <2>3 DEF Row
      <3> QED
        BY <1>6, <2>1, <2>3, <3>1
    <2> QED
      BY <2>1, <2>2, <2>3
  <1>9. CASE RetryPrepare \/ RemoveRow \/ CalendarReject
    <2>1. /\ item.session = None \/ item.status = "waiting_approval"
          /\ item'.remote = item.remote /\ ~item'.approved
          /\ item'.status \in {"waiting_video", "cancelled", "rejected"}
      <3>1. CASE RetryPrepare
        BY <1>0, <3>1 DEF RetryPrepare, Unstarted, Row
      <3>2. CASE RemoveRow
        BY <1>0, <3>2 DEF RemoveRow, Locked, Row
      <3>3. CASE CalendarReject
        BY <1>0, <3>3 DEF CalendarReject, Commit, Row
      <3> QED
        BY <1>9, <3>1, <3>2, <3>3
    <2> QED
      BY <1>5, <1>s, <2>1
  <1>10. CASE Import
    <2>1. item.session = None /\ collection
      BY <1>10 DEF Import, Locked
    <2>2. ~item'.approved /\ item'.status \in {"waiting_video", "waiting_approval"}
      BY <1>0, <1>10 DEF Import, Imported, Row
    <2> QED
      BY <1>5, <2>1, <2>2
  <1>c. ASSUME NEW row \in Row, NEW kind, Commit(row, kind)
        PROVE  /\ \A f \in {"status", "rev", "remote", "approved"} : item'[f] = row[f]
               /\ UNCHANGED google
    BY <1>c DEF Commit, Internal, youtube, Row
  <1>d. ASSUME NEW row \in Row
        PROVE  /\ Dispatched(row) \in Row
               /\ \A f \in {"rev", "remote", "approved"} : Dispatched(row)[f] = row[f]
               /\ row.approved => Dispatched(row).status \in {"approved", "queued"}
               /\ ~row.approved => Dispatched(row).status = "waiting_approval"
    BY <1>d DEF Dispatched, Row, Statuses
  <1>11. CASE Schedule
    <2>1. PICK date \in {"none", "future"} :
            LET row == [item EXCEPT !.date = date] IN Commit(Dispatched(row), Task(row))
      BY <1>11 DEF Schedule
    <2> DEFINE row == [item EXCEPT !.date = date]
    <2>2. /\ row \in Row
          /\ row.rev = item.rev /\ row.remote = item.remote /\ row.approved = item.approved
      BY <1>0 DEF Row
    <2>3. Commit(Dispatched(row), Task(row)) /\ UNCHANGED agreed
      BY <1>11, <2>1 DEF Schedule
    <2> HIDE DEF row
    <2>4. /\ UNCHANGED google
          /\ item'.rev = item.rev /\ item'.remote = item.remote /\ item'.approved = item.approved
          /\ item'.status = Dispatched(row).status
      BY <1>c, <1>d, <2>2, <2>3
    <2> QED
      BY <1>4, <1>d, <2>2, <2>3, <2>4
  <1>12. CASE Edit
    <2>1. item.session = None /\ UNCHANGED agreed
      BY <1>12 DEF Edit, Unstarted
    <2>2. /\ ~item'.approved /\ item'.status \in {"waiting_approval", "waiting_video"}
          /\ ~collection => item'.remote = item.remote
      BY <1>0, <1>12 DEF Edit, Commit, Row
    <2> QED
      BY <1>5, <2>1, <2>2
  <1>13. CASE Stop \/ CalendarRetry
    <2>1. /\ UNCHANGED <<google, agreed>>
          /\ item'.rev = item.rev /\ item'.remote = item.remote /\ item'.approved = item.approved
          /\ \/ item'.status = "cancelled"
             \/ item.approved /\ item'.status = "queued"
      BY <1>0, <1>13 DEF Stop, CalendarRetry, Commit, Internal, youtube, Row
    <2> QED
      BY <1>4, <2>1
  <1>14. CASE CalendarApprove
    <2> DEFINE row == [item EXCEPT !.approved = TRUE]
    <2>1. row \in Row /\ row.rev = item.rev /\ row.remote = item.remote /\ row.approved
      BY <1>0 DEF Row
    <2>2. item.status = "waiting_approval" /\ Commit(Dispatched(row), Task(row)) /\ Agree(row)
      BY <1>14 DEF CalendarApprove
    <2> HIDE DEF row
    <2>3. /\ item'.rev = row.rev /\ item'.remote = row.remote /\ item'.approved
          /\ item'.status \in {"approved", "queued"}
      BY <1>c, <1>d, <2>1, <2>2
    <2>4. Agree(item')
      BY <2>2, <2>3 DEF Agree
    <2> QED
      BY <1>6, <2>1, <2>2, <2>3, <2>4
  <1>15. CASE UpdatePublished
    <2>1. /\ item.status = "published" /\ google' = [google EXCEPT ![item.video].rev = item.rev + 1]
          /\ agreed' = [agreed EXCEPT !.rev = item.rev + 1]
          /\ item' \in {item, [item EXCEPT !.version = @ + 1, !.rev = @ + 1]}
      BY <1>15 DEF UpdatePublished
    <2>2. /\ item'.status = "published" /\ item'.remote = item.remote /\ item'.approved = item.approved
      BY <1>0, <2>1 DEF Row
    <2>3. item.video # None /\ item.video = item.session /\ item.video \in Sessions
      BY <1>0, <2>1 DEF IInv, PublishedProcessed, Recorded, Row
    <2>4. agreed'.rev = item.rev + 1 /\ agreed'.remote = agreed.remote
      BY <1>0, <2>1 DEF TypeOK
    <2>5. google'[item.session].rev = item.rev + 1 /\ google'[item.session].bytes = google[item.session].bytes
      <3>1. google[item.session] \in UploadState
        BY <1>0, <2>3 DEF TypeOK
      <3> QED
        BY <1>0, <2>1, <2>3, <3>1 DEF TypeOK, UploadState
    <2>6. File' = File
      BY <1>0, <2>2 DEF File
    <2>7. Standing' /\ Recorded'
      BY <1>0, <1>2, <2>2, <2>3, <2>4, <2>5, <2>6 DEF Standing, Recorded
    <2> QED
      BY <1>0, <1>3, <2>2, <2>7
  <1> QED
    BY <1>7, <1>8, <1>9, <1>10, <1>11, <1>12, <1>13, <1>14, <1>15 DEF Users

(* The queue, recovery, time and crashes. *)
LEMMA WorldFollows ==
  ASSUME IInv, BInv, MaxOverlaps = 0, World
  PROVE  BInv'
  <1>0. /\ TypeOK /\ item \in Row /\ PcTyped /\ CtxTyped
        /\ Standing /\ Recorded /\ Fixed /\ (~collection => item.remote = 0)
    BY DEF IInv, BInv, Fixed, TypeOK, PcTyped, CtxTyped
  <1>1. ASSUME UNCHANGED <<pc, ctx, collection, google, agreed>>, UNCHANGED source \/ collection,
               \A f \in {"session", "video", "rev", "remote", "approved"} : item'[f] = item[f],
               item'.status = item.status \/ item'.status = "failed"
        PROVE  BInv'
    <2>1. Standing' /\ Recorded' /\ (~collection' => item'.remote = 0)
      BY <1>0, <1>1, Rests DEF Goes, Awaits
    <2>2. Fixed'
      BY <1>0, <1>1, <2>1 DEF Fixed
    <2>3. item'.rev = item.rev /\ item'.remote = item.remote /\ File' = File
      BY <1>1 DEF File
    <2>4. ASSUME NEW w \in Workers, pc'[w] \in Publishing PROVE Follows(w)'
      BY <1>1, <2>3, <2>4 DEF BInv, Follows
    <2>5. \A w \in Workers : pc'[w] = "claim" => ctx'[w].seen \in Goes
      BY <1>1 DEF BInv
    <2> QED
      BY <2>1, <2>2, <2>4, <2>5 DEF BInv
  <1>2. CASE Enqueue
    <2>1. PICK c \in calls : EnqueuePlain(c) \/ EnqueueRefused(c) \/ EnqueueDated(c) \/ EnqueueFailed(c)
      BY <1>2 DEF Enqueue
    <2>2. /\ UNCHANGED <<pc, ctx, collection, google, agreed, source>>
          /\ UNCHANGED item \/ item' = [item EXCEPT !.status = "failed"]
      BY <2>1 DEF EnqueuePlain, EnqueueRefused, EnqueueDated, EnqueueFailed, Outside, youtube
    <2>3. /\ \A f \in {"session", "video", "rev", "remote", "approved"} : item'[f] = item[f]
          /\ item'.status = item.status \/ item'.status = "failed"
      BY <1>0, <2>2 DEF Row
    <2> QED
      BY <1>1, <2>2, <2>3
  <1>3. CASE RecoverJob \/ ApiCrash \/ ChangeSource \/ \E k \in Keys : Stall(k)
    <2>1. /\ UNCHANGED <<pc, ctx, collection, google, agreed, item>> /\ (UNCHANGED source \/ collection)
      BY <1>3 DEF RecoverJob, ApiCrash, ChangeSource, Stall, youtube, people
    <2> QED
      BY <1>1, <2>1
  <1>4. CASE Elapse
    <2>1. UNCHANGED <<pc, ctx, collection, google, agreed, source>> /\ item' = [item EXCEPT !.date = "due"]
      BY <1>4 DEF Elapse, youtube, people
    <2>2. /\ \A f \in {"session", "video", "rev", "remote", "approved"} : item'[f] = item[f]
          /\ item'.status = item.status
      BY <1>0, <2>1 DEF Row
    <2> QED
      BY <1>1, <2>1, <2>2
  <1>5. ASSUME NEW w \in Workers, Crash(w) PROVE BInv'
    <2>1. UNCHANGED <<item, collection, google, source, agreed>>
      BY <1>5 DEF Crash, youtube, people
    <2>2. Stand(w) /\ pc'[w] = "idle"
      BY <1>0, <1>5 DEF Crash, Goto, PcTyped, CtxTyped, Stand
    <2>3. Standing' /\ Recorded'
      BY <1>0, <2>1, Rests
    <2>4. pc'[w] \notin Publishing /\ pc'[w] \notin Preparation /\ pc'[w] # "claim"
      BY <2>2, Apart
    <2> QED
      BY <1>0, <2>1, <2>2, <2>3, <2>4, Elsewhere
  <1> QED
    BY <1>2, <1>3, <1>4, <1>5 DEF World

(* Workers outside a publication. *)
LEMMA OthersFollow ==
  ASSUME IInv, BInv, MaxOverlaps = 0, NEW w \in Workers,
         \/ \E k \in Keys : StartJob(w, k)
         \/ PollImages(w) \/ FinishJob(w) \/ Read(w) \/ Claim(w)
         \/ PrepareLock(w) \/ PrepareClaim(w) \/ PrepareInspect(w) \/ PrepareEnd(w)
  PROVE  BInv'
  <1>0. /\ TypeOK /\ item \in Row /\ PcTyped /\ CtxTyped /\ ctx[w].mine \in Mine
        /\ Standing /\ Recorded /\ (~collection => item.remote = 0)
        /\ pc[w] \in Preparation => collection
    BY DEF IInv, BInv, Fixed, TypeOK, PcTyped, CtxTyped, Context
  <1>t. Stand(w)
    BY <1>0, WorkerType DEF WorkerStep
  <1>u. UNCHANGED <<collection, source, google, agreed>>
    BY DEF StartJob, PollImages, FinishJob, Read, Claim, PrepareLock, PrepareClaim, PrepareInspect,
           PrepareEnd, youtube, people
  <1>1. ASSUME UNCHANGED item, pc'[w] \notin Publishing, pc'[w] \in Preparation => collection,
               pc'[w] = "claim" => ctx'[w].seen \in Goes
        PROVE  BInv'
    <2>1. Standing' /\ Recorded'
      BY <1>0, <1>u, <1>1, Rests
    <2> QED
      BY <1>0, <1>t, <1>u, <1>1, <2>1, Elsewhere
  <1>e. ASSUME End(w)
        PROVE  pc'[w] \notin Publishing /\ pc'[w] \notin Preparation /\ pc'[w] # "claim"
    BY <1>0, <1>e, EndType, Apart
  <1>2. CASE \/ \E k \in Keys : StartJob(w, k)
             \/ PollImages(w) \/ FinishJob(w)
    <2>1. UNCHANGED item /\ pc'[w] \in {"prepLock", "read", "idle"}
      BY <1>0, <1>2 DEF StartJob, PollImages, FinishJob, Goto, PcTyped
    <2> QED
      BY <1>1, <2>1, Apart
  <1>3. CASE Read(w)
    <2>1. CASE End(w)
      BY <1>1, <1>3, <1>e, <2>1 DEF Read
    <2>2. CASE Publishable /\ Goto(w, "claim") /\ ctx' = [ctx EXCEPT ![w].seen = item.status]
      <3>1. pc'[w] = "claim" /\ UNCHANGED item
        BY <1>0, <1>3, <2>2 DEF Goto, PcTyped, Read
      <3>2. ctx'[w].seen = item.status
        BY <1>0, <2>2 DEF CtxTyped, Context
      <3>3. ctx'[w].seen \in Goes
        BY <2>2, <3>2 DEF Publishable, Goes
      <3> QED
        BY <1>1, <3>1, <3>3, Apart
    <2> QED
      BY <1>3, <2>1, <2>2 DEF Read
  <1>4. CASE Claim(w)
    <2>1. CASE ~Claimable(w)
      BY <1>1, <1>4, <1>e, <2>1 DEF Claim
    <2>2. CASE Claimable(w)
      <3> DEFINE next == [item EXCEPT !.status = IF item.video # None THEN "processing"
                                                 ELSE "uploading"]
                 d == [IdleCtx EXCEPT !.mine = Copy(next)]
      <3>1. /\ Overlap /\ item' = next /\ ctx' = [ctx EXCEPT ![w] = d] /\ Goto(w, "authenticate")
            /\ pc[w] = "claim"
        BY <1>4, <2>2 DEF Claim
      <3>2. /\ next \in Row /\ next.status \in {"uploading", "processing"}
            /\ \A f \in {"session", "video", "rev", "remote", "approved"} : next[f] = item[f]
        BY <1>0 DEF Row, Statuses
      <3>3. Copy(next).rev = next.rev /\ Copy(next).remote = next.remote
        BY <1>0, <3>2, ContentCopied
      <3>4. d.mine = Copy(next)
        BY DEF IdleCtx
      <3> HIDE DEF next, d
      <3>5. pc'[w] = "authenticate" /\ ctx'[w] = d
        BY <1>0, <3>1 DEF PcTyped, CtxTyped, Goto
      <3>6. Nobody
        BY <1>0, <3>1, Unobserved
      <3>7. item.approved
        BY <1>0, <2>2, <3>1 DEF BInv, Claimable, Standing
      <3>8. /\ item'.session = item.session /\ item'.video = item.video /\ item'.rev = item.rev
            /\ item'.remote = item.remote /\ item'.approved = item.approved
        BY <3>1, <3>2
      <3>9. File' = File
        BY <1>u, <3>8 DEF File
      <3>10. Standing' /\ Recorded'
        BY <1>0, <1>u, <3>1, <3>2, <3>7, <3>8, <3>9 DEF Standing, Recorded, Awaits
      <3>11. Follows(w)'
        BY <3>1, <3>3, <3>4, <3>5 DEF Follows, Transfer
      <3>12. pc'[w] \notin Preparation /\ pc'[w] # "claim"
        BY <3>5 DEF Preparation
      <3> QED
        BY <1>0, <1>t, <1>u, <3>6, <3>8, <3>10, <3>11, <3>12, Elsewhere
    <2> QED
      BY <2>1, <2>2
  <1>5. CASE PrepareLock(w)
    <2>1. CASE End(w)
      BY <1>1, <1>5, <1>e, <2>1 DEF PrepareLock
    <2>2. CASE collection /\ Goto(w, "prepClaim")
      <3>1. pc'[w] = "prepClaim" /\ UNCHANGED item
        BY <1>0, <1>5, <2>2 DEF Goto, PcTyped, PrepareLock
      <3>2. pc'[w] \notin Publishing
        BY <3>1 DEF Publishing
      <3> QED
        BY <1>1, <2>2, <3>1, <3>2
    <2> QED
      BY <1>5, <2>1, <2>2 DEF PrepareLock
  <1>6. ASSUME pc[w] \in Preparation, ~item.approved, item.status \notin Goes,
               ~item'.approved, item'.status \notin Goes,
               item'.session = item.session, item'.video = item.video,
               pc'[w] \notin Publishing, pc'[w] # "claim"
        PROVE  BInv'
    <2>1. Standing' /\ Recorded'
      BY <1>0, <1>6 DEF Standing, Recorded
    <2>2. Nobody
      BY <1>6 DEF IInv, Agrees, Sending, Nobody, Goes
    <2>3. collection
      BY <1>0, <1>6
    <2> QED
      BY <1>t, <1>u, <1>6, <2>1, <2>2, <2>3, Elsewhere
  <1>7. CASE PrepareClaim(w)
    <2>0. pc[w] \in Preparation
      BY <1>7 DEF PrepareClaim, Preparation
    <2>1. CASE ~Preparable(w)
      BY <1>1, <1>7, <1>e, <2>1 DEF PrepareClaim
    <2>2. CASE Preparable(w)
      <3>1. item' = [item EXCEPT !.status = "preparing"] /\ Goto(w, "prepInspect")
        BY <1>7, <2>2 DEF PrepareClaim
      <3>2. /\ item'.approved = item.approved /\ item'.status = "preparing"
            /\ item'.session = item.session /\ item'.video = item.video
        BY <1>0, <3>1 DEF Row
      <3>3. pc'[w] = "prepInspect"
        BY <1>0, <3>1 DEF Goto, PcTyped
      <3> QED
        BY <1>6, <2>0, <2>2, <3>2, <3>3 DEF Preparable, Goes, Publishing
    <2> QED
      BY <2>1, <2>2
  <1>8. ASSUME NEW next \in Mine, NEW row, row = WithSettings(item, next),
               item' = row \/ \E status \in Statuses \ Goes : item' = [row EXCEPT !.status = status],
               pc[w] \in Preparation, StillPreparing(w), pc'[w] \notin Publishing, pc'[w] # "claim"
        PROVE  BInv'
    <2>1. /\ row \in Row /\ row.status = item.status /\ row.approved = item.approved
          /\ row.session = item.session /\ row.video = item.video
      BY <1>0, <1>8, Written
    <2>2. item.status = "preparing" /\ ~item.approved
      BY <1>0, <1>8 DEF StillPreparing, Standing, Awaits
    <2>3. item'.status \notin Goes
      BY <1>8, <2>1, <2>2 DEF Row, Goes
    <2>4. item'.approved = row.approved /\ item'.session = row.session /\ item'.video = row.video
      BY <1>8, <2>1 DEF Row
    <2> QED
      BY <1>6, <1>8, <2>1, <2>2, <2>3, <2>4 DEF Goes
  <1>9. CASE PrepareInspect(w)
    <2> DEFINE mine == ctx[w].mine
               cleared == [mine EXCEPT !.remote = 0, !.media = FALSE]
               checked == [cleared EXCEPT !.remote = source, !.changed = FALSE]
               ends == {<<mine, "prepFailed">>, <<cleared, "prepFailed">>, <<checked, "prepFailed">>,
                        <<checked, "prepLater">>, <<checked, "prepReady">>}
    <2>1. pc[w] \in Preparation
      BY <1>9 DEF PrepareInspect, Preparation
    <2>2. source \in 0 .. MaxSource /\ 0 \in 0 .. MaxSource
      BY <1>0, UploadConstants DEF TypeOK, Versions
    <2>3. mine \in Mine /\ cleared \in Mine
      BY <1>0, <2>2 DEF Mine
    <2>4. checked \in Mine
      BY <2>2, <2>3 DEF Mine
    <2>5. PICK end \in ends :
            Goto(w, end[2]) /\ item' = IF StillPreparing(w) THEN WithSettings(item, end[1]) ELSE item
      BY <1>9 DEF PrepareInspect
    <2> HIDE DEF mine, cleared, checked
    <2>6. end[1] \in Mine /\ pc'[w] \in {"prepFailed", "prepLater", "prepReady"}
      BY <1>0, <2>3, <2>4, <2>5 DEF Goto, PcTyped
    <2>7. pc'[w] \notin Publishing /\ pc'[w] # "claim"
      BY <2>6 DEF Publishing
    <2> QED
      BY <1>0, <1>1, <1>8, <2>1, <2>5, <2>6, <2>7
  <1>10. CASE PrepareEnd(w)
    <2>1. pc[w] \in Preparation /\ End(w)
      BY <1>10 DEF PrepareEnd, Preparation
    <2>2. Prepared(w) \in Statuses \ Goes
      BY DEF Prepared, Statuses, Goes
    <2>3. item' = IF StillPreparing(w)
                  THEN [WithSettings(item, ctx[w].mine) EXCEPT !.status = Prepared(w)] ELSE item
      BY <1>10 DEF PrepareEnd
    <2> QED
      BY <1>0, <1>1, <1>8, <1>e, <2>1, <2>2, <2>3
  <1> QED
    BY <1>2, <1>3, <1>4, <1>5, <1>7, <1>9, <1>10

(* A step of the executor. *)
LEMMA Works ==
  ASSUME IInv, BInv, NEW w \in Workers, pc[w] \in Publishing, Stand(w),
         UNCHANGED <<collection, source, agreed>>,
         item'.rev = item.rev, item'.approved = item.approved, item'.status \notin Awaits,
         item'.session = item.session \/ item.session = None,
         item'.remote = item.remote \/ item.remote = 0, ~collection => item'.remote = 0,
         Recorded', pc'[w] \notin Preparation, pc'[w] # "claim",
         pc'[w] \in Publishing => Follows(w)'
  PROVE  BInv'
  <1>1. item.status \in Goes
    BY Executor DEF Goes
  <1>2. Standing /\ item.approved
    BY <1>1 DEF BInv, Standing
  <1>3. Standing'
    BY <1>2 DEF Standing
  <1> QED
    BY <1>3, Elsewhere

\* A step that leaves the row's content and the videos' bytes.
LEMMA WorksOn ==
  ASSUME IInv, BInv, NEW w \in Workers, pc[w] \in Publishing, Stand(w),
         UNCHANGED <<collection, source, agreed>>,
         \A f \in {"session", "video", "rev", "remote", "approved"} : item'[f] = item[f],
         item'.status \notin Awaits,
         \A s \in Sessions : google'[s].rev = google[s].rev /\ google'[s].bytes = google[s].bytes,
         pc'[w] \notin Preparation, pc'[w] # "claim",
         pc'[w] \in Publishing => /\ ctx'[w].mine.rev = ctx[w].mine.rev
                                  /\ ctx'[w].mine.remote = ctx[w].mine.remote
                                  /\ pc'[w] \in {"post"} \cup Transfer => pc[w] \in {"post"} \cup Transfer
                                  /\ pc'[w] \notin {"saveSession", "saveVideo"}
  PROVE  BInv'
  <1>1. /\ item'.session = item.session /\ item'.video = item.video /\ item'.rev = item.rev
        /\ item'.remote = item.remote /\ item'.approved = item.approved
    OBVIOUS
  <1>2. File' = File
    BY <1>1 DEF File
  <1>3. item.session \in Sessions \cup {None} /\ Recorded /\ Follows(w) /\ (~collection => item.remote = 0)
    BY DEF IInv, TypeOK, Row, BInv, Fixed
  <1>4. Recorded'
    BY <1>1, <1>2, <1>3 DEF Recorded
  <1>5. pc'[w] \in Publishing => Follows(w)'
    BY <1>1, <1>2, <1>3 DEF Follows
  <1> QED
    BY <1>1, <1>3, <1>4, <1>5, Works

\* What a PUT may leave behind: a chunk comes from the file as it is now.
LEMMA ServedBytes ==
  ASSUME TypeOK, NEW w \in Workers, ctx[w].mine.session \in Sessions, NEW g \in Served(w)
  PROVE  \/ g.bytes = google[ctx[w].mine.session].bytes
         \/ /\ g.bytes = google[ctx[w].mine.session].bytes \cup {source}
            /\ ~Querying(ctx[w])
  <1> DEFINE h == google[ctx[w].mine.session]
             c == ctx[w]
  <1>1. h \in UploadState
    BY DEF TypeOK
  <1>2. ASSUME NEW k \in Stored(h, c)
        PROVE  \/ k.bytes = h.bytes
               \/ k.bytes = h.bytes \cup {source} /\ ~Querying(c)
    <2> HIDE DEF h, c
    <2> QED
      BY <1>1, <1>2 DEF Stored, UploadState
  <1>3. ASSUME NEW k \in Stored(h, c), NEW v \in Finished(k)
        PROVE  v.bytes = k.bytes
    <2> HIDE DEF h, c
    <2> QED
      BY <1>1, <1>3 DEF Stored, Finished, UploadState
  <1> QED
    BY <1>1, <1>2, <1>3 DEF Served

(* A step of the transfer: it keeps the row's content and the executor's copy. *)
LEMMA Transfers ==
  ASSUME IInv, BInv, NEW w \in Workers, pc[w] \in {"put", "saveMoved"}, Stand(w),
         UNCHANGED <<collection, source, agreed>>,
         \A f \in {"session", "video", "rev", "remote", "approved", "status"} : item'[f] = item[f],
         \A s \in Sessions \ {item.session} : google'[s] = google[s],
         google'[item.session].rev = google[item.session].rev,
         google'[item.session].bytes \subseteq google[item.session].bytes \cup {File},
         pc'[w] \in {"put", "saveMoved", "saveVideo", "fail"},
         ctx'[w].mine.rev = ctx[w].mine.rev, ctx'[w].mine.remote = ctx[w].mine.remote,
         pc'[w] = "saveVideo" => ctx'[w].mine.video = item.session
  PROVE  BInv'
  <1>0. pc[w] \in Transfer /\ pc[w] \in Publishing
    BY DEF Transfer, Publishing
  <1>1. /\ item'.session = item.session /\ item'.video = item.video /\ item'.rev = item.rev
        /\ item'.remote = item.remote /\ item'.approved = item.approved /\ item'.status = item.status
    OBVIOUS
  <1>2. File' = File
    BY <1>1 DEF File
  <1>3. Recorded /\ Follows(w) /\ (~collection => item.remote = 0) /\ item.status \notin Awaits
    BY <1>0, Executor DEF BInv, Fixed, Awaits
  <1>4. Recorded'
    BY <1>1, <1>2, <1>3 DEF Recorded
  <1>5. Follows(w)'
    BY <1>0, <1>1, <1>2, <1>3 DEF Follows
  <1>6. pc'[w] \notin Preparation /\ pc'[w] # "claim"
    BY DEF Preparation
  <1> QED
    BY <1>0, <1>1, <1>3, <1>4, <1>5, <1>6, Works

(* The upload. *)
LEMMA UploadFollows ==
  ASSUME IInv, BInv, NEW w \in Workers, Upload(w)
  PROVE  BInv'
  <1> DEFINE c == ctx[w]
             mine == ctx[w].mine
  <1>p. pc[w] \in {"source", "post"} \cup Transfer /\ pc[w] \in Publishing
    BY DEF Upload, UploadStep, CheckSource, PostSession, SaveSession, PutBlocked, PutLost, PutRefused,
       PutContinue, SaveMoved, PutDone, SaveVideo, Transfer, Publishing
  <1>0. /\ TypeOK /\ Agrees(w) /\ item \in Row /\ c \in Context /\ mine \in Mine /\ PcTyped /\ CtxTyped
        /\ GoogleTyped /\ item.status \notin Awaits /\ Started \subseteq {item.session}
        /\ (pc[w] \in Transfer => mine.session \in Sessions) /\ None \notin Sessions
        /\ Standing /\ Recorded /\ Follows(w) /\ (~collection => item.remote = 0 /\ source = 1)
    BY <1>p, Executor DEF BInv, Fixed, Awaits
  <1>t. Stand(w) /\ pc'[w] \in Publishing
    BY <1>0, UploadType DEF Upload
  <1>u. UNCHANGED <<agreed, collection, source>>
    BY DEF Upload, UploadStep, people, CheckSource, PostSession, SaveSession, PutBlocked, PutLost,
       PutRefused, PutContinue, SaveMoved, PutDone, SaveVideo
  <1>q. pc'[w] \notin Preparation /\ pc'[w] # "claim"
    BY <1>t, Apart
  <1>k. UNCHANGED google =>
          \A s \in Sessions : google'[s].rev = google[s].rev /\ google'[s].bytes = google[s].bytes
    OBVIOUS
  <1>1. ASSUME NEW e \in {"error", "ambiguous", "changed"}, Throw(w, e), UNCHANGED <<item, google>>
        PROVE  BInv'
    <2>1. pc'[w] = "fail" /\ ctx'[w].mine = mine
      BY <1>0, <1>1, ThrowType
    <2>2. pc'[w] \notin {"post"} \cup Transfer
      BY <2>1 DEF Transfer
    <2> QED
      BY <1>0, <1>p, <1>t, <1>u, <1>q, <1>1, <2>1, <2>2, WorksOn
  <1>2. CASE CheckSource(w)
    <2> DEFINE next == [mine EXCEPT !.remote = IF collection THEN source ELSE @,
                                    !.media = IF collection THEN FALSE ELSE @]
    <2>0. pc[w] = "source" /\ UNCHANGED google
      BY <1>2 DEF CheckSource
    <2>1. /\ next.rev = mine.rev /\ next.session = mine.session
          /\ next.remote = IF collection THEN source ELSE mine.remote
      BY <1>0 DEF Mine
    <2>2. source \in 1 .. MaxSource /\ source \in 0 .. MaxSource /\ source # 0
      BY <1>0, UploadConstants DEF TypeOK, Versions
    <2>3. next \in Mine
      BY <1>0, <2>2 DEF Mine
    <2>4. ASSUME collection => Opens(mine.remote), item' = WithSettings(item, next),
                 ctx' = [ctx EXCEPT ![w].mine = next, ![w].probe = mine.session # None],
                 Goto(w, IF mine.session = None THEN "post" ELSE "put")
          PROVE  BInv'
      <3>1. ctx'[w].mine = next /\ pc'[w] \in {"post", "put"}
        BY <1>0, <2>4 DEF CtxTyped, Context, PcTyped, Goto
      <3>2. /\ item'.session = item.session /\ item'.video = item.video /\ item'.rev = item.rev
            /\ item'.approved = item.approved /\ item'.status = item.status
        BY <1>0, <2>3, <2>4, Written
      <3>3. item'.remote = next.remote
        BY <1>0, <2>3, <2>4, ContentCopied
      <3>4. mine.rev = item.rev /\ mine.remote = item.remote
        BY <1>0 DEF Follows
      <3>5. item'.remote = item.remote \/ item.remote = 0
        BY <2>1, <2>4, <3>3, <3>4 DEF Opens
      <3>6. ~collection => item'.remote = 0
        BY <1>0, <2>1, <3>3, <3>4
      <3> HIDE DEF next
      <3>7. File' # 0
        BY <1>u, <2>1, <2>2, <3>3 DEF File
      <3>8. File' = File \/ File = 0
        BY <1>u, <3>5 DEF File
      <3>9. Recorded'
        BY <1>0, <1>u, <2>0, <3>2, <3>8 DEF Recorded
      <3>10. Follows(w)'
        BY <2>1, <3>1, <3>2, <3>3, <3>4, <3>7 DEF Follows
      <3> QED
        BY <1>0, <1>p, <1>t, <1>u, <1>q, <3>2, <3>5, <3>6, <3>9, <3>10, Works
    <2> QED
      BY <1>1, <1>2, <2>0, <2>4 DEF CheckSource
  <1>3. CASE PostSession(w)
    <2>0. pc[w] = "post" /\ UNCHANGED item /\ item.session = None /\ item.video = None
      BY <1>0, <1>3 DEF PostSession, Agrees
    <2>1. ASSUME NEW s \in Sessions,
                 google' = [google EXCEPT ![s] = [Unopened EXCEPT !.rev = mine.rev]],
                 ctx' = [ctx EXCEPT ![w].mine = [@ EXCEPT !.session = s, !.uri = 0]],
                 Goto(w, "saveSession")
          PROVE  BInv'
      <3>1. ctx'[w].mine = [mine EXCEPT !.session = s, !.uri = 0] /\ pc'[w] = "saveSession"
        BY <1>0, <2>1 DEF CtxTyped, Context, PcTyped, Goto
      <3>2. ctx'[w].mine.session = s /\ ctx'[w].mine.rev = mine.rev /\ ctx'[w].mine.remote = mine.remote
        BY <1>0, <3>1 DEF Mine
      <3>3. google'[s].rev = mine.rev
        BY <1>0, <2>1 DEF GoogleTyped, Unopened
      <3>4. agreed.rev = item.rev
        <4>1. item.status \in Goes
          BY <1>p, Executor DEF Goes
        <4> QED
          BY <1>0, <2>0, <4>1 DEF Standing
      <3>5. File' = File
        BY <1>u, <2>0 DEF File
      <3>6. Follows(w)'
        BY <1>0, <1>u, <2>0, <3>1, <3>2, <3>3, <3>4, <3>5 DEF Follows
      <3>7. Recorded'
        BY <2>0 DEF Recorded
      <3> QED
        BY <1>0, <1>p, <1>t, <1>u, <1>q, <2>0, <3>6, <3>7, Works
    <2> QED
      BY <1>1, <1>3, <2>0, <2>1 DEF PostSession
  <1>4. CASE SaveSession(w)
    <2>1. /\ item' = [item EXCEPT !.session = mine.session, !.uri = mine.uri]
          /\ UNCHANGED <<google, ctx>> /\ pc[w] = "saveSession" /\ pc'[w] = "put"
      BY <1>0, <1>4 DEF SaveSession, PcTyped, Goto
    <2>2. /\ item'.session = mine.session /\ item'.video = item.video /\ item'.rev = item.rev
          /\ item'.remote = item.remote /\ item'.approved = item.approved /\ item'.status = item.status
      BY <1>0, <2>1 DEF Row
    <2>3. item.session = None /\ item.video = None /\ mine.session \in Sessions
      BY <1>0, <2>1 DEF Agrees, Transfer
    <2>4. File' = File /\ File # 0 /\ google[mine.session].rev = agreed.rev
      BY <1>0, <1>u, <2>1, <2>2 DEF File, Follows, Transfer
    <2>5. google[mine.session].bytes = {}
      BY <1>0, <2>3 DEF Started
    <2>6. item.approved
      <3>1. item.status \in Goes
        BY <1>p, Executor DEF Goes
      <3> QED
        BY <1>0, <3>1 DEF Standing
    <2>7. Recorded'
      BY <1>u, <2>1, <2>2, <2>3, <2>4, <2>5, <2>6 DEF Recorded
    <2>8. Follows(w)'
      BY <1>0, <2>1, <2>2, <2>4 DEF Follows
    <2> QED
      BY <1>0, <1>p, <1>t, <1>u, <1>q, <2>2, <2>3, <2>7, <2>8, Works
  <1>5. CASE PutBlocked(w) \/ PutRefused(w)
    BY <1>1, <1>5 DEF PutBlocked, PutRefused
  <1>s. pc[w] \in {"put", "saveMoved"} =>
          /\ mine.session = item.session /\ mine.video = item.video /\ item.session \in Sessions
          /\ File # 0 /\ mine.remote = item.remote
    BY <1>0 DEF Agrees, Follows, Transfer
  <1>r. ASSUME pc[w] = "put", Readable(w), NEW g \in Served(w)
        PROVE  g.rev = google[item.session].rev /\ g.bytes \subseteq google[item.session].bytes \cup {File}
    <2>1. ~Querying(c) => source = File
      BY <1>0, <1>s, <1>r DEF Readable, Opens, File
    <2> QED
      BY <1>0, <1>s, <1>r, <2>1, ServedBytes, ServedType
  <1>w. ASSUME pc[w] \in {"put", "saveMoved"}, UNCHANGED item \/ item' = WithSettings(item, mine)
        PROVE  \A f \in {"session", "video", "rev", "remote", "approved", "status"} : item'[f] = item[f]
    BY <1>0, <1>s, <1>w, Written, ContentCopied
  <1>g. ASSUME pc[w] = "put", NEW g \in UploadState, google' = [google EXCEPT ![mine.session] = g]
        PROVE  google'[item.session] = g /\ \A s \in Sessions \ {item.session} : google'[s] = google[s]
    BY <1>0, <1>s, <1>g DEF GoogleTyped
  <1>6. CASE PutLost(w)
    <2>1. pc[w] = "put" /\ UNCHANGED item /\ Recover(w, c) /\ Readable(w)
      BY <1>6 DEF PutLost
    <2>2. pc'[w] \in {"put", "fail"} /\ ctx'[w].mine = mine
      BY <1>0, <2>1, RecoverType
    <2>3. PICK g \in Served(w) : google' = [google EXCEPT ![mine.session] = g]
      BY <1>6 DEF PutLost
    <2>4. g \in UploadState
      BY <1>0, <1>s, <2>1, ServedType
    <2> QED
      BY <1>0, <1>t, <1>u, <1>r, <1>g, <1>w, <2>1, <2>2, <2>3, <2>4, Transfers
  <1>7. CASE PutContinue(w)
    <2>0. pc[w] = "put" /\ Readable(w)
      BY <1>7 DEF PutContinue
    <2>1. PICK g \in Served(w), moved \in {0, 1} :
            LET d == [c EXCEPT !.mine.uri = @ + moved, !.offset = g.received, !.probe = FALSE]
                stays == IF Querying(c) THEN g.received = Chunks ELSE g.received = c.offset
            IN \/ google' = [google EXCEPT ![mine.session] = g] /\ Throw(w, "error") /\ UNCHANGED item
               \/ /\ google' = [google EXCEPT ![mine.session] = [g EXCEPT !.uri = @ + moved]]
                  /\ mine.uri + moved <= MaxRotations
                  /\ \/ Recover(w, d) \/ Tell(w, d, "put")
                     \/ Tell(w, [d EXCEPT !.stays = stays], "saveMoved")
                  /\ item' = WithSettings(item, mine)
      BY <1>7 DEF PutContinue
    <2>2. /\ g \in UploadState /\ g.uri = google[mine.session].uri /\ mine.uri = google[mine.session].uri
          /\ g.rev = google[item.session].rev /\ g.bytes \subseteq google[item.session].bytes \cup {File}
      BY <1>0, <1>7, <1>r, <1>s, <2>0, ServedType DEF PutContinue
    <2>3. CASE google' = [google EXCEPT ![mine.session] = g] /\ Throw(w, "error") /\ UNCHANGED item
      <3>1. pc'[w] = "fail" /\ ctx'[w].mine = mine
        BY <1>0, <2>3, ThrowType
      <3> QED
        BY <1>0, <1>t, <1>u, <1>g, <1>w, <2>0, <2>2, <2>3, <3>1, Transfers
    <2>4. CASE /\ google' = [google EXCEPT ![mine.session] = [g EXCEPT !.uri = @ + moved]]
               /\ item' = WithSettings(item, mine) /\ mine.uri + moved <= MaxRotations
      <3> DEFINE m == [mine EXCEPT !.uri = @ + moved]
                 e == [c EXCEPT !.mine = m]
                 d == [c EXCEPT !.mine.uri = @ + moved, !.offset = g.received, !.probe = FALSE]
                 stays == IF Querying(c) THEN g.received = Chunks ELSE g.received = c.offset
                 f == [d EXCEPT !.stays = stays]
                 h == [g EXCEPT !.uri = @ + moved]
      <3>0. \/ Recover(w, d) \/ Tell(w, d, "put") \/ Tell(w, f, "saveMoved") \/ Throw(w, "error")
        BY <2>1
      <3>1. mine.uri + moved \in 0 .. MaxRotations
        BY <1>0, <2>4, UploadConstants DEF Mine
      <3>2. m \in Mine /\ m.rev = mine.rev /\ m.remote = mine.remote
        BY <1>0, <3>1 DEF Mine
      <3>h. h \in UploadState /\ h.rev = g.rev /\ h.bytes = g.bytes
        BY <2>2, <3>1 DEF UploadState
      <3> HIDE DEF m, h
      <3>3. e \in Context /\ e.mine = m
        BY <1>0, <3>2, MineType DEF Context
      <3>4. d = [e EXCEPT !.offset = g.received, !.probe = FALSE]
        BY <1>0 DEF Context, Mine, m
      <3>5. g.received \in 0 .. Chunks /\ stays \in BOOLEAN
        BY <2>2 DEF UploadState
      <3> HIDE DEF e, d, stays
      <3>6. d \in Context /\ d.mine = m
        BY <3>3, <3>4, <3>5 DEF Context
      <3>7. f \in Context /\ f.mine = m
        BY <3>5, <3>6 DEF Context
      <3> HIDE DEF f
      <3>8. pc'[w] \in {"put", "fail", "saveMoved"} /\ ctx'[w].mine \in {m, mine}
        <4>1. CASE Recover(w, d)
          BY <1>0, <3>6, <4>1, RecoverType
        <4>2. CASE Tell(w, d, "put")
          BY <1>0, <3>6, <4>2, TellType DEF Steps, Publishing
        <4>3. CASE Tell(w, f, "saveMoved")
          BY <1>0, <3>7, <4>3, TellType DEF Steps, Publishing
        <4>4. CASE Throw(w, "error")
          BY <1>0, <4>4, ThrowType
        <4> QED
          BY <3>0, <4>1, <4>2, <4>3, <4>4
      <3>9. google' = [google EXCEPT ![mine.session] = h]
        BY <2>4 DEF h
      <3> QED
        BY <1>0, <1>t, <1>u, <1>g, <1>w, <2>0, <2>2, <2>4, <3>2, <3>h, <3>8, <3>9, Transfers
    <2> QED
      BY <2>1, <2>3, <2>4
  <1>8. CASE SaveMoved(w)
    <2> DEFINE d == [c EXCEPT !.stays = FALSE]
    <2>0. /\ pc[w] = "saveMoved" /\ UNCHANGED google
          /\ item' = [item EXCEPT !.session = mine.session, !.uri = mine.uri]
          /\ Recover(w, d) \/ Tell(w, d, "put")
      BY <1>8 DEF SaveMoved
    <2>1. d \in Context /\ d.mine = mine
      BY <1>0 DEF Context
    <2> HIDE DEF d
    <2>2. pc'[w] \in {"put", "fail"} /\ ctx'[w].mine = mine
      <3>1. CASE Recover(w, d)
        BY <1>0, <2>1, <3>1, RecoverType
      <3>2. CASE Tell(w, d, "put")
        BY <1>0, <2>1, <3>2, TellType DEF Steps, Publishing
      <3> QED
        BY <2>0, <3>1, <3>2
    <2>3. \A f \in {"session", "video", "rev", "remote", "approved", "status"} : item'[f] = item[f]
      BY <1>0, <1>s, <2>0 DEF Row
    <2> QED
      BY <1>t, <1>u, <2>0, <2>2, <2>3, Transfers
  <1>9. CASE PutDone(w)
    <2>0. pc[w] = "put" /\ UNCHANGED item /\ Readable(w)
      BY <1>9 DEF PutDone
    <2>1. PICK g \in Served(w) : google' = [google EXCEPT ![mine.session] = g]
      BY <1>9 DEF PutDone
    <2>2. g \in UploadState
      BY <1>0, <1>s, <2>0, ServedType
    <2>3. /\ pc'[w] \in {"saveVideo", "fail"}
          /\ ctx'[w].mine.rev = mine.rev /\ ctx'[w].mine.remote = mine.remote
          /\ pc'[w] = "saveVideo" => ctx'[w].mine.video = mine.session
      <3>1. CASE Throw(w, "error")
        BY <1>0, <3>1, ThrowType
      <3>2. CASE Tell(w, [After(c) EXCEPT !.mine.video = mine.session], "saveVideo")
        <4>1. After(c) \in Context /\ After(c).mine = mine
          BY <1>0, AfterType
        <4>2. ctx'[w] = [After(c) EXCEPT !.mine.video = mine.session] /\ pc'[w] = "saveVideo"
          BY <1>0, <3>2 DEF Tell, Goto, PcTyped, CtxTyped
        <4>3. ctx'[w].mine = [mine EXCEPT !.video = mine.session]
          BY <4>1, <4>2 DEF Context
        <4> QED
          BY <1>0, <4>2, <4>3 DEF Mine
      <3> QED
        BY <1>9, <3>1, <3>2 DEF PutDone
    <2> QED
      BY <1>0, <1>s, <1>t, <1>u, <1>r, <1>g, <1>w, <2>0, <2>1, <2>2, <2>3, Transfers
  <1>10. CASE SaveVideo(w)
    <2> DEFINE row == WithSettings(item, mine)
    <2>0. /\ pc[w] = "saveVideo" /\ pc'[w] = "processing" /\ UNCHANGED <<google, ctx>>
          /\ item' = [row EXCEPT !.video = mine.video]
      BY <1>0, <1>10 DEF SaveVideo, PcTyped, Goto
    <2>1. /\ row \in Row /\ row.session = item.session /\ row.rev = item.rev /\ row.approved = item.approved
          /\ row.status = item.status /\ row.remote = mine.remote
      BY <1>0, Written, ContentCopied
    <2> HIDE DEF row
    <2>2. /\ item'.session = item.session /\ item'.video = mine.video /\ item'.rev = item.rev
          /\ item'.remote = mine.remote /\ item'.approved = item.approved /\ item'.status = item.status
      BY <2>0, <2>1 DEF Row
    <2>3. mine.remote = item.remote
      BY <1>0 DEF Follows
    <2>4. mine.video = item.session
      BY <1>0, <2>0 DEF Follows
    <2>5. File' = File
      BY <1>u, <2>2, <2>3 DEF File
    <2>6. Recorded'
      BY <1>0, <1>u, <2>0, <2>2, <2>4, <2>5 DEF Recorded
    <2>7. Follows(w)'
      BY <1>0, <2>0, <2>2, <2>3 DEF Follows, Transfer
    <2> QED
      BY <1>0, <1>p, <1>t, <1>u, <1>q, <2>2, <2>3, <2>6, <2>7, Works
  <1> QED
    BY <1>2, <1>3, <1>4, <1>5, <1>6, <1>7, <1>8, <1>9, <1>10 DEF Upload, UploadStep

(* The rest of a publication. *)
LEMMA PublicationFollows ==
  ASSUME IInv, BInv, NEW w \in Workers,
         \/ Authenticate(w) \/ MarkProcessing(w) \/ SetCover(w) \/ Poll(w) \/ AttachPlaylist(w)
         \/ MarkPublished(w) \/ Fail(w)
  PROVE  BInv'
  <1> DEFINE c == ctx[w]
             mine == ctx[w].mine
             same == \A s \in Sessions : google'[s].rev = google[s].rev /\ google'[s].bytes = google[s].bytes
             kept == \A f \in {"session", "video", "rev", "remote", "approved"} : item'[f] = item[f]
  <1>p. /\ pc[w] \in {"authenticate", "processing", "cover", "poll", "playlist", "publish", "fail"}
        /\ pc[w] \in Publishing
    BY DEF Authenticate, MarkProcessing, SetCover, Poll, AttachPlaylist, MarkPublished, Fail, Publishing
  <1>0. /\ TypeOK /\ Agrees(w) /\ item \in Row /\ c \in Context /\ mine \in Mine /\ PcTyped /\ CtxTyped
        /\ GoogleTyped /\ item.status \notin Awaits /\ Follows(w)
    BY <1>p, Executor DEF BInv, Awaits
  <1>t. Stand(w)
    BY <1>0, WorkerType DEF WorkerStep
  <1>u. UNCHANGED <<agreed, collection, source>>
    BY DEF people, youtube, Authenticate, MarkProcessing, SetCover, Poll, AttachPlaylist, MarkPublished, Fail
  <1>v. mine.video = item.video /\ mine.remote = item.remote
    BY <1>0, <1>p DEF Agrees, Follows
  <1>s. UNCHANGED google => same
    OBVIOUS
  <1>1. ASSUME kept, same, item'.status \notin Awaits,
               pc'[w] \in {"source", "cover", "poll", "playlist", "publish", "fail"},
               ctx'[w].mine.rev = mine.rev, ctx'[w].mine.remote = mine.remote
        PROVE  BInv'
    BY <1>p, <1>t, <1>u, <1>1, WorksOn DEF Preparation, Transfer
  <1>2. ASSUME kept, same, item'.status \notin Awaits, End(w)
        PROVE  BInv'
    <2>1. pc'[w] = "finish"
      BY <1>0, <1>2, EndType
    <2>2. pc'[w] \notin Publishing /\ pc'[w] \notin Preparation /\ pc'[w] # "claim"
      BY <2>1, Apart
    <2> HIDE DEF same, kept
    <2> QED
      BY <1>p, <1>t, <1>u, <1>2, <2>2, WorksOn DEF same, kept
  <1>w. ASSUME NEW next \in Mine, next.remote = mine.remote, item' = WithSettings(item, next)
        PROVE  kept /\ item'.status = item.status
    <2>1. /\ \A f \in {"status", "session", "video", "rev", "approved"} : item'[f] = item[f]
          /\ item'.remote = next.remote
      BY <1>0, <1>w, Written, ContentCopied
    <2> QED
      BY <1>v, <1>w, <2>1
  <1>e. ASSUME Throw(w, "error")
        PROVE  pc'[w] = "fail" /\ ctx'[w].mine = mine
    BY <1>0, <1>e, ThrowType
  <1>n. UNCHANGED item => kept /\ item'.status = item.status
    OBVIOUS
  <1>3. CASE Authenticate(w)
    <2>1. item' = WithSettings(item, mine) /\ same
      BY <1>3 DEF Authenticate, youtube
    <2>2. pc'[w] \in {"fail", "source", "cover"} /\ ctx'[w].mine = mine
      BY <1>0, <1>e, <1>3 DEF Authenticate, Goto, PcTyped
    <2> QED
      BY <1>0, <1>1, <1>w, <2>1, <2>2
  <1>4. CASE MarkProcessing(w)
    <2>1. /\ item' = [item EXCEPT !.status = "processing", !.video = mine.video] /\ same
          /\ pc'[w] = "cover" /\ UNCHANGED ctx
      BY <1>0, <1>4 DEF MarkProcessing, youtube, Goto, PcTyped
    <2>2. kept /\ item'.status = "processing"
      BY <1>0, <1>v, <2>1 DEF Row
    <2> QED
      BY <1>1, <2>1, <2>2 DEF Awaits
  <1>5. CASE SetCover(w)
    <2>0. same
      BY <1>5 DEF SetCover, youtube
    <2>1. CASE Throw(w, "error") /\ UNCHANGED item
      BY <1>0, <1>1, <1>e, <1>n, <2>0, <2>1
    <2>2. CASE /\ ctx' = [ctx EXCEPT ![w].mine.cover = TRUE] /\ Goto(w, "poll")
               /\ item' = WithSettings(item, [mine EXCEPT !.cover = TRUE])
      <3> DEFINE next == [mine EXCEPT !.cover = TRUE]
      <3>1. next \in Mine /\ next.rev = mine.rev /\ next.remote = mine.remote
        BY <1>0 DEF Mine
      <3>2. ctx'[w].mine = next /\ pc'[w] = "poll"
        BY <1>0, <2>2 DEF CtxTyped, Context, PcTyped, Goto
      <3>3. item' = WithSettings(item, next)
        BY <2>2
      <3> HIDE DEF next
      <3> QED
        BY <1>0, <1>1, <1>w, <2>0, <3>1, <3>2, <3>3
    <2> QED
      BY <1>5, <2>1, <2>2 DEF SetCover
  <1>g. ASSUME NEW f \in {"video", "listed"}, NEW n, google' = [google EXCEPT ![mine.video][f] = n]
        PROVE  same
    BY <1>0, <1>g DEF GoogleTyped, UploadState
  <1>6. CASE Poll(w)
    <2>1. same
      BY <1>6, <1>g, <1>s DEF Poll
    <2>2. pc'[w] \in {"playlist", "fail"} /\ ctx'[w].mine = mine /\ UNCHANGED item
      BY <1>0, <1>e, <1>6 DEF Poll, Goto, PcTyped
    <2> QED
      BY <1>0, <1>1, <1>n, <2>1, <2>2
  <1>7. CASE AttachPlaylist(w)
    <2> DEFINE s == mine.video
    <2>1. item' = WithSettings(item, mine)
      BY <1>7 DEF AttachPlaylist
    <2>2. UNCHANGED google \/ google' = [google EXCEPT ![s].listed = google[s].listed + 1]
      BY <1>7 DEF AttachPlaylist
    <2>3. same
      BY <1>g, <1>s, <2>2
    <2>4. pc'[w] \in {"publish", "fail"} /\ ctx'[w].mine = mine
      BY <1>0, <1>e, <1>7 DEF AttachPlaylist, Goto, PcTyped
    <2> QED
      BY <1>0, <1>1, <1>w, <2>1, <2>3, <2>4
  <1>8. CASE MarkPublished(w)
    <2>1. item' = [item EXCEPT !.status = "published"] /\ same /\ End(w)
      BY <1>8 DEF MarkPublished, youtube
    <2>2. kept /\ item'.status = "published"
      BY <1>0, <2>1 DEF Row
    <2> QED
      BY <1>2, <2>1, <2>2 DEF Awaits
  <1>9. CASE Fail(w)
    <2> DEFINE row == WithSettings(item, Lesson(c))
    <2>1. item' = [row EXCEPT !.status = "failed"] /\ same /\ End(w)
      BY <1>9 DEF Fail
    <2>2. Lesson(c) \in Mine /\ Lesson(c).remote = mine.remote
      <3>1. DOMAIN mine = {"unknown", "changed", "remote", "media", "cover", "rev", "session", "uri", "video"}
        BY <1>0 DEF Mine
      <3>2. \A a, b : [mine EXCEPT !.unknown = a, !.changed = b].remote = mine.remote
        <4> HIDE DEF mine
        <4> QED
          BY <3>1
      <3> QED
        BY <1>0, <3>2, LessonType DEF Lesson
    <2>3. /\ row \in Row /\ row.remote = mine.remote
          /\ \A f \in {"session", "video", "rev", "approved"} : row[f] = item[f]
      BY <1>0, <2>2, Written, ContentCopied
    <2> HIDE DEF row
    <2>4. kept /\ item'.status = "failed"
      BY <1>v, <2>1, <2>3 DEF Row
    <2> QED
      BY <1>2, <2>1, <2>4 DEF Awaits
  <1> QED
    BY <1>3, <1>4, <1>5, <1>6, <1>7, <1>8, <1>9

LEMMA InitFollows == Init => BInv
  <1> SUFFICES ASSUME Init PROVE BInv
    OBVIOUS
  <1>1. PICK status \in {"waiting_video", "waiting_approval", "failed"}, media \in BOOLEAN :
          item = NewItem(status, media)
    BY DEF Init, Blank
  <1>2. /\ ~item.approved /\ item.session = None /\ item.video = None /\ item.remote = 0
        /\ item.status = status
    BY <1>1 DEF NewItem
  <1>3. item.status \notin Goes
    BY <1>2 DEF Goes
  <1>4. source = 1 /\ \A w \in Workers : pc[w] = "idle"
    BY DEF Init
  <1>5. Fixed
    BY <1>2, <1>4, Apart DEF Fixed
  <1>6. Standing /\ Recorded
    BY <1>2, <1>3 DEF Standing, Recorded
  <1> QED
    BY <1>4, <1>5, <1>6, Apart DEF BInv

LEMMA StepFollows ==
  ASSUME IInv, BInv, MaxOverlaps = 0, [Next]_vars
  PROVE  BInv'
  <1>1. CASE UNCHANGED vars
    <2>1. /\ UNCHANGED <<item, agreed, google, collection, source, pc, ctx>> /\ File' = File
      BY <1>1 DEF vars, File
    <2>2. Standing' /\ Recorded' /\ Fixed'
      BY <2>1 DEF BInv, Standing, Recorded, Fixed
    <2>3. \A w \in Workers : pc'[w] \in Publishing => Follows(w)'
      BY <2>1 DEF BInv, Follows
    <2> QED
      BY <2>1, <2>2, <2>3 DEF BInv
  <1>2. CASE Users
    BY <1>2, UsersFollow
  <1>3. CASE World
    BY <1>3, WorldFollows
  <1>4. ASSUME NEW w \in Workers, WorkerStep(w) PROVE BInv'
    BY <1>4, OthersFollow, UploadFollows, PublicationFollows DEF WorkerStep
  <1> QED
    BY <1>1, <1>2, <1>3, <1>4 DEF Next

(* What YouTube got is the content that was approved last, and of a file    *)
(* that may change under its link one version, the approved one: the source *)
(* is compared before every read (youtube-upload.ts, remote-video.ts), and  *)
(* a row with a session keeps its approval and its file.                    *)
THEOREM AsApproved ==
  ASSUME MaxOverlaps = 0
  PROVE  Spec => []ApprovedBytes
  <1>1. IInv /\ BInv => ApprovedBytes
    <2> SUFFICES ASSUME IInv, BInv, NEW s \in Started
                 PROVE  /\ google[s].rev = agreed.rev
                        /\ \E v \in Versions : google[s].bytes = {v} /\ agreed.remote \in {0, v}
      BY DEF ApprovedBytes
    <2>1. s = item.session /\ s \in Sessions /\ google[s].bytes # {} /\ google[s] \in UploadState
      BY DEF IInv, Started, TypeOK
    <2>2. item.session # None /\ Standing /\ Recorded /\ Fixed
      BY <2>1, UploadConstants DEF BInv
    <2>3. google[s].rev = agreed.rev /\ google[s].bytes = {File}
      BY <2>1, <2>2 DEF Recorded
    <2>4. google[s].bytes \subseteq Versions
      BY <2>1 DEF UploadState
    <2>5. agreed.remote \in {0, item.remote}
      BY <2>2 DEF Standing, Recorded
    <2>6. agreed.remote \in {0, File}
      BY <2>2, <2>5 DEF File, Fixed
    <2> QED
      BY <2>3, <2>4, <2>6
  <1>2. IInv /\ BInv /\ [Next]_vars => IInv' /\ BInv'
    BY StepKeeps, StepFollows
  <1> QED
    BY InitKeeps, InitFollows, <1>1, <1>2, PTL DEF Spec
-----------------------------------------------------------------------------
(* Who goes on with an item that is being sent (MaxOverlaps = 0): JInv is   *)
(* inductive beside IInv and BInv.                                          *)

Publisher(k) == k[1] # "prepare"
Holds(w, k) == Publisher(k) /\ jobs[k].state = "active" /\ jobs[k].owner = w

\* Whoever reads, claims or publishes the item has a job of the version.
Manned ==
  /\ \A k \in Keys : jobs[k].owner # None => jobs[k].state = "active"
  /\ \A w \in Workers :
       /\ pc[w] \in {"read", "claim"} =>
            \E k \in Keys : Holds(w, k) /\ jobs[k].version = ctx[w].version
       /\ pc[w] \in Publishing => \E k \in Keys : Holds(w, k) /\ jobs[k].version = item.version

\* An executor that publishes the item, or is about to claim it.
Onward(w) ==
  \/ pc[w] \in Publishing
  \/ /\ ctx[w].version = item.version
     /\ pc[w] = "read" \/ (pc[w] = "claim" /\ ctx[w].seen = item.status)

Carries(k) ==
  /\ Publisher(k) /\ jobs[k].version = item.version
  /\ \/ jobs[k].state = "waiting" /\ calls = {}
     \/ jobs[k].state = "active" /\ jobs[k].owner = None
     \/ jobs[k].state = "active" /\ \E w \in Workers : jobs[k].owner = w /\ Onward(w)

\* A job that stalled, or whose worker is gone, has seen a crash; one whose
\* worker is gone is handed out once more.
Spared ==
  \A k \in Keys :
    /\ jobs[k].stalled => faults > 0
    /\ jobs[k].state = "active" /\ jobs[k].owner = None => faults > 0 /\ ~jobs[k].stalled

JInv ==
  /\ Manned
  /\ faults <= 1 => Spared /\ (Sending => \E k \in Keys : Carries(k))

(* A step of one worker that leaves the queue alone. *)
LEMMA QueueAlone ==
  ASSUME JInv, NEW w \in Workers, Stand(w), UNCHANGED <<jobs, calls, faults>>,
         item'.version = item.version,
         pc'[w] \in {"read", "claim"} =>
           pc[w] \in {"read", "claim"} /\ ctx'[w].version = ctx[w].version,
         pc'[w] \in Publishing =>
           pc[w] \in Publishing \/ (pc[w] = "claim" /\ ctx[w].version = item.version),
         Sending' => \/ pc'[w] \in Publishing
                     \/ item'.status = item.status /\ (Onward(w) => Onward(w)')
  PROVE  JInv'
  <1>1. pc'[w] \in Publishing => \E k \in Keys : Holds(w, k) /\ jobs[k].version = item.version
    BY DEF JInv, Manned
  <1>2. Manned'
    <2>1. ASSUME NEW v \in Workers
          PROVE  /\ pc'[v] \in {"read", "claim"} =>
                      \E k \in Keys : Holds(v, k) /\ jobs[k].version = ctx'[v].version
                 /\ pc'[v] \in Publishing =>
                      \E k \in Keys : Holds(v, k) /\ jobs[k].version = item.version
      <3>1. CASE v = w
        BY <1>1, <3>1 DEF JInv, Manned
      <3>2. CASE v # w
        BY <3>2 DEF JInv, Manned, Stand
      <3> QED
        BY <3>1, <3>2
    <2> QED
      BY <2>1 DEF JInv, Manned, Holds
  <1>3. ASSUME faults <= 1, Sending' PROVE \E k \in Keys : Carries(k)'
    <2>1. CASE pc'[w] \in Publishing
      BY <1>1, <2>1 DEF Carries, Holds, Onward
    <2>2. CASE item'.status = item.status /\ (Onward(w) => Onward(w)')
      <3>1. PICK k \in Keys : Carries(k)
        BY <1>3, <2>2 DEF JInv, Sending
      <3>2. \A v \in Workers : Onward(v) => Onward(v)'
        <4>1. ASSUME NEW v \in Workers, v # w, Onward(v) PROVE Onward(v)'
          BY <2>2, <4>1 DEF Onward, Stand
        <4> QED
          BY <2>2, <4>1
      <3> QED
        BY <3>1, <3>2 DEF Carries
    <2> QED
      BY <1>3, <2>1, <2>2
  <1>4. faults <= 1 => Spared'
    BY DEF JInv, Spared
  <1> QED
    BY <1>2, <1>3, <1>4 DEF JInv

(* The routes find the item outside a transfer. *)
LEMMA UsersCarry ==
  ASSUME IInv, JInv, Users
  PROVE  JInv'
  <1>1. UNCHANGED <<pc, ctx, jobs>> /\ Moved /\ TypeOK
    BY UsersType DEF IInv, UsersEffect
  <1>2. UNCHANGED faults
    BY DEF Users, Import, RemoveRow, UpdatePublished, PatchMedia, Resolve, Cancel, RetryPrepare,
           RetryFetch, RetrySend, Schedule, Edit, Stop, CalendarRetry, CalendarApprove,
           CalendarReject, Commit, Internal
  <1>3. ~Sending'
    BY <1>1 DEF Moved, Sending
  <1>4. Nobody
    BY <1>1 DEF IInv, Agrees, Moved, Nobody
  <1>5. Manned' /\ (faults' <= 1 => Spared')
    BY <1>1, <1>2, <1>4 DEF JInv, Manned, Holds, Spared, Nobody
  <1> QED
    BY <1>3, <1>5 DEF JInv

\* Of a job that is running an enqueue takes no notice.
Untaken(k) ==
  jobs'[k] = jobs[k] \/ (jobs[k].state # "active" /\ jobs'[k].state # "active"
                         /\ jobs'[k].owner = None /\ ~jobs'[k].stalled)

LEMMA EnqueueTakes ==
  ASSUME TypeOK, NEW c \in calls,
         EnqueuePlain(c) \/ EnqueueRefused(c) \/ EnqueueDated(c) \/ EnqueueFailed(c)
  PROVE  \A k \in Keys : Untaken(k)
  <1>0. JobsTyped /\ c \in Calls
    BY DEF TypeOK, JobsTyped
  <1>1. \A n : /\ Waiting(n).state = "waiting" /\ Waiting(n).owner = None /\ ~Waiting(n).stalled
               /\ NoJob.state = "none" /\ NoJob.owner = None /\ ~NoJob.stalled
    BY DEF Waiting, NoJob
  <1>2. Plain \in Keys
    BY DEF Keys
  <1>3. ASSUME jobs' = Replaced(c) \/ jobs' = [jobs EXCEPT ![Plain] = NoJob],
               jobs[Plain].state # "active"
        PROVE  \A k \in Keys : Untaken(k)
    BY <1>0, <1>1, <1>3 DEF Untaken, Replaced, JobsTyped
  <1>4. ASSUME NEW k \in Keys
        PROVE  \/ Cleaned(c)[k] = jobs[k]
               \/ Cleaned(c)[k] = NoJob /\ jobs[k].state # "active"
    BY DEF Cleaned, Dropped
  <1>5. ASSUME jobs' = Cleaned(c) PROVE \A k \in Keys : Untaken(k)
    BY <1>1, <1>4, <1>5 DEF Untaken
  <1>6. ASSUME jobs' = Added(c) PROVE \A k \in Keys : Untaken(k)
    <2>1. CASE jobs[Ticket(c)].state = "none"
      <3>1. DOMAIN Cleaned(c) = Keys
        BY <1>0 DEF Cleaned, Dropped, JobsTyped
      <3>2. jobs' = [Cleaned(c) EXCEPT ![Ticket(c)] = Waiting(c.version)]
        BY <1>6, <2>1 DEF Added
      <3>3. ASSUME NEW k \in Keys PROVE jobs'[k] = IF k = Ticket(c) THEN Waiting(c.version) ELSE Cleaned(c)[k]
        BY <3>1, <3>2
      <3> QED
        BY <1>1, <1>4, <2>1, <3>3 DEF Untaken
    <2>2. CASE jobs[Ticket(c)].state # "none"
      BY <1>5, <1>6, <2>2 DEF Added
    <2> QED
      BY <2>1, <2>2
  <1>7. ASSUME jobs' = jobs PROVE \A k \in Keys : Untaken(k)
    BY <1>7 DEF Untaken
  <1> QED
    BY <1>3, <1>5, <1>6, <1>7 DEF EnqueuePlain, EnqueueRefused, EnqueueDated, EnqueueFailed

(* The queue, recovery, time and crashes. *)
LEMMA WorldCarries ==
  ASSUME IInv, JInv, MaxOverlaps = 0, World
  PROVE  JInv'
  <1>0. /\ TypeOK /\ item \in Row /\ JobsTyped /\ PcTyped /\ CtxTyped /\ faults \in Nat
        /\ None \notin Workers
    BY UploadConstants, ItemConstants DEF IInv, TypeOK, JobsTyped, PcTyped, CtxTyped
  <1>1. ASSUME Manned', faults <= faults',
               faults' <= 1 /\ Spared => Spared',
               faults' <= 1 /\ Spared /\ Sending' => Sending /\ \A k \in Keys : Carries(k) => Carries(k)'
        PROVE  JInv'
    <2>1. faults' <= 1 => faults <= 1
      <3>1. faults' \in Nat
        BY WorldType, <1>0, ItemConstants DEF TypeOK
      <3> QED
        BY <1>0, <1>1, <3>1
    <2>2. ASSUME faults' <= 1, Sending' PROVE \E k \in Keys : Carries(k)'
      <3>1. Spared /\ Sending /\ \A k \in Keys : Carries(k) => Carries(k)'
        BY <1>1, <2>1, <2>2 DEF JInv
      <3> QED
        BY <2>1, <2>2, <3>1 DEF JInv
    <2>3. faults' <= 1 => Spared'
      BY <1>1, <2>1 DEF JInv
    <2> QED
      BY <1>1, <2>2, <2>3 DEF JInv
  <1>2. CASE Enqueue
    <2>1. PICK c \in calls : EnqueuePlain(c) \/ EnqueueRefused(c) \/ EnqueueDated(c) \/ EnqueueFailed(c)
      BY <1>2 DEF Enqueue
    <2>2. /\ UNCHANGED <<pc, ctx, faults>>
          /\ UNCHANGED <<item, overlaps>> \/ Missed \/ Refused(c)
      BY <1>0, <2>1, EnqueueType
    <2>3. \A k \in Keys : Untaken(k)
      BY <1>0, <2>1, EnqueueTakes
    <2>4. item'.version = item.version /\ (Sending' => UNCHANGED item)
      BY <1>0, <2>2 DEF Missed, Refused, Sending, Row
    <2>5. Manned'
      BY <2>2, <2>3, <2>4 DEF JInv, Manned, Holds, Untaken
    <2>6. Spared => Spared'
      BY <2>2, <2>3 DEF Spared, Untaken
    <2>7. ASSUME Sending', NEW k \in Keys, Carries(k) PROVE Carries(k)'
      <3>1. jobs'[k] = jobs[k]
        BY <2>3, <2>7 DEF Carries, Untaken
      <3>2. jobs[k].state = "active"
        BY <2>1, <2>7 DEF Carries
      <3>3. \A w \in Workers : Onward(w) => Onward(w)'
        BY <2>2, <2>4, <2>7 DEF Onward
      <3> QED
        BY <2>4, <2>7, <3>1, <3>2, <3>3 DEF Carries
    <2> QED
      BY <1>0, <1>1, <2>2, <2>4, <2>5, <2>6, <2>7 DEF Sending
  <1>3. CASE RecoverJob
    <2>1. /\ ~Sending /\ UNCHANGED <<item, pc, ctx, calls, faults>>
          /\ jobs' = [jobs EXCEPT ![Ready] = Waiting(item.version)] /\ ~Live(Ready)
      BY <1>3 DEF RecoverJob, Unprepared, Due, Sending, youtube, people
    <2>2. /\ Waiting(item.version).state = "waiting" /\ Waiting(item.version).owner = None
          /\ ~Waiting(item.version).stalled
      BY DEF Waiting, NoJob
    <2>3. \A k \in Keys : Untaken(k)
      BY <1>0, <2>1, <2>2 DEF Untaken, Live, JobsTyped
    <2>4. Manned' /\ (Spared => Spared')
      BY <2>1, <2>3 DEF JInv, Manned, Holds, Untaken, Spared
    <2> QED
      BY <1>0, <1>1, <2>1, <2>4 DEF Sending
  <1>4. ASSUME NEW k \in Keys, Stall(k) PROVE JInv'
    <2>1. /\ UNCHANGED <<item, pc, ctx, calls, faults>> /\ calls = {}
          /\ jobs[k].state = "active" /\ jobs[k].owner = None
          /\ jobs' = [jobs EXCEPT ![k] = Stalled(@)]
      BY <1>4 DEF Stall, Settled, youtube, people
    <2>2. jobs[k] \in Job /\ \A l \in Keys : l # k => jobs'[l] = jobs[l]
      BY <1>0, <2>1 DEF JobsTyped
    <2>3. jobs'[k] = Stalled(jobs[k])
      BY <1>0, <2>1 DEF JobsTyped
    <2>4. jobs'[k].owner = None /\ jobs'[k].state # "active"
      <3>1. NoJob.owner = None /\ NoJob.state = "none"
        BY DEF NoJob
      <3>2. [jobs[k] EXCEPT !.state = "waiting", !.stalled = TRUE].owner = jobs[k].owner
        BY <2>2 DEF Job
      <3>3. [jobs[k] EXCEPT !.state = "waiting", !.stalled = TRUE].state = "waiting"
        BY <2>2 DEF Job
      <3> QED
        BY <2>1, <2>3, <3>1, <3>2, <3>3 DEF Stalled
    <2>5. ~jobs[k].stalled => /\ jobs'[k].state = "waiting" /\ jobs'[k].stalled
                              /\ jobs'[k].version = jobs[k].version
      BY <2>2, <2>3 DEF Stalled, Job
    <2>6. Manned'
      BY <1>0, <2>1, <2>2, <2>4 DEF JInv, Manned, Holds
    <2>7. Spared => Spared'
      BY <2>1, <2>2, <2>4 DEF Spared
    <2>8. ASSUME Spared, NEW l \in Keys, Carries(l) PROVE Carries(l)'
      <3>1. CASE l = k
        BY <2>1, <2>5, <2>8, <3>1 DEF Spared, Carries
      <3>2. CASE l # k
        BY <2>1, <2>2, <2>8, <3>2 DEF Carries, Onward
      <3> QED
        BY <3>1, <3>2
    <2> QED
      BY <1>0, <1>1, <2>1, <2>6, <2>7, <2>8 DEF Sending
  <1>5. CASE ApiCrash
    <2>1. UNCHANGED <<item, pc, ctx, jobs>> /\ faults' = faults + 1 /\ calls' = {}
      BY <1>5 DEF ApiCrash, youtube
    <2>2. Manned' /\ (Spared => Spared')
      BY <1>0, <2>1 DEF JInv, Manned, Holds, Spared
    <2> QED
      BY <1>0, <1>1, <2>1, <2>2 DEF Sending, Carries, Onward
  <1>6. CASE Elapse \/ ChangeSource
    <2>1. /\ UNCHANGED <<pc, ctx, jobs, calls, faults>>
          /\ item'.version = item.version /\ item'.status = item.status
      BY <1>0, <1>6 DEF Elapse, ChangeSource, youtube, people, Row
    <2>2. Manned' /\ (Spared => Spared')
      BY <2>1 DEF JInv, Manned, Holds, Spared
    <2> QED
      BY <1>0, <1>1, <2>1, <2>2 DEF Sending, Carries, Onward
  <1>7. ASSUME NEW w \in Workers, Crash(w) PROVE JInv'
    <2>1. UNCHANGED <<item, calls>> /\ faults' = faults + 1
      BY <1>7 DEF Crash, people
    <2>2. Stand(w) /\ pc'[w] = "idle"
      BY <1>0, <1>7 DEF Crash, Goto, PcTyped, CtxTyped, Stand
    <2>3. ASSUME NEW k \in Keys
          PROVE  /\ jobs[k].owner # w => jobs'[k] = jobs[k]
                 /\ jobs[k].owner = w => /\ jobs'[k].owner = None /\ jobs'[k].state = jobs[k].state
                                         /\ jobs'[k].version = jobs[k].version
                                         /\ jobs'[k].stalled = jobs[k].stalled
      <3>1. jobs[k] \in Job /\ jobs'[k] = IF jobs[k].owner = w THEN [jobs[k] EXCEPT !.owner = None] ELSE jobs[k]
        BY <1>0, <1>7 DEF Crash, JobsTyped
      <3> QED
        BY <3>1 DEF Job
    <2>4. Manned'
      <3>1. ASSUME NEW v \in Workers, v # w, NEW k \in Keys, Holds(v, k) PROVE Holds(v, k)' /\ jobs'[k] = jobs[k]
        BY <2>3, <3>1 DEF Holds
      <3>2. \A k \in Keys : jobs'[k].owner # None => jobs'[k].state = "active"
        BY <2>3 DEF JInv, Manned
      <3>3. ASSUME NEW v \in Workers, v # w
            PROVE  /\ pc'[v] \in {"read", "claim"} =>
                        \E k \in Keys : Holds(v, k)' /\ jobs'[k].version = ctx'[v].version
                   /\ pc'[v] \in Publishing => \E k \in Keys : Holds(v, k)' /\ jobs'[k].version = item.version
        BY <2>2, <3>1, <3>3 DEF JInv, Manned, Stand
      <3> QED
        BY <2>1, <2>2, <3>2, <3>3, Apart DEF Manned
    <2>5. ASSUME faults' <= 1, Spared
          PROVE  Spared' /\ \A k \in Keys : Carries(k) => Carries(k)'
      <3>1. faults = 0 /\ faults' = 1
        BY <1>0, <2>1, <2>5
      <3>2. Spared'
        BY <2>3, <2>5, <3>1 DEF Spared
      <3>3. ASSUME NEW k \in Keys, Carries(k) PROVE Carries(k)'
        <4>1. CASE jobs[k].owner = w
          BY <1>0, <2>1, <2>3, <3>3, <4>1 DEF Carries, JInv, Manned
        <4>2. CASE jobs[k].owner # w
          <5>1. \A v \in Workers : v # w /\ Onward(v) => Onward(v)'
            BY <2>1, <2>2 DEF Onward, Stand
          <5> QED
            BY <2>1, <2>3, <3>3, <4>2, <5>1 DEF Carries
        <4> QED
          BY <4>1, <4>2
      <3> QED
        BY <3>2, <3>3
    <2> QED
      BY <1>0, <1>1, <2>1, <2>4, <2>5 DEF Sending
  <1> QED
    BY <1>2, <1>3, <1>4, <1>5, <1>6, <1>7 DEF World

(* The worker that takes a job, and the one that gives it back. *)
LEMMA TakersCarry ==
  ASSUME IInv, JInv, NEW w \in Workers, FinishJob(w) \/ \E k \in Keys : StartJob(w, k)
  PROVE  JInv'
  <1>0. /\ TypeOK /\ JobsTyped /\ PcTyped /\ CtxTyped /\ None \notin Workers
        /\ UNCHANGED <<item, calls, faults>>
    BY UploadConstants DEF IInv, TypeOK, JobsTyped, PcTyped, CtxTyped, FinishJob, StartJob, people
  <1>1. Stand(w)
    BY <1>0 DEF FinishJob, StartJob, Goto, PcTyped, CtxTyped, Stand
  <1>2. ASSUME NEW k \in Keys, StartJob(w, k) PROVE JInv'
    <2>1. /\ pc[w] = "idle" /\ jobs[k].state = "waiting" /\ jobs[k] \in Job
          /\ jobs' = [jobs EXCEPT ![k].state = "active", ![k].owner = w]
          /\ pc'[w] = IF k[1] = "prepare" THEN "prepLock" ELSE "read"
          /\ ctx'[w].version = jobs[k].version
      BY <1>0, <1>2 DEF StartJob, Goto, PcTyped, CtxTyped, JobsTyped, Context
    <2>2. /\ \A l \in Keys : l # k => jobs'[l] = jobs[l]
          /\ jobs'[k] = [jobs[k] EXCEPT !.state = "active", !.owner = w]
      BY <1>0, <2>1 DEF JobsTyped
    <2>3. /\ jobs'[k].state = "active" /\ jobs'[k].owner = w
          /\ jobs'[k].version = jobs[k].version /\ jobs'[k].stalled = jobs[k].stalled
      <3>1. ASSUME NEW job \in Job
            PROVE  /\ [job EXCEPT !.state = "active", !.owner = w].state = "active"
                   /\ [job EXCEPT !.state = "active", !.owner = w].owner = w
                   /\ [job EXCEPT !.state = "active", !.owner = w].version = job.version
                   /\ [job EXCEPT !.state = "active", !.owner = w].stalled = job.stalled
        BY DEF Job
      <3> QED
        BY <2>1, <2>2, <3>1
    <2>4. Manned'
      <3>1. ASSUME NEW v \in Workers, v # w, NEW l \in Keys, Holds(v, l) PROVE Holds(v, l)' /\ jobs'[l] = jobs[l]
        BY <2>1, <2>2, <3>1 DEF Holds
      <3>2. \A l \in Keys : jobs'[l].owner # None => jobs'[l].state = "active"
        BY <2>2, <2>3 DEF JInv, Manned
      <3>3. ASSUME NEW v \in Workers, v # w
            PROVE  /\ pc'[v] \in {"read", "claim"} =>
                        \E l \in Keys : Holds(v, l)' /\ jobs'[l].version = ctx'[v].version
                   /\ pc'[v] \in Publishing => \E l \in Keys : Holds(v, l)' /\ jobs'[l].version = item.version
        BY <1>1, <3>1, <3>3 DEF JInv, Manned, Stand
      <3>4. pc'[w] \notin Publishing /\ (pc'[w] \in {"read", "claim"} => Publisher(k))
        BY <2>1, Apart DEF Publisher
      <3>5. /\ pc'[w] \in {"read", "claim"} =>
                 \E l \in Keys : Holds(w, l)' /\ jobs'[l].version = ctx'[w].version
            /\ pc'[w] \in Publishing => \E l \in Keys : Holds(w, l)' /\ jobs'[l].version = item.version
        BY <2>1, <2>3, <3>4 DEF Holds
      <3>6. ASSUME NEW v \in Workers
            PROVE  /\ pc'[v] \in {"read", "claim"} =>
                        \E l \in Keys : Holds(v, l)' /\ jobs'[l].version = ctx'[v].version
                   /\ pc'[v] \in Publishing => \E l \in Keys : Holds(v, l)' /\ jobs'[l].version = item.version
        BY <3>3, <3>5
      <3> QED
        BY <1>0, <3>2, <3>6 DEF Manned
    <2>5. faults <= 1 => Spared'
      BY <1>0, <2>2, <2>3, ZenonT(30) DEF JInv, Spared
    <2>6. ASSUME NEW l \in Keys, Carries(l) PROVE Carries(l)'
      <3>1. CASE l = k
        <4>1. /\ pc'[w] = "read" /\ ctx'[w].version = item'.version
              /\ Publisher(k) /\ jobs'[k].version = item'.version
          <5>1. Publisher(k) /\ jobs[k].version = item.version
            BY <2>6, <3>1 DEF Carries
          <5>2. pc'[w] = "read" /\ ctx'[w].version = jobs[k].version
            BY <2>1, <5>1 DEF Publisher
          <5>3. jobs'[k].version = jobs[k].version
            BY <2>2
          <5>4. item'.version = item.version
            BY <1>0
          <5> QED
            BY <5>1, <5>2, <5>3, <5>4
        <4>2. Onward(w)'
          BY <4>1 DEF Onward
        <4>3. Carries(k)'
          <5>1. jobs'[k].state = "active" /\ \E v \in Workers : jobs'[k].owner = v /\ Onward(v)'
            BY <2>3, <4>2
          <5> QED
            BY <4>1, <5>1 DEF Carries
        <4> QED
          BY <3>1, <4>3
      <3>2. CASE l # k
        <4>1. \A v \in Workers : Onward(v) => Onward(v)'
          BY <1>0, <1>1, <2>1, Apart DEF Onward, Stand
        <4> QED
          BY <1>0, <2>2, <2>6, <3>2, <4>1 DEF Carries
      <3> QED
        BY <3>1, <3>2
    <2> QED
      BY <1>0, <2>4, <2>5, <2>6 DEF JInv, Sending
  <1>3. CASE FinishJob(w)
    <2>1. /\ pc[w] = "finish" /\ pc'[w] = "idle" /\ UNCHANGED ctx
          /\ jobs' = [k \in Keys |-> IF jobs[k].owner = w THEN NoJob ELSE jobs[k]]
      BY <1>0, <1>3 DEF FinishJob, Goto, PcTyped
    <2>2. NoJob.owner = None /\ NoJob.state = "none" /\ ~NoJob.stalled
      BY DEF NoJob
    <2>3. Manned'
      <3>1. ASSUME NEW v \in Workers, v # w, NEW l \in Keys, Holds(v, l) PROVE Holds(v, l)' /\ jobs'[l] = jobs[l]
        BY <2>1, <3>1 DEF Holds
      <3>2. \A l \in Keys : jobs'[l].owner # None => jobs'[l].state = "active"
        BY <2>1, <2>2 DEF JInv, Manned
      <3>3. ASSUME NEW v \in Workers, v # w
            PROVE  /\ pc'[v] \in {"read", "claim"} =>
                        \E l \in Keys : Holds(v, l)' /\ jobs'[l].version = ctx'[v].version
                   /\ pc'[v] \in Publishing => \E l \in Keys : Holds(v, l)' /\ jobs'[l].version = item.version
        BY <1>1, <3>1, <3>3 DEF JInv, Manned, Stand
      <3> QED
        BY <1>0, <2>1, <3>2, <3>3, Apart DEF Manned
    <2>4. faults <= 1 => Spared'
      BY <1>0, <2>1, <2>2 DEF JInv, Spared
    <2>5. ASSUME NEW l \in Keys, Carries(l) PROVE Carries(l)'
      <3>1. \A v \in Workers : Onward(v) => v # w /\ Onward(v)'
        BY <1>0, <1>1, <2>1, Apart DEF Onward, Stand
      <3>2. jobs[l].owner # w \/ jobs[l].state = "waiting"
        BY <1>0, <2>5, <3>1 DEF Carries
      <3>3. jobs[l].owner # w
        BY <1>0, <3>2 DEF JInv, Manned
      <3>4. jobs'[l] = jobs[l]
        BY <2>1, <3>3
      <3> QED
        BY <1>0, <2>5, <3>1, <3>4 DEF Carries
    <2> QED
      BY <1>0, <2>3, <2>4, <2>5 DEF JInv, Sending
  <1> QED
    BY <1>2, <1>3

(* A step of the upload keeps the version. *)
LEMMA UploadRow ==
  ASSUME TypeOK, NEW w \in Workers, UploadStep(w)
  PROVE  item'.version = item.version
  <1>0. item \in Row /\ ctx[w].mine \in Mine
    BY DEF TypeOK, Context
  <1>1. ASSUME NEW mine \in Mine PROVE WithSettings(item, mine).version = item.version
    BY <1>0, Written
  <1>2. CASE CheckSource(w)
    <2>0. source \in 0 .. MaxSource
      BY UploadConstants DEF TypeOK, Versions
    <2>1. [ctx[w].mine EXCEPT !.remote = IF collection THEN source ELSE @,
                              !.media = IF collection THEN FALSE ELSE @] \in Mine
      BY <1>0, <2>0 DEF Mine
    <2> QED
      BY <1>1, <1>2, <2>1 DEF CheckSource
  <1>3. CASE PostSession(w) \/ PutBlocked(w) \/ PutRefused(w) \/ PutLost(w) \/ PutDone(w)
    BY <1>3 DEF PostSession, PutBlocked, PutRefused, PutLost, PutDone
  <1>4. CASE PutContinue(w)
    BY <1>0, <1>1, <1>4 DEF PutContinue
  <1>5. CASE SaveSession(w) \/ SaveMoved(w)
    BY <1>0, <1>5 DEF SaveSession, SaveMoved, Row
  <1>6. CASE SaveVideo(w)
    <2>1. WithSettings(item, ctx[w].mine) \in Row
      BY <1>0, Written
    <2> QED
      BY <1>0, <1>1, <1>6, <2>1 DEF SaveVideo, Row
  <1> QED
    BY <1>2, <1>3, <1>4, <1>5, <1>6 DEF UploadStep

(* Reading, claiming, preparing: the item goes on with whoever took it. *)
LEMMA ReadersCarry ==
  ASSUME IInv, BInv, JInv, MaxOverlaps = 0, NEW w \in Workers,
         \/ PollImages(w) \/ Read(w) \/ Claim(w)
         \/ PrepareLock(w) \/ PrepareClaim(w) \/ PrepareInspect(w) \/ PrepareEnd(w)
  PROVE  JInv'
  <1>0. /\ TypeOK /\ item \in Row /\ PcTyped /\ CtxTyped /\ ctx[w] \in Context /\ ctx[w].mine \in Mine
        /\ UNCHANGED <<jobs, calls, faults>>
    BY DEF IInv, TypeOK, PcTyped, CtxTyped, Context, people, PollImages, Read, Claim,
           PrepareLock, PrepareClaim, PrepareInspect, PrepareEnd
  <1>1. Stand(w)
    BY <1>0, WorkerType DEF WorkerStep
  <1>q. ASSUME pc[w] \notin Publishing, pc[w] # "read", pc[w] # "claim" PROVE ~Onward(w)
    BY <1>q DEF Onward
  <1>2. CASE PollImages(w)
    <2>1. UNCHANGED item /\ pc[w] = "idle" /\ pc'[w] = "prepLock"
      BY <1>0, <1>2 DEF PollImages, Goto, PcTyped
    <2> QED
      BY <1>0, <1>1, <1>q, <2>1, Apart, QueueAlone DEF Sending
  <1>3. CASE Read(w)
    <2>0. UNCHANGED item /\ pc[w] = "read"
      BY <1>3 DEF Read
    <2>1. CASE Publishable /\ item.version = ctx[w].version
      <3>1. /\ pc'[w] = "claim" /\ ctx'[w].version = ctx[w].version /\ ctx'[w].seen = item.status
        BY <1>0, <1>3, <2>1 DEF Read, Goto, PcTyped, CtxTyped, Context
      <3>2. Onward(w)'
        BY <2>0, <2>1, <3>1 DEF Onward
      <3> QED
        BY <1>0, <1>1, <2>0, <3>1, <3>2, Apart, QueueAlone
    <2>2. CASE ~(Publishable /\ item.version = ctx[w].version)
      <3>1. pc'[w] = "finish"
        BY <1>0, <1>3, <2>2, EndType DEF Read
      <3>2. Sending => ~Onward(w)
        BY <2>0, <2>2, Apart DEF Onward, Sending, Publishable, BInv, Standing, Goes
      <3> QED
        BY <1>0, <1>1, <2>0, <3>1, <3>2, Apart, QueueAlone DEF Sending
    <2> QED
      BY <2>1, <2>2
  <1>4. CASE Claim(w)
    <2>0. pc[w] = "claim"
      BY <1>4 DEF Claim
    <2>1. CASE Claimable(w)
      <3>1. pc'[w] = "authenticate" /\ item'.version = item.version
        BY <1>0, <1>4, <2>1 DEF Claim, Goto, PcTyped, Row
      <3>2. "authenticate" \in Publishing /\ ctx[w].version = item.version
        BY <2>1 DEF Publishing, Claimable
      <3> QED
        BY <1>0, <1>1, <2>0, <3>1, <3>2, Apart, QueueAlone
    <2>2. CASE ~Claimable(w)
      <3>1. pc'[w] = "finish" /\ UNCHANGED item
        BY <1>0, <1>4, <2>2, EndType DEF Claim
      <3>2. ~Onward(w)
        BY <2>0, <2>2, Apart DEF Onward, Claimable
      <3> QED
        BY <1>0, <1>1, <2>0, <3>1, <3>2, Apart, QueueAlone
    <2> QED
      BY <2>1, <2>2
  <1>p. ASSUME pc[w] \in Preparation \cup {"prepLock"}, pc'[w] \in Preparation \cup {"finish"},
               item'.version = item.version, Sending' => item'.status = item.status
        PROVE  JInv'
    <2>1. ~Onward(w)
      BY <1>p, <1>q, Apart
    <2> QED
      BY <1>0, <1>1, <1>p, <2>1, Apart, QueueAlone
  <1>5. CASE PrepareLock(w)
    <2>1. pc[w] = "prepLock" /\ pc'[w] \in {"finish", "prepClaim"} /\ UNCHANGED item
      BY <1>0, <1>5, EndType DEF PrepareLock, Goto, PcTyped
    <2> QED
      BY <1>p, <2>1 DEF Preparation
  <1>6. CASE PrepareClaim(w)
    <2>1. /\ pc[w] = "prepClaim" /\ pc'[w] \in {"finish", "prepInspect"}
          /\ UNCHANGED item \/ item' = [item EXCEPT !.status = "preparing"]
      BY <1>0, <1>6, EndType DEF PrepareClaim, Goto, PcTyped
    <2>2. item'.version = item.version /\ (Sending' => item'.status = item.status)
      BY <1>0, <2>1 DEF Sending, Row
    <2> QED
      BY <1>p, <2>1, <2>2 DEF Preparation
  <1>7. CASE PrepareInspect(w)
    <2>1. pc[w] = "prepInspect" /\ pc'[w] \in {"prepFailed", "prepLater", "prepReady"}
      BY <1>0, <1>7 DEF PrepareInspect, Goto, PcTyped
    <2>2. /\ [ctx[w].mine EXCEPT !.remote = 0, !.media = FALSE] \in Mine
          /\ [[ctx[w].mine EXCEPT !.remote = 0, !.media = FALSE] EXCEPT !.remote = source, !.changed = FALSE] \in Mine
      <3>1. source \in 0 .. MaxSource /\ 0 \in 0 .. MaxSource
        BY <1>0, UploadConstants DEF TypeOK, Versions
      <3> QED
        BY <1>0, <3>1 DEF Mine
    <2>3. UNCHANGED item \/ \E mine \in Mine : item' = WithSettings(item, mine)
      BY <1>0, <1>7, <2>2 DEF PrepareInspect
    <2>4. item'.version = item.version /\ item'.status = item.status
      BY <1>0, <2>3, Written
    <2> QED
      BY <1>p, <2>1, <2>4 DEF Preparation
  <1>8. CASE PrepareEnd(w)
    <2>1. pc[w] \in Preparation /\ pc'[w] = "finish"
      BY <1>0, <1>8, EndType DEF PrepareEnd, Preparation
    <2>2. UNCHANGED item \/ item' = [WithSettings(item, ctx[w].mine) EXCEPT !.status = Prepared(w)]
      BY <1>8 DEF PrepareEnd
    <2>3. Prepared(w) \in {"waiting_approval", "waiting_video", "failed"}
      BY DEF Prepared
    <2>4. WithSettings(item, ctx[w].mine) \in Row /\ WithSettings(item, ctx[w].mine).version = item.version
      BY <1>0, Written
    <2>5. item'.version = item.version /\ (Sending' => item'.status = item.status)
      BY <1>0, <2>2, <2>3, <2>4 DEF Sending, Row
    <2> QED
      BY <1>p, <2>1, <2>5
  <1> QED
    BY <1>2, <1>3, <1>4, <1>5, <1>6, <1>7, <1>8

(* Publishing: the executor goes on, or the item is sent no more. *)
LEMMA PublishersCarry ==
  ASSUME IInv, JInv, NEW w \in Workers,
         \/ Authenticate(w) \/ Upload(w) \/ MarkProcessing(w) \/ SetCover(w) \/ Poll(w)
         \/ AttachPlaylist(w) \/ MarkPublished(w) \/ Fail(w)
  PROVE  JInv'
  <1>0. /\ TypeOK /\ item \in Row /\ PcTyped /\ CtxTyped /\ ctx[w] \in Context /\ ctx[w].mine \in Mine
        /\ UNCHANGED <<jobs, calls, faults>>
    BY DEF IInv, TypeOK, PcTyped, CtxTyped, Context, people, Authenticate, Upload, MarkProcessing,
           SetCover, Poll, AttachPlaylist, MarkPublished, Fail
  <1>1. Stand(w)
    BY <1>0, WorkerType DEF WorkerStep
  <1>2. ASSUME pc[w] \in Publishing, item'.version = item.version,
               pc'[w] \in Publishing \/ (pc'[w] = "finish" /\ ~Sending')
        PROVE  JInv'
    BY <1>0, <1>1, <1>2, Apart, QueueAlone
  <1>3. /\ \A mine \in Mine : WithSettings(item, mine) \in Row /\ WithSettings(item, mine).version = item.version
        /\ {"authenticate", "processing", "cover", "poll", "playlist", "publish", "fail", "source"} \subseteq Publishing
    BY <1>0, Written DEF Publishing
  <1>t. ASSUME NEW e \in {"error", "ambiguous", "changed"}, Throw(w, e) PROVE pc'[w] = "fail"
    BY <1>0, <1>t, ThrowType
  <1>4. CASE Upload(w)
    <2>1. pc'[w] \in Publishing /\ item'.version = item.version
      BY <1>0, <1>4, UploadType, UploadRow DEF Upload
    <2>2. pc[w] \in Publishing
      BY <1>4 DEF Upload, UploadStep, CheckSource, PostSession, SaveSession, PutBlocked, PutRefused,
         PutLost, PutContinue, SaveMoved, PutDone, SaveVideo, Publishing
    <2> QED
      BY <1>2, <2>1, <2>2
  <1>5. CASE Authenticate(w) \/ AttachPlaylist(w)
    <2>1. /\ pc[w] \in Publishing /\ item' = WithSettings(item, ctx[w].mine)
          /\ pc'[w] \in {"fail", "source", "cover", "publish"}
      BY <1>0, <1>3, <1>5, <1>t DEF Authenticate, AttachPlaylist, Goto, PcTyped
    <2> QED
      BY <1>0, <1>2, <1>3, <2>1
  <1>6. CASE MarkProcessing(w) \/ Poll(w)
    <2>1. /\ pc[w] \in Publishing /\ pc'[w] \in {"fail", "cover", "playlist"}
      BY <1>0, <1>3, <1>6, <1>t DEF MarkProcessing, Poll, Goto, PcTyped
    <2>2. item'.version = item.version
      BY <1>0, <1>6 DEF MarkProcessing, Poll, Row
    <2> QED
      BY <1>2, <1>3, <2>1, <2>2
  <1>7. CASE SetCover(w)
    <2>1. [ctx[w].mine EXCEPT !.cover = TRUE] \in Mine
      BY <1>0 DEF Mine
    <2>2. /\ pc[w] = "cover" /\ pc'[w] \in {"poll", "fail"}
          /\ UNCHANGED item \/ item' = WithSettings(item, [ctx[w].mine EXCEPT !.cover = TRUE])
      BY <1>0, <1>7, <1>t DEF SetCover, Goto, PcTyped
    <2>3. item'.version = item.version
      BY <1>3, <2>1, <2>2
    <2> QED
      BY <1>2, <1>3, <2>2, <2>3
  <1>8. CASE MarkPublished(w)
    <2>1. pc[w] = "publish" /\ pc'[w] = "finish" /\ item' = [item EXCEPT !.status = "published"]
      BY <1>0, <1>8, EndType DEF MarkPublished
    <2>2. item'.version = item.version /\ ~Sending'
      BY <1>0, <2>1 DEF Sending, Row
    <2> QED
      BY <1>2, <1>3, <2>1, <2>2
  <1>9. CASE Fail(w)
    <2>1. /\ pc[w] = "fail" /\ pc'[w] = "finish"
          /\ item' = [WithSettings(item, Lesson(ctx[w])) EXCEPT !.status = "failed"]
      BY <1>0, <1>9, EndType DEF Fail
    <2>2. Lesson(ctx[w]) \in Mine
      BY <1>0, LessonType
    <2>3. item'.version = item.version /\ ~Sending'
      BY <1>0, <1>3, <2>1, <2>2 DEF Sending, Row
    <2> QED
      BY <1>2, <1>3, <2>1, <2>3
  <1> QED
    BY <1>4, <1>5, <1>6, <1>7, <1>8, <1>9

LEMMA InitCarries == Init => JInv
  <1> SUFFICES ASSUME Init PROVE JInv
    OBVIOUS
  <1>1. /\ \A w \in Workers : pc[w] = "idle"
        /\ \A k \in Keys : jobs[k].owner = None /\ jobs[k].state = "none" /\ ~jobs[k].stalled
    BY DEF Init, NoJob
  <1>2. ~Sending
    BY DEF Init, Blank, NewItem, Sending
  <1> QED
    BY <1>1, <1>2, Apart DEF JInv, Manned, Spared

LEMMA StepCarries ==
  ASSUME IInv, BInv, JInv, MaxOverlaps = 0, [Next]_vars
  PROVE  JInv'
  <1>1. CASE UNCHANGED vars
    BY <1>1 DEF vars, JInv, Manned, Holds, Spared, Sending, Carries, Onward
  <1>2. CASE Users
    BY <1>2, UsersCarry
  <1>3. CASE World
    BY <1>3, WorldCarries
  <1>4. ASSUME NEW w \in Workers, WorkerStep(w) PROVE JInv'
    BY <1>4, TakersCarry, ReadersCarry, PublishersCarry DEF WorkerStep
  <1> QED
    BY <1>1, <1>2, <1>3, <1>4 DEF Next

(* An item that is being sent has a job that goes on with it, until workers *)
(* or the API have crashed twice: whatever people, the recovery pass, stalls*)
(* and the jobs of other versions do in between.                            *)
THEOREM CarriedOn ==
  ASSUME MaxOverlaps = 0
  PROVE  Spec => [](faults <= 1 => Carried)
  <1>1. JInv => (faults <= 1 => Carried)
    BY DEF JInv, Carries, Carried, Publisher, Live
  <1>2. IInv /\ BInv /\ JInv /\ [Next]_vars => IInv' /\ BInv' /\ JInv'
    BY StepKeeps, StepFollows, StepCarries
  <1> QED
    BY InitKeeps, InitFollows, InitCarries, <1>1, <1>2, PTL DEF Spec
-----------------------------------------------------------------------------
(* What happens to one item is what Delivery allows (MaxOverlaps = 0).      *)

\* YouTube finishes a video once it has every chunk, and a chunk leaves bytes.
Full(g) == (g.received > 0 => g.bytes # {}) /\ (g.video # "none" => g.received = Chunks)

\* A video that is recorded, or about to be, is there.
Has(s) == s \in Sessions /\ google[s].video # "none"

Whole ==
  /\ \A s \in Sessions : Full(google[s])
  /\ item.video # None => Has(item.video)
  /\ \A w \in Workers : pc[w] = "saveVideo" => Has(ctx[w].mine.video)

Allowed == [D!DeliveryNext]_(D!deliveryVars)

(* Where bytes went into one session at most, YouTube has one video at most. *)
LEMMA Counted ==
  ASSUME NEW g \in [Sessions -> UploadState], \A s \in Sessions : Full(g[s]),
         NEW i, {s \in Sessions : g[s].bytes # {}} \subseteq {i}
  PROVE  /\ {s \in Sessions : g[s].video # "none"} \subseteq {i}
         /\ Cardinality({s \in Sessions : g[s].video # "none"}) =
              IF {s \in Sessions : g[s].video # "none"} = {} THEN 0 ELSE 1
  <1> DEFINE V == {s \in Sessions : g[s].video # "none"}
  <1>1. V \subseteq {i}
    <2>1. ASSUME NEW s \in V PROVE s = i
      <3>1. g[s].received > 0
        BY UploadConstants DEF Full
      <3> QED
        BY <3>1 DEF Full
    <2> QED
      BY <2>1
  <1>2. V = {} \/ V = {i}
    BY <1>1
  <1>3. Cardinality({}) = 0 /\ Cardinality({i}) = 1
    BY FS_EmptySet, FS_Singleton
  <1> QED
    BY <1>1, <1>2, <1>3

LEMMA Copies ==
  ASSUME IInv, Whole
  PROVE  /\ Videos \subseteq {item.session} /\ Cardinality(Videos) = (IF Videos = {} THEN 0 ELSE 1)
         /\ item.session = None => Videos = {}
  <1>1. google \in [Sessions -> UploadState] /\ Started \subseteq {item.session}
    BY DEF IInv, TypeOK
  <1>2. Videos \subseteq {item.session} /\ Cardinality(Videos) = (IF Videos = {} THEN 0 ELSE 1)
    BY <1>1, Counted DEF Whole, Videos, Started
  <1> QED
    BY <1>2, UploadConstants DEF Videos

LEMMA CopiesNext ==
  ASSUME IInv', Whole'
  PROVE  /\ Videos' \subseteq {item'.session}
         /\ Cardinality(Videos)' = (IF Videos' = {} THEN 0 ELSE 1)
         /\ item'.session = None => Videos' = {}
  <1>1. google' \in [Sessions -> UploadState] /\ Started' \subseteq {item'.session}
    BY DEF IInv, TypeOK
  <1>2. Videos' \subseteq {item'.session} /\ Cardinality(Videos') = (IF Videos' = {} THEN 0 ELSE 1)
    BY <1>1, Counted DEF Whole, Videos, Started
  <1> QED
    BY <1>2, UploadConstants DEF Videos

(* A step that leaves what is recorded and what YouTube has alone. *)
LEMMA Deciding ==
  ASSUME Videos' = Videos, item'.video = item.video, item'.session = item.session,
         item'.unknown = item.unknown, Asked' = Asked
  PROVE  Allowed
  <1>1. Stage' = Stage \/ (Stage \in {"withheld", "released"} /\ Stage' \in {"withheld", "released"})
    BY DEF Stage
  <1> QED
    BY <1>1 DEF Allowed, D!deliveryVars, D!DeliveryNext, D!Decide, D!Move

\* Nobody else publishes.
LEMMA Asking ==
  ASSUME IInv, NEW w \in Workers, pc[w] \in Publishing, Stand(w)
  PROVE  (Asked <=> Asks(w)) /\ (Asked' <=> Asks(w)')
  <1>1. \A v \in Workers : v # w => ~Asks(v) /\ ~Asks(v)'
    BY DEF IInv, Alone, Stand, Asks, Publishing
  <1> QED
    BY <1>1 DEF Asked

LEMMA Unasked ==
  ASSUME NEW w \in Workers, Stand(w), ~Asks(w), ~Asks(w)'
  PROVE  Asked' = Asked
  BY DEF Asked, Asks, Stand

\* YouTube keeps what it has of each session.
Same == \A s \in Sessions : \A f \in {"received", "bytes", "video"} : google'[s][f] = google[s][f]

LEMMA Lasts ==
  ASSUME Whole, Same, item'.video = item.video,
         \A v \in Workers : pc'[v] = "saveVideo" => pc[v] = "saveVideo" /\ ctx'[v].mine = ctx[v].mine
  PROVE  Whole' /\ Videos' = Videos
  <1>1. Videos' = Videos
    BY DEF Same, Videos
  <1>2. \A s \in Sessions : Full(google'[s])
    BY DEF Whole, Same, Full
  <1>3. \A s : Has(s) => Has(s)'
    BY DEF Has, Same
  <1> QED
    BY <1>1, <1>2, <1>3 DEF Whole, Has

LEMMA UsersMap ==
  ASSUME IInv, Whole, Users
  PROVE  Whole' /\ Allowed
  <1>0. TypeOK /\ Moved /\ UNCHANGED <<pc, ctx>>
    BY UsersType DEF IInv, UsersEffect
  <1>1. /\ item'.video = item.video /\ item'.session = item.session /\ item'.unknown = item.unknown
        /\ Asked' = Asked
    BY <1>0 DEF Moved, Asked, Asks
  <1>2. Same
    <2>1. CASE UpdatePublished
      BY <1>0, <2>1 DEF UpdatePublished, TypeOK, UploadState, Same
    <2>2. CASE ~UpdatePublished
      <3>1. UNCHANGED google
        BY <2>2 DEF Users, Import, RemoveRow, PatchMedia, Resolve, Cancel, RetryPrepare, RetryFetch,
           RetrySend, Schedule, Edit, Stop, CalendarRetry, CalendarApprove, CalendarReject, Commit,
           Internal, youtube
      <3> QED
        BY <3>1 DEF Same
    <2> QED
      BY <2>1, <2>2
  <1> QED
    BY <1>0, <1>1, <1>2, Lasts, Deciding

LEMMA WorldMap ==
  ASSUME IInv, Whole, World, MaxOverlaps = 0
  PROVE  Whole' /\ Allowed
  <1>0. TypeOK /\ item \in Row /\ UNCHANGED google
    BY DEF IInv, TypeOK, World, Enqueue, EnqueuePlain, EnqueueRefused, EnqueueDated, EnqueueFailed, Outside,
       RecoverJob, ApiCrash, Elapse, ChangeSource, Stall, Crash, youtube
  <1>s. Same
    BY <1>0 DEF Same
  <1>1. CASE \E w \in Workers : Crash(w)
    <2>1. PICK w \in Workers : Crash(w)
      BY <1>1
    <2>2. UNCHANGED item /\ Stand(w) /\ pc'[w] = "idle"
      BY <1>0, <2>1 DEF Crash, Goto, Stand, TypeOK
    <2>3. Whole' /\ Videos' = Videos
      BY <1>s, <2>2, Lasts DEF Stand
    <2>4. ~Asks(w)'
      BY <2>2 DEF Asks
    <2>5. CASE Asks(w)
      <3>1. pc[w] \in Publishing /\ item.session = None /\ item.video = None
        BY <2>5 DEF Asks, IInv, Agrees, Publishing, Transfer
      <3>2. Asked /\ ~Asked' /\ Videos = {}
        BY <2>2, <2>4, <2>5, <3>1, Asking, Copies
      <3>3. Stage = "inFlight" /\ Stage' \in {"unclear", "released", "withheld"}
        BY <2>2, <3>1, <3>2 DEF Stage
      <3>4. Cardinality(Videos) = 0 /\ Cardinality(Videos)' = 0
        BY <2>3, <3>2, Copies
      <3> QED
        BY <2>3, <3>3, <3>4
           DEF Allowed, D!deliveryVars, D!DeliveryNext, D!LoseTrack, D!Refuse, D!Move
    <2>6. CASE ~Asks(w)
      BY <2>2, <2>3, <2>4, <2>6, Unasked, Deciding
    <2> QED
      BY <2>5, <2>6
  <1>2. CASE ~\E w \in Workers : Crash(w)
    <2>1. UNCHANGED <<pc, ctx>>
      BY <1>2 DEF World, Enqueue, EnqueuePlain, EnqueueRefused, EnqueueDated, EnqueueFailed, Outside,
         RecoverJob, ApiCrash, Elapse, ChangeSource, Stall
    <2>2. \A f \in {"session", "video", "unknown"} : item'[f] = item[f]
      <3>1. \/ UNCHANGED item \/ item' = [item EXCEPT !.status = "failed"]
            \/ item' = [item EXCEPT !.date = "due"]
        BY <1>2 DEF World, Enqueue, EnqueuePlain, EnqueueRefused, EnqueueDated, EnqueueFailed,
           RecoverJob, ApiCrash, Elapse, ChangeSource, Stall
      <3> QED
        BY <1>0, <3>1 DEF Row
    <2>3. Asked' = Asked
      BY <2>1 DEF Asked, Asks
    <2> QED
      BY <1>s, <2>1, <2>2, <2>3, Lasts, Deciding
  <1> QED
    BY <1>1, <1>2

(* Workers outside a publication. *)
LEMMA OthersMap ==
  ASSUME IInv, Whole, MaxOverlaps = 0, NEW w \in Workers,
         \/ \E k \in Keys : StartJob(w, k)
         \/ PollImages(w) \/ FinishJob(w) \/ Read(w) \/ Claim(w)
         \/ PrepareLock(w) \/ PrepareClaim(w) \/ PrepareInspect(w) \/ PrepareEnd(w)
  PROVE  Whole' /\ Allowed
  <1> DEFINE mine == ctx[w].mine
             started == {"idle", "read", "claim", "finish", "prepLock", "authenticate"} \cup Preparation
  <1>0. /\ TypeOK /\ item \in Row /\ mine \in Mine /\ PcTyped /\ CtxTyped /\ Stand(w)
        /\ ctx[w] \in Context
    BY WorkerType DEF IInv, TypeOK, Context, WorkerStep, PcTyped, CtxTyped
  <1>1. UNCHANGED google
    BY DEF StartJob, PollImages, FinishJob, Read, Claim, PrepareLock, PrepareClaim, PrepareInspect,
       PrepareEnd, youtube
  <1>2. pc[w] \in started
    BY DEF StartJob, PollImages, FinishJob, Read, Claim, PrepareLock, PrepareClaim,
       PrepareInspect, PrepareEnd, Preparation
  <1>3. pc'[w] \in started
    <2>1. ASSUME NEW next \in started, Goto(w, next) PROVE pc'[w] = next
      BY <1>0, <2>1 DEF PcTyped, Goto
    <2>2. End(w) => pc'[w] = "finish"
      BY <1>0 DEF PcTyped, End
    <2>3. CASE \E k \in Keys : StartJob(w, k)
      <3>1. {"prepLock", "read"} \subseteq started
        OBVIOUS
      <3> HIDE DEF started
      <3> QED
        BY <2>1, <2>3, <3>1 DEF StartJob
    <2>4. CASE PrepareInspect(w)
      <3>1. {"prepFailed", "prepLater", "prepReady"} \subseteq started
        BY DEF Preparation
      <3>2. \E next \in {"prepFailed", "prepLater", "prepReady"} : Goto(w, next)
        BY <2>4 DEF PrepareInspect
      <3> HIDE DEF started
      <3> QED
        BY <2>1, <3>1, <3>2
    <2>5. CASE \/ PollImages(w) \/ FinishJob(w) \/ Read(w) \/ Claim(w)
               \/ PrepareLock(w) \/ PrepareClaim(w) \/ PrepareEnd(w)
      <3>1. {"prepLock", "idle", "claim", "finish", "authenticate", "prepClaim", "prepInspect"}
               \subseteq started
        BY DEF Preparation
      <3> HIDE DEF started
      <3> QED
        BY <2>1, <2>2, <2>5, <3>1
           DEF PollImages, FinishJob, Read, Claim, PrepareLock, PrepareClaim, PrepareEnd
    <2> QED
      BY <2>3, <2>4, <2>5
  <1>4. ~Asks(w) /\ ~Asks(w)' /\ pc'[w] # "saveVideo"
    BY <1>2, <1>3 DEF Asks, Preparation
  <1>5. \A f \in {"session", "video", "unknown"} : item'[f] = item[f]
    <2>1. ASSUME NEW next \in Mine, next.unknown = item.unknown, NEW status,
                 \/ item' = WithSettings(item, next)
                 \/ item' = [WithSettings(item, next) EXCEPT !.status = status]
          PROVE  \A f \in {"session", "video", "unknown"} : item'[f] = item[f]
      <3>1. /\ WithSettings(item, next) \in Row
            /\ \A f \in {"session", "video", "unknown"} : WithSettings(item, next)[f] = item[f]
        BY <1>0, <2>1, Written
      <3> HIDE DEF mine
      <3> QED
        BY <2>1, <3>1 DEF Row
    <2>2. CASE UNCHANGED item
      BY <2>2
    <2>3. CASE Claim(w) \/ PrepareClaim(w)
      BY <1>0, <2>3 DEF Claim, PrepareClaim, Row
    <2>4. CASE PrepareInspect(w) /\ ~UNCHANGED item
      <3> DEFINE cleared == [mine EXCEPT !.remote = 0, !.media = FALSE]
                 checked == [cleared EXCEPT !.remote = source, !.changed = FALSE]
      <3>1. source \in 0 .. MaxSource /\ 0 \in 0 .. MaxSource
        BY <1>0, UploadConstants DEF TypeOK, Versions
      <3>2. cleared \in Mine /\ cleared.unknown = mine.unknown
        BY <1>0, <3>1 DEF Mine
      <3>3. checked \in Mine /\ checked.unknown = mine.unknown
        BY <3>1, <3>2 DEF Mine
      <3>4. mine.unknown = item.unknown
        BY <2>4 DEF PrepareInspect, IInv, Prepares, Preparation
      <3>5. item' \in {WithSettings(item, mine), WithSettings(item, cleared), WithSettings(item, checked)}
        BY <2>4 DEF PrepareInspect
      <3> QED
        BY <1>0, <2>1, <3>2, <3>3, <3>4, <3>5
    <2>5. CASE PrepareEnd(w) /\ ~UNCHANGED item
      <3>1. mine.unknown = item.unknown
        BY <2>5 DEF PrepareEnd, IInv, Prepares, Preparation
      <3>2. item' = [WithSettings(item, mine) EXCEPT !.status = Prepared(w)]
        BY <2>5 DEF PrepareEnd
      <3> QED
        BY <1>0, <2>1, <3>1, <3>2
    <2>6. CASE ~(Claim(w) \/ PrepareClaim(w) \/ PrepareInspect(w) \/ PrepareEnd(w))
      BY <2>6 DEF StartJob, PollImages, FinishJob, Read, PrepareLock
    <2> QED
      BY <2>2, <2>3, <2>4, <2>5, <2>6
  <1>6. Same
    BY <1>1 DEF Same
  <1> QED
    BY <1>0, <1>4, <1>5, <1>6, Lasts, Unasked, Deciding DEF Stand

(* The publication around the upload: what is recorded stays, and a lost    *)
(* answer is marked.                                                        *)
LEMMA PublicationMap ==
  ASSUME IInv, IInv', Whole, NEW w \in Workers,
         \/ Authenticate(w) \/ MarkProcessing(w) \/ SetCover(w) \/ Poll(w) \/ AttachPlaylist(w)
         \/ MarkPublished(w) \/ Fail(w)
  PROVE  Whole' /\ Allowed
  <1> DEFINE c == ctx[w]
             mine == ctx[w].mine
  <1>p. /\ pc[w] \in {"authenticate", "processing", "cover", "poll", "playlist", "publish", "fail"}
        /\ pc[w] \in Publishing
    BY DEF Authenticate, MarkProcessing, SetCover, Poll, AttachPlaylist, MarkPublished, Fail, Publishing
  <1>0. /\ TypeOK /\ Agrees(w) /\ item \in Row /\ c \in Context /\ mine \in Mine /\ PcTyped /\ CtxTyped
        /\ GoogleTyped
    BY <1>p, Executor
  <1>t. Stand(w)
    BY <1>0, WorkerType DEF WorkerStep
  <1>v. mine.unknown = item.unknown /\ mine.session = item.session /\ mine.video = item.video
    BY <1>0, <1>p DEF Agrees
  <1>n. pc'[w] \in {"source", "cover", "poll", "playlist", "publish", "finish", "fail"}
        /\ (pc'[w] = "fail" => ctx'[w].error = "error")
    <2>1. ASSUME NEW next, Goto(w, next) PROVE pc'[w] = next
      BY <1>0, <2>1 DEF PcTyped, Goto
    <2>2. End(w) => pc'[w] = "finish"
      BY <1>0 DEF PcTyped, End
    <2>3. Throw(w, "error") => pc'[w] = "fail" /\ ctx'[w].error = "error"
      BY <1>0, ThrowType
    <2> QED
      BY <2>1, <2>2, <2>3
         DEF Authenticate, MarkProcessing, SetCover, Poll, AttachPlaylist, MarkPublished, Fail
  <1>m. ~Asks(w)' /\ pc'[w] # "saveVideo"
    BY <1>n DEF Asks
  <1>w. ASSUME NEW next \in Mine, next.unknown = mine.unknown, item' = WithSettings(item, next)
        PROVE  \A f \in {"session", "video", "unknown"} : item'[f] = item[f]
    BY <1>0, <1>v, <1>w, Written
  <1>a. ~Asks(w) => Asked' = Asked
    BY <1>m, <1>t, Unasked
  <1>1. CASE pc[w] # "fail"
    <2>1. \A f \in {"session", "video", "unknown"} : item'[f] = item[f]
      <3>1. CASE Authenticate(w) \/ AttachPlaylist(w)
        BY <1>0, <1>w, <3>1 DEF Authenticate, AttachPlaylist
      <3>2. CASE MarkProcessing(w) \/ MarkPublished(w)
        BY <1>0, <1>v, <3>2 DEF MarkProcessing, MarkPublished, Row
      <3>3. CASE SetCover(w)
        <4>1. [mine EXCEPT !.cover = TRUE] \in Mine /\ [mine EXCEPT !.cover = TRUE].unknown = mine.unknown
          BY <1>0 DEF Mine
        <4> QED
          BY <1>w, <3>3, <4>1 DEF SetCover
      <3>4. CASE Poll(w)
        BY <3>4 DEF Poll
      <3> QED
        BY <1>1, <3>1, <3>2, <3>3, <3>4 DEF Fail
    <2>2. ~Asks(w)
      BY <1>p, <1>1 DEF Asks
    <2>3. ASSUME Same PROVE Whole' /\ Videos' = Videos
      BY <1>m, <1>t, <2>1, <2>3, Lasts DEF Stand
    <2>4. CASE Poll(w)
      <3>1. item.video # None /\ mine.video = item.video /\ Has(item.video) /\ UNCHANGED item
        BY <1>0, <2>4 DEF Poll, Agrees, Whole
      <3>2. UNCHANGED google \/ google' = [google EXCEPT ![item.video].video = "processed"]
        BY <2>4, <3>1 DEF Poll
      <3>3. CASE UNCHANGED google
        BY <2>1, <2>2, <2>3, <3>3, <1>a, Deciding DEF Same
      <3>4. CASE google' = [google EXCEPT ![item.video].video = "processed"]
        <4>1. google[item.video] \in UploadState /\ google[item.video].received = Chunks
          BY <1>0, <3>1 DEF Has, GoogleTyped, Whole, Full
        <4>2. /\ \A s \in Sessions \ {item.video} : google'[s] = google[s]
              /\ \A f \in {"received", "bytes"} : google'[item.video][f] = google[item.video][f]
              /\ google'[item.video].video = "processed"
          BY <1>0, <3>1, <3>4, <4>1 DEF Has, GoogleTyped, UploadState
        <4>3. \A s \in Sessions : (google'[s].video # "none") <=> (google[s].video # "none")
          BY <3>1, <4>2 DEF Has
        <4>4. Videos' = Videos
          BY <4>3 DEF Videos
        <4>5. \A s \in Sessions : Full(google'[s])
          BY <4>1, <4>2 DEF Whole, Full
        <4>6. Whole'
          BY <1>m, <1>t, <3>1, <4>3, <4>5 DEF Whole, Has, Stand
        <4> QED
          BY <1>a, <2>1, <2>2, <4>4, <4>6, Deciding
      <3> QED
        BY <3>2, <3>3, <3>4
    <2>5. CASE AttachPlaylist(w)
      <3>1. UNCHANGED google \/ google' = [google EXCEPT ![mine.video].listed = @ + 1]
        BY <2>5 DEF AttachPlaylist
      <3>2. Same
        BY <1>0, <3>1 DEF Same, GoogleTyped, UploadState
      <3> QED
        BY <1>a, <2>1, <2>2, <2>3, <3>2, Deciding
    <2>6. CASE ~Poll(w) /\ ~AttachPlaylist(w)
      <3>1. Same
        BY <1>1, <2>6 DEF Authenticate, MarkProcessing, SetCover, MarkPublished, Fail, youtube, Same
      <3> QED
        BY <1>a, <2>1, <2>2, <2>3, <3>1, Deciding
    <2> QED
      BY <2>4, <2>5, <2>6
  <1>2. CASE pc[w] = "fail"
    <2> DEFINE row == WithSettings(item, Lesson(c))
    <2>0. UNCHANGED google /\ item' = [row EXCEPT !.status = "failed"]
      BY <1>2 DEF Authenticate, MarkProcessing, SetCover, Poll, AttachPlaylist, MarkPublished, Fail
    <2>1. /\ row \in Row /\ row.unknown = Lesson(c).unknown
          /\ row.session = item.session /\ row.video = item.video
      BY <1>0, LessonType, Written
    <2> HIDE DEF row
    <2>2. /\ item'.session = item.session /\ item'.video = item.video
          /\ item'.unknown = Lesson(c).unknown
      BY <2>0, <2>1 DEF Row
    <2>3. Same
      BY <2>0 DEF Same
    <2>4. Whole' /\ Videos' = Videos
      BY <1>m, <1>t, <2>2, <2>3, Lasts DEF Stand
    <2>5. CASE c.error = "ambiguous"
      <3>1. item.session = None /\ item.video = None /\ Asks(w)
        BY <1>0, <1>2, <2>5 DEF Agrees, Asks
      <3>2. item'.unknown
        BY <1>0, <1>v, <2>2, <2>5, <3>1, LessonType
      <3>3. Asked /\ ~Asked'
        BY <1>m, <1>p, <1>t, <3>1, Asking
      <3>4. Stage = "inFlight" /\ Stage' = "unclear"
        BY <2>2, <3>1, <3>2, <3>3 DEF Stage
      <3>5. Cardinality(Videos)' = Cardinality(Videos)
        BY <2>4
      <3> QED
        BY <2>4, <3>4, <3>5 DEF Allowed, D!deliveryVars, D!DeliveryNext, D!LoseTrack, D!Move
    <2>6. CASE c.error # "ambiguous"
      <3>1. item'.unknown = item.unknown
        <4>1. mine.unknown \in BOOLEAN
          BY <1>0 DEF Mine
        <4>2. item'.unknown = (mine.unknown \/ FALSE)
          BY <1>0, <2>2, <2>6, LessonType
        <4> QED
          BY <1>v, <4>1, <4>2
      <3>2. ~Asks(w)
        BY <1>2, <2>6 DEF Asks
      <3> QED
        BY <1>a, <2>2, <2>4, <3>1, <3>2, Deciding
    <2> QED
      BY <2>5, <2>6
  <1> QED
    BY <1>1, <1>2

(* A PUT leaves a session whole, and a video where it is.                   *)
LEMMA ServedFull ==
  ASSUME TypeOK, NEW w \in Workers, ctx[w].mine.session \in Sessions,
         Full(google[ctx[w].mine.session]), NEW g \in Served(w)
  PROVE  Full(g) /\ (google[ctx[w].mine.session].video # "none" => g.video # "none")
  <1> DEFINE h == google[ctx[w].mine.session]
             c == ctx[w]
             more == [h EXCEPT !.received = @ + 1, !.bytes = @ \cup {source}]
  <1>1. h \in UploadState /\ c \in Context /\ source \in Versions /\ Full(h)
    BY DEF TypeOK
  <1>2. ASSUME NEW k \in UploadState, Full(k), NEW v \in Finished(k)
        PROVE  Full(v) /\ (k.video # "none" => v.video # "none")
    <2>1. v = k \/ (k.received = Chunks /\ v = [k EXCEPT !.video = "pending"])
      BY <1>2 DEF Finished
    <2> QED
      BY <1>2, <2>1 DEF UploadState, Full
  <1>3. ASSUME NEW k \in Stored(h, c)
        PROVE  k \in UploadState /\ Full(k) /\ (h.video # "none" => k.video # "none")
    <2>1. CASE ~Querying(c) /\ c.offset = h.received
      <3>0. h.received + 1 \in 0 .. Chunks /\ h.bytes \cup {source} \in SUBSET Versions
        BY <1>1, <2>1, UploadConstants DEF Querying, UploadState, Context
      <3>1. h.received + 1 \in 0 .. Chunks /\ h.bytes \cup {source} \in SUBSET Versions /\ h.video = "none"
        BY <1>1, <2>1, <3>0 DEF Querying, Full
      <3> HIDE DEF h, c
      <3>2. more \in UploadState /\ more.bytes # {} /\ more.video = "none"
        BY <1>1, <3>1 DEF UploadState
      <3>3. Full(more)
        BY <3>2 DEF Full
      <3>4. k \in {h, more}
        BY <1>3, <2>1 DEF Stored
      <3> HIDE DEF more
      <3> QED
        BY <1>1, <3>1, <3>2, <3>3, <3>4
    <2>2. CASE ~(~Querying(c) /\ c.offset = h.received)
      BY <1>1, <1>3, <2>2 DEF Stored
    <2> QED
      BY <2>1, <2>2
  <1> QED
    BY <1>1, <1>2, <1>3 DEF Served

\* One answer to a PUT, or none.
Put(w, g) ==
  /\ google' = [google EXCEPT ![ctx[w].mine.session] = g]
  /\ g \in UploadState /\ Full(g)
  /\ google[ctx[w].mine.session].video # "none" => g.video # "none"
  /\ pc'[w] = "saveVideo" => ctx'[w].mine.video = ctx[w].mine.session /\ g.video # "none"

(* The transfer.                                                            *)
LEMMA TransferEffect ==
  ASSUME IInv, Whole, NEW w \in Workers, Upload(w), pc[w] \in {"put", "saveMoved"}
  PROVE  /\ (UNCHANGED google /\ pc'[w] # "saveVideo") \/ \E g : Put(w, g)
         /\ \A f \in {"session", "video", "unknown"} : item'[f] = item[f]
         /\ ~Asks(w)'
  <1> DEFINE c == ctx[w]
             mine == ctx[w].mine
             s == mine.session
  <1>p. pc[w] \in Publishing /\ (pc[w] = "put" => pc[w] \in Transfer)
    BY DEF Publishing, Transfer
  <1>0. /\ TypeOK /\ Agrees(w) /\ item \in Row /\ c \in Context /\ mine \in Mine /\ PcTyped /\ CtxTyped
        /\ GoogleTyped /\ (pc[w] = "put" => s \in Sessions)
    BY <1>p, Executor
  <1>v. mine.unknown = item.unknown /\ mine.session = item.session /\ mine.video = item.video
    BY <1>0 DEF Agrees
  <1>g. ASSUME pc[w] = "put", NEW g \in Served(w)
        PROVE  /\ g \in UploadState /\ Full(g) /\ g.uri = google[s].uri
               /\ google[s].video # "none" => g.video # "none"
    BY <1>0, <1>g, ServedType, ServedFull DEF Whole
  <1>r. ASSUME NEW e \in {"error", "changed"}, Throw(w, e) PROVE pc'[w] # "saveVideo" /\ ~Asks(w)'
    BY <1>0, <1>r, ThrowType DEF Asks
  <1>1. CASE PutBlocked(w) \/ PutRefused(w)
    BY <1>1, <1>r DEF PutBlocked, PutRefused
  <1>2. CASE PutLost(w)
    <2>1. pc'[w] \in {"put", "fail"} /\ (pc'[w] = "fail" => ctx'[w].error = "error")
      BY <1>0, <1>2, RecoverType DEF PutLost
    <2>2. PICK g \in Served(w) : google' = [google EXCEPT ![s] = g]
      BY <1>2 DEF PutLost
    <2>3. Put(w, g)
      BY <1>2, <1>g, <2>1, <2>2 DEF Put, PutLost
    <2> QED
      BY <1>2, <2>1, <2>3 DEF PutLost, Asks
  <1>3. CASE PutContinue(w)
    <2>0. pc[w] = "put"
      BY <1>3 DEF PutContinue
    <2>1. PICK g \in Served(w), moved \in {0, 1} :
            LET d == [c EXCEPT !.mine.uri = @ + moved, !.offset = g.received, !.probe = FALSE]
                stays == IF Querying(c) THEN g.received = Chunks ELSE g.received = c.offset
            IN \/ google' = [google EXCEPT ![s] = g] /\ Throw(w, "error") /\ UNCHANGED item
               \/ /\ google' = [google EXCEPT ![s] = [g EXCEPT !.uri = @ + moved]]
                  /\ mine.uri + moved <= MaxRotations /\ mine.uri = google[s].uri
                  /\ \/ Recover(w, d) \/ Tell(w, d, "put")
                     \/ Tell(w, [d EXCEPT !.stays = stays], "saveMoved")
                  /\ item' = WithSettings(item, mine)
      BY <1>3 DEF PutContinue
    <2>2. CASE google' = [google EXCEPT ![s] = g] /\ Throw(w, "error") /\ UNCHANGED item
      BY <1>g, <1>r, <2>0, <2>2 DEF Put
    <2>3. CASE ~(google' = [google EXCEPT ![s] = g] /\ Throw(w, "error") /\ UNCHANGED item)
      <3> DEFINE m == [mine EXCEPT !.uri = @ + moved]
                 e == [c EXCEPT !.mine = m]
                 d == [c EXCEPT !.mine.uri = @ + moved, !.offset = g.received, !.probe = FALSE]
                 stays == IF Querying(c) THEN g.received = Chunks ELSE g.received = c.offset
                 f == [d EXCEPT !.stays = stays]
                 k == [g EXCEPT !.uri = @ + moved]
      <3>0. /\ item' = WithSettings(item, mine) /\ mine.uri + moved <= MaxRotations
            /\ mine.uri = google[s].uri /\ google' = [google EXCEPT ![s] = k]
            /\ \/ Recover(w, d) \/ Tell(w, d, "put") \/ Tell(w, f, "saveMoved")
        BY <2>1, <2>3
      <3>1. mine.uri + moved \in 0 .. MaxRotations
        BY <1>0, <3>0, UploadConstants DEF Mine
      <3>2. m \in Mine
        BY <1>0, <3>1 DEF Mine
      <3> HIDE DEF m
      <3>3. e \in Context
        BY <1>0, <3>2, MineType DEF Context
      <3>4. d = [e EXCEPT !.offset = g.received, !.probe = FALSE]
        BY <1>0 DEF Context, Mine, m
      <3>5. g.received \in 0 .. Chunks /\ stays \in BOOLEAN
        BY <1>0, <1>g, <2>0 DEF UploadState
      <3>6. k \in UploadState /\ Full(k) /\ k.video = g.video
        BY <1>g, <2>0, <3>0, <3>1 DEF UploadState, Full
      <3> HIDE DEF e, d, stays, k
      <3>7. d \in Context
        BY <3>3, <3>4, <3>5 DEF Context
      <3>8. f \in Context
        BY <3>5, <3>7 DEF Context
      <3> HIDE DEF f
      <3>9. pc'[w] \in {"put", "fail", "saveMoved"} /\ (pc'[w] = "fail" => ctx'[w].error = "error")
        <4>1. CASE Recover(w, d)
          BY <1>0, <3>7, <4>1, RecoverType
        <4>2. CASE Tell(w, d, "put")
          BY <1>0, <3>7, <4>2, TellType DEF Steps, Publishing
        <4>3. CASE Tell(w, f, "saveMoved")
          BY <1>0, <3>8, <4>3, TellType DEF Steps, Publishing
        <4> QED
          BY <3>0, <4>1, <4>2, <4>3
      <3>10. Put(w, k)
        BY <1>g, <2>0, <3>0, <3>6, <3>9 DEF Put
      <3>11. \A h \in {"session", "video", "unknown"} : item'[h] = item[h]
        BY <1>0, <1>v, <3>0, Written
      <3> QED
        BY <3>9, <3>10, <3>11 DEF Asks
    <2> QED
      BY <2>2, <2>3
  <1>4. CASE SaveMoved(w)
    <2> DEFINE d == [c EXCEPT !.stays = FALSE]
    <2>0. /\ UNCHANGED google
          /\ Recover(w, d) \/ Tell(w, d, "put")
          /\ item' = [item EXCEPT !.session = mine.session, !.uri = mine.uri]
      BY <1>4 DEF SaveMoved
    <2>1. d \in Context
      BY <1>0 DEF Context
    <2> HIDE DEF d
    <2>2. pc'[w] \in {"put", "fail"} /\ (pc'[w] = "fail" => ctx'[w].error = "error")
      <3>1. CASE Recover(w, d)
        BY <1>0, <2>1, <3>1, RecoverType
      <3>2. CASE Tell(w, d, "put")
        BY <1>0, <2>1, <3>2, TellType DEF Steps, Publishing
      <3> QED
        BY <2>0, <3>1, <3>2
    <2>3. \A f \in {"session", "video", "unknown"} : item'[f] = item[f]
      BY <1>0, <1>v, <2>0 DEF Row
    <2>4. ~Asks(w)' /\ pc'[w] # "saveVideo"
      BY <2>2 DEF Asks
    <2> QED
      BY <2>0, <2>3, <2>4
  <1>5. CASE PutDone(w)
    <2>0. pc[w] = "put" /\ UNCHANGED item
      BY <1>5 DEF PutDone
    <2>1. PICK g \in Served(w) :
            /\ g.video # "none" /\ google' = [google EXCEPT ![s] = g]
            /\ \/ Tell(w, [After(c) EXCEPT !.mine.video = s], "saveVideo")
               \/ Throw(w, "error")
      BY <1>5 DEF PutDone
    <2>2. CASE Throw(w, "error")
      BY <1>g, <1>r, <2>0, <2>1, <2>2 DEF Put
    <2>3. CASE Tell(w, [After(c) EXCEPT !.mine.video = s], "saveVideo")
      <3>1. After(c) \in Context /\ After(c).mine = mine
        BY <1>0, AfterType
      <3>2. ctx'[w] = [After(c) EXCEPT !.mine.video = s] /\ pc'[w] = "saveVideo"
        BY <1>0, <2>3 DEF Tell, Goto, PcTyped, CtxTyped
      <3>3. ctx'[w].mine = [mine EXCEPT !.video = s]
        BY <3>1, <3>2 DEF Context
      <3>4. ctx'[w].mine.video = s
        BY <1>0, <3>3 DEF Mine
      <3> QED
        BY <1>g, <2>0, <2>1, <3>2, <3>4 DEF Put, Asks
    <2> QED
      BY <2>1, <2>2, <2>3
  <1>6. pc[w] \notin {"source", "post", "saveSession", "saveVideo"}
    OBVIOUS
  <1> QED
    BY <1>1, <1>2, <1>3, <1>4, <1>5, <1>6
       DEF Upload, UploadStep, CheckSource, PostSession, SaveSession, SaveVideo

(* The upload: a session is asked for once the item is due and approved, and *)
(* it stays in flight until its video is recorded.                           *)
LEMMA UploadMap ==
  ASSUME IInv, IInv', BInv, Whole, NEW w \in Workers, Upload(w)
  PROVE  Whole' /\ Allowed
  <1> DEFINE c == ctx[w]
             mine == ctx[w].mine
  <1>p. pc[w] \in {"source", "post"} \cup Transfer /\ pc[w] \in Publishing
    BY DEF Upload, UploadStep, CheckSource, PostSession, SaveSession, PutBlocked, PutLost, PutRefused,
       PutContinue, SaveMoved, PutDone, SaveVideo, Transfer, Publishing
  <1>0. /\ TypeOK /\ Agrees(w) /\ item \in Row /\ c \in Context /\ mine \in Mine /\ PcTyped /\ CtxTyped
        /\ GoogleTyped /\ item.status \in {"uploading", "processing"} /\ None \notin Sessions
        /\ (pc[w] \in Transfer => mine.session \in Sessions)
    BY <1>p, Executor
  <1>t. Stand(w) /\ pc'[w] \in Publishing
    BY <1>0, UploadType DEF Upload
  <1>v. item.video = None /\ mine.unknown = item.unknown
    BY <1>0, <1>p DEF Agrees
  <1>a. (Asked <=> Asks(w)) /\ (Asked' <=> Asks(w)')
    BY <1>p, <1>t, Asking
  <1>i. item.session # None \/ Asks(w) => Stage = "inFlight"
    BY <1>a, <1>v DEF Stage
  <1>n. item'.video = None /\ (item'.session # None \/ Asks(w)') => Stage' = "inFlight"
    BY <1>a DEF Stage
  <1>k. ASSUME UNCHANGED google, item'.video = None, pc'[w] # "saveVideo" PROVE Whole' /\ Videos' = Videos
    <2>1. Same
      BY <1>k DEF Same
    <2> QED
      BY <1>k, <1>t, <1>v, <2>1, Lasts DEF Stand
  <1>l. ASSUME Videos' = Videos, Stage' = Stage PROVE Allowed
    BY <1>l DEF Allowed, D!deliveryVars
  <1>e. ASSUME NEW e \in {"error", "changed", "ambiguous"}, Throw(w, e)
        PROVE  pc'[w] = "fail" /\ ctx'[w].error = e
    BY <1>0, <1>e, ThrowType
  <1>1. CASE CheckSource(w)
    <2> DEFINE next == [mine EXCEPT !.remote = IF collection THEN source ELSE @,
                                    !.media = IF collection THEN FALSE ELSE @]
    <2>0. pc[w] = "source" /\ UNCHANGED google /\ ~Asks(w)
      BY <1>1 DEF CheckSource, Asks
    <2>1. next \in Mine /\ next.unknown = mine.unknown
      <3>1. source \in 0 .. MaxSource
        BY <1>0, UploadConstants DEF TypeOK, Versions
      <3> QED
        BY <1>0, <3>1 DEF Mine
    <2>2. UNCHANGED item \/ item' = WithSettings(item, next)
      BY <1>1 DEF CheckSource
    <2> HIDE DEF next
    <2>3. \A f \in {"session", "video", "unknown"} : item'[f] = item[f]
      BY <1>0, <1>v, <2>1, <2>2, Written
    <2>4. \/ \E e \in {"error", "changed"} : Throw(w, e)
          \/ Goto(w, IF mine.session = None THEN "post" ELSE "put") /\ item' = WithSettings(item, next)
      BY <1>1 DEF CheckSource, next
    <2>5. \/ pc'[w] = "fail" /\ ctx'[w].error \in {"error", "changed"}
          \/ pc'[w] \in {"post", "put"} /\ item' = WithSettings(item, next)
      <3>1. Goto(w, IF mine.session = None THEN "post" ELSE "put") => pc'[w] \in {"post", "put"}
        BY <1>0 DEF PcTyped, Goto
      <3> QED
        BY <1>e, <2>4, <3>1
    <2>6. Whole' /\ Videos' = Videos
      BY <1>k, <1>v, <2>0, <2>3, <2>5
    <2>7. CASE pc'[w] = "post"
      <3>1. item.session = None /\ ~item.unknown
        BY <1>t, <2>3, <2>7 DEF IInv, Agrees
      <3>2. item.approved /\ item.date # "future"
        BY <1>0 DEF BInv, Standing, Goes, Agrees
      <3>3. Stage = "released"
        BY <1>a, <1>v, <2>0, <3>1, <3>2 DEF Stage
      <3>4. Stage' = "inFlight"
        BY <1>n, <1>v, <2>3, <2>7 DEF Asks
      <3> QED
        BY <2>6, <3>3, <3>4 DEF Allowed, D!deliveryVars, D!DeliveryNext, D!Depart, D!Move
    <2>8. CASE pc'[w] # "post"
      <3>1. ~Asks(w)'
        BY <2>5, <2>8 DEF Asks
      <3>2. Asked' = Asked
        BY <1>t, <2>0, <3>1, Unasked
      <3> QED
        BY <2>3, <2>6, <3>2, Deciding
    <2> QED
      BY <2>7, <2>8
  <1>2. CASE PostSession(w)
    <2>0. pc[w] = "post" /\ UNCHANGED item /\ item.session = None /\ ~item.unknown /\ Asks(w)
      BY <1>0, <1>2 DEF PostSession, Agrees, Asks
    <2>1. Stage = "inFlight" /\ Videos = {} /\ Cardinality(Videos) = 0
      BY <1>i, <2>0, Copies
    <2>2. ASSUME NEW e \in {"error", "ambiguous"}, Throw(w, e), UNCHANGED google
          PROVE  Whole' /\ Allowed
      <3>1. Whole' /\ Videos' = Videos
        BY <1>e, <1>k, <1>v, <2>0, <2>2
      <3>2. CASE e = "ambiguous"
        BY <1>e, <1>l, <1>n, <1>v, <2>0, <2>1, <2>2, <3>1, <3>2 DEF Asks
      <3>3. CASE e = "error"
        <4>1. ~Asked'
          BY <1>a, <1>e, <2>2, <3>3 DEF Asks
        <4>2. Stage' \in {"released", "withheld"}
          BY <1>v, <2>0, <4>1 DEF Stage
        <4> QED
          BY <2>1, <3>1, <4>2 DEF Allowed, D!deliveryVars, D!DeliveryNext, D!Refuse, D!Move
      <3> QED
        BY <3>2, <3>3
    <2>3. ASSUME NEW s \in Sessions, Goto(w, "saveSession"),
                 google' = [google EXCEPT ![s] = [Unopened EXCEPT !.rev = mine.rev]]
          PROVE  Whole' /\ Allowed
      <3>1. pc'[w] = "saveSession"
        BY <1>0, <2>3 DEF PcTyped, Goto
      <3>2. /\ google'[s].received = 0 /\ google'[s].video = "none"
            /\ \A r \in Sessions \ {s} : google'[r] = google[r]
        BY <1>0, <2>3 DEF GoogleTyped, Unopened
      <3>3. Videos' = {}
        BY <2>1, <3>2 DEF Videos
      <3>4. \A r \in Sessions : Full(google'[r])
        BY <3>2 DEF Whole, Full
      <3>5. \A v \in Workers : pc'[v] # "saveVideo"
        BY <1>p, <1>t, <3>1 DEF Stand, IInv, Alone, Publishing
      <3>6. Whole'
        BY <1>v, <2>0, <3>4, <3>5 DEF Whole
      <3> QED
        BY <1>l, <1>n, <1>v, <2>0, <2>1, <3>1, <3>3, <3>6 DEF Asks
    <2> QED
      BY <1>2, <2>2, <2>3 DEF PostSession
  <1>3. CASE SaveSession(w)
    <2>1. pc[w] = "saveSession" /\ pc'[w] = "put" /\ UNCHANGED google
      BY <1>0, <1>3 DEF SaveSession, PcTyped, Goto
    <2>2. item' = [item EXCEPT !.session = mine.session, !.uri = mine.uri]
      BY <1>3 DEF SaveSession
    <2>3. item'.session = mine.session /\ item'.video = None /\ mine.session # None
      BY <1>0, <1>v, <2>1, <2>2 DEF Row, Transfer
    <2>4. Stage = "inFlight" /\ Stage' = "inFlight"
      BY <1>i, <1>n, <2>1, <2>3 DEF Asks
    <2> QED
      BY <1>k, <1>l, <2>1, <2>3, <2>4
  <1>4. CASE pc[w] \in {"put", "saveMoved"}
    <2>0. pc[w] \in Transfer
      BY <1>4 DEF Transfer
    <2>1. mine.session = item.session /\ item.session \in Sessions
      BY <1>0, <1>4, <2>0 DEF Agrees
    <2>2. /\ (UNCHANGED google /\ pc'[w] # "saveVideo") \/ \E g : Put(w, g)
          /\ item'.session = item.session /\ item'.video = None
      BY <1>4, <1>v, TransferEffect
    <2>3. Stage = "inFlight" /\ Stage' = "inFlight"
      BY <1>0, <1>i, <1>n, <2>1, <2>2
    <2>4. CASE UNCHANGED google /\ pc'[w] # "saveVideo"
      BY <1>k, <1>l, <2>2, <2>3, <2>4
    <2>5. ASSUME NEW g, Put(w, g) PROVE Whole' /\ Allowed
      <3>1. /\ google'[item.session] = g /\ \A r \in Sessions \ {item.session} : google'[r] = google[r]
            /\ Full(g) /\ (google[item.session].video # "none" => g.video # "none")
            /\ pc'[w] = "saveVideo" => ctx'[w].mine.video = item.session /\ g.video # "none"
        BY <1>0, <2>1, <2>5 DEF Put, GoogleTyped
      <3>2. \A r \in Sessions : Full(google'[r])
        BY <3>1 DEF Whole
      <3>3. \A v \in Workers : v # w => pc'[v] # "saveVideo"
        BY <1>p, <1>t DEF Stand, IInv, Alone, Publishing
      <3>4. Whole'
        BY <2>1, <2>2, <3>1, <3>2, <3>3 DEF Whole, Has
      <3>5. Videos \subseteq Videos'
        BY <3>1 DEF Videos
      <3>6. /\ Videos \subseteq {item.session} /\ Cardinality(Videos) = (IF Videos = {} THEN 0 ELSE 1)
            /\ Videos' \subseteq {item.session} /\ Cardinality(Videos)' = (IF Videos' = {} THEN 0 ELSE 1)
        BY <2>2, <3>4, Copies, CopiesNext
      <3>7. Videos' = Videos \/ (Cardinality(Videos) = 0 /\ Cardinality(Videos)' = 1)
        BY <3>5, <3>6
      <3> QED
        BY <1>l, <2>3, <3>4, <3>7 DEF Allowed, D!deliveryVars, D!DeliveryNext, D!Arrive
    <2> QED
      BY <2>2, <2>4, <2>5
  <1>5. CASE SaveVideo(w)
    <2> DEFINE row == WithSettings(item, mine)
    <2>0. /\ pc[w] = "saveVideo" /\ pc'[w] = "processing" /\ UNCHANGED google
          /\ item' = [row EXCEPT !.video = mine.video]
      BY <1>0, <1>5 DEF SaveVideo, PcTyped, Goto
    <2>1. row \in Row /\ row.session = item.session
      BY <1>0, Written
    <2> HIDE DEF row
    <2>2. item'.session = item.session /\ item'.video = mine.video
      BY <2>0, <2>1 DEF Row
    <2>3. Has(mine.video) /\ mine.video # None /\ item.session # None
      BY <1>0, <2>0 DEF Whole, Has, Agrees, Transfer
    <2>4. \A v \in Workers : pc'[v] # "saveVideo"
      BY <1>p, <1>t, <2>0 DEF Stand, IInv, Alone, Publishing
    <2>5. Whole' /\ Videos' = Videos
      BY <2>0, <2>2, <2>3, <2>4 DEF Whole, Has, Videos
    <2>6. Cardinality(Videos) = 1 /\ Cardinality(Videos)' = 1
      BY <2>3, <2>5, Copies DEF Has, Videos
    <2>7. Stage = "inFlight" /\ Stage' = "delivered"
      BY <1>i, <2>2, <2>3 DEF Stage
    <2> QED
      BY <2>5, <2>6, <2>7 DEF Allowed, D!deliveryVars, D!DeliveryNext, D!Confirmed, D!Move
  <1> QED
    BY <1>p, <1>1, <1>2, <1>3, <1>4, <1>5
       DEF Upload, UploadStep, PutBlocked, PutLost, PutRefused, PutContinue, SaveMoved, PutDone

LEMMA InitWhole == Init => Whole /\ D!DeliveryInit
  <1> SUFFICES ASSUME Init PROVE Whole /\ D!DeliveryInit
    OBVIOUS
  <1>1. /\ item.video = None /\ item.session = None /\ ~item.unknown /\ ~item.approved
        /\ google = [s \in Sessions |-> Unopened] /\ \A w \in Workers : pc[w] = "idle"
    BY DEF Init, Blank, NewItem
  <1>2. Whole
    BY <1>1 DEF Whole, Full, Unopened
  <1>3. Stage = "withheld"
    BY <1>1 DEF Stage, Asked, Asks
  <1>4. Cardinality(Videos) = 0
    BY <1>1, FS_EmptySet DEF Videos, Unopened
  <1> QED
    BY <1>2, <1>3, <1>4 DEF D!DeliveryInit

LEMMA StepMaps ==
  ASSUME IInv, IInv', BInv, Whole, MaxOverlaps = 0, [Next]_vars
  PROVE  Whole' /\ Allowed
  <1>1. CASE UNCHANGED vars
    <2>1. UNCHANGED <<item, google, pc, ctx>>
      BY <1>1 DEF vars
    <2> QED
      BY <2>1 DEF Whole, Has, Allowed, D!deliveryVars, Stage, Asked, Asks, Videos
  <1>2. CASE Users
    BY <1>2, UsersMap
  <1>3. CASE World
    BY <1>3, WorldMap
  <1>4. ASSUME NEW w \in Workers, WorkerStep(w) PROVE Whole' /\ Allowed
    BY <1>4, OthersMap, UploadMap, PublicationMap DEF WorkerStep
  <1> QED
    BY <1>1, <1>2, <1>3, <1>4 DEF Next

(* What happens to an item is what Delivery allows, for any number of       *)
(* workers, crashes, lost answers, retries and edits: a session is asked    *)
(* for once an approved item is due, the item is given back only while      *)
(* YouTube has no video, the video is recorded once it is there, and after  *)
(* a lost answer nothing is sent again (uploadYoutubeVideo, executeYoutube).*)
THEOREM Implements ==
  ASSUME MaxOverlaps = 0
  PROVE  Spec => ImplementsDelivery
  <1>1. IInv /\ BInv /\ Whole /\ [Next]_vars =>
          IInv' /\ BInv' /\ Whole' /\ [D!DeliveryNext]_(D!deliveryVars)
    BY StepKeeps, StepFollows, StepMaps DEF Allowed
  <1> QED
    BY InitKeeps, InitFollows, InitWhole, <1>1, PTL DEF Spec, ImplementsDelivery, D!DeliverySpec
=============================================================================
