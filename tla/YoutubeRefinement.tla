-------------------------- MODULE YoutubeRefinement --------------------------
(* The life of a YouTube item implements Delivery while no write comes beside *)
(* an executor at work: the copies are the videos YouTube has of it.          *)
EXTENDS YoutubeItem

\* A session is asked for and its address not stored, or the answer was lost
\* and the catch has not said so yet.
Asks(w) == pc[w] \in {"post", "saveSession"} \/ (pc[w] = "fail" /\ ctx[w].error = "ambiguous")
Asked == \E w \in Workers : Asks(w)

\* An item with a session stays in flight through failures and retries: the
\* next attempt goes on with it. Without one, only what a person approved and
\* what is due may be sent.
Stage ==
  IF item.video # None THEN "delivered"
  ELSE IF item.session # None \/ Asked THEN "inFlight"
  ELSE IF item.unknown THEN "unclear"
  ELSE IF item.approved /\ item.date # "future" THEN "released" ELSE "withheld"

Videos == {s \in Sessions : google[s].video # "none"}

D == INSTANCE Delivery WITH stage <- Stage, copies <- Cardinality(Videos)

\* Whatever crashes, answers, retries and people do, each step is one Delivery
\* allows: a session is asked for once an approved item is due, the item is
\* given back only while YouTube has no video, its video is recorded once it is
\* there, and after a lost answer nothing is sent again (youtube-upload.ts,
\* docs/youtube.md).
ImplementsDelivery == D!DeliverySpec
=============================================================================
