--------------------------- MODULE AnswersRefinement ---------------------------
(* Each comment's claim and answer implement Delivery, while no workflow that *)
(* holds claims is deleted.                                                   *)
EXTENDS Answers

\* The stage the claim of a comment is in. A claim that failed for certain may
\* be taken again.
Stage(c) ==
  CASE claim[c].status \in {"none", "failed"} -> "released"
    [] claim[c].status = "sending" -> "inFlight"
    [] claim[c].status = "uncertain" -> "unclear"
    [] claim[c].status = "succeeded" -> "delivered"

D(c) == INSTANCE Delivery WITH stage <- Stage(c), copies <- answers[c]

\* Every step of the runs, pollers and people is, for each comment, one that
\* Delivery allows: a reply or an action is on its way before it is performed,
\* a claim is given back only while the platform has nothing, and what may
\* have been performed is never taken again (youtube-comments.ts, "uncertain").
ImplementsDelivery ==
  /\ \A c \in Comments : D(c)!DeliveryInit
  /\ [][\A c \in Comments : [D(c)!DeliveryNext]_<<Stage(c), answers[c]>>]_vars
=============================================================================
