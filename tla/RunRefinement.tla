----------------------------- MODULE RunRefinement -----------------------------
(* The claim of each step of a run, and what the step performed outside,      *)
(* implement Delivery.                                                        *)
EXTENDS RunExecution

\* The stage the claim of a step is in. A claim that failed for certain may
\* be taken again.
Stage(s) ==
  CASE claim[s] \in {"none", "failed"} -> "released"
    [] claim[s] = "sending" -> "inFlight"
    [] claim[s] = "unclear" -> "unclear"
    [] claim[s] = "succeeded" -> "delivered"

D(s) == INSTANCE Delivery WITH stage <- Stage(s), copies <- effects[s]

\* Whatever executors, the queue, days and people do, each step is one that
\* Delivery allows for each claim: what is performed was claimed before, a
\* claim is given back only while nothing was performed, a success is recorded
\* only of what was performed, and what may have been performed is never
\* claimed again (youtube-comments.ts, comment_actions).
ImplementsDelivery ==
  /\ \A s \in Steps : D(s)!DeliveryInit
  /\ [][\A s \in Steps : [D(s)!DeliveryNext]_<<Stage(s), effects[s]>>]_vars
=============================================================================
