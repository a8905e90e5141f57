----------------------- MODULE PublicationRefinement -----------------------
(* Publication implements Delivery while no lock connection is lost under a *)
(* live executor and the older retry route is not called.                   *)
EXTENDS Publication

\* The stage the publications row is in.
Stage ==
  IF pub.externalId THEN "delivered"
  ELSE IF pub.unknown THEN "unclear"
  ELSE IF pub.status = "queued" THEN "released"
  ELSE IF pub.status # "publishing" THEN "withheld"
  ELSE IF pub.sendStarted THEN "inFlight" ELSE "released"

D == INSTANCE Delivery WITH stage <- Stage, copies <- Len(posts)

\* Every behaviour of the rows, jobs and executors is one Delivery allows: a
\* copy at the destination is never behind an item that may be sent.
ImplementsDelivery == D!DeliverySpec

\* Under FairSpec, every attempt in flight ends with a receipt, a refusal or
\* the mark "unknown", also when its process dies.
AttemptsAccounted == D!Accounted
=============================================================================
