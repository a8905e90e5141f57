-------------------------- MODULE SendingRefinement --------------------------
(* The channel clients and the routing fetcher implement Delivery for the   *)
(* clients that hold a success without a receipt as unknown, while no       *)
(* insert of a connection event fails.                                      *)
EXTENDS Sending

\* Other items are left out: a keyed destination drops what it has, and Eitaa's
\* client makes no difference between a refusal and a success without receipt.
Stage ==
  IF card.channel \notin Held THEN "withheld"
  ELSE IF row.status = "published" THEN "delivered"
  ELSE IF row.unknown THEN "unclear"
  ELSE IF row.status = "publishing" THEN "inFlight"
  ELSE IF row.status = "queued" THEN "released" ELSE "withheld"

Copies == IF card.channel \in Held THEN Len(posts) ELSE 0

D == INSTANCE Delivery WITH stage <- Stage, copies <- Copies

\* A definite failure, which is retried without asking anyone, leaves nothing
\* at the destination; whatever may have left something is held as unclear
\* (publisher.ts, "Hold unknown deliveries for manual destination review").
ImplementsDelivery == D!DeliverySpec
=============================================================================
