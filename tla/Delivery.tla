------------------------------ MODULE Delivery ------------------------------
(***************************************************************************)
(* What the publishing subsystem promises about one item, without rows,    *)
(* jobs or processes (docs/execution-reliability.md, docs/calendar.md):    *)
(* an item is withheld or released; once an attempt is in flight it comes  *)
(* back with a receipt, with a definite refusal, or it is marked unclear;  *)
(* and an unclear item moves again only when the destination has nothing.  *)
(***************************************************************************)
EXTENDS Naturals

VARIABLES
  stage,   \* where the item stands
  copies   \* how many copies the destination has

deliveryVars == <<stage, copies>>

Stages == {"withheld", "released", "inFlight", "unclear", "delivered"}

DeliveryInit == stage \in {"withheld", "released"} /\ copies = 0

Move(from, to) == stage \in from /\ stage' \in to

\* People and failures release and withhold an item that is not on its way.
Decide == Move({"withheld", "released"}, {"withheld", "released"}) /\ UNCHANGED copies

Depart == Move({"released"}, {"inFlight"}) /\ UNCHANGED copies

Arrive ==
  /\ stage = "inFlight" /\ copies = 0
  /\ copies' = 1
  /\ UNCHANGED stage

Refuse == copies = 0 /\ Move({"inFlight"}, {"released", "withheld"}) /\ UNCHANGED copies

Confirmed == copies = 1 /\ Move({"inFlight"}, {"delivered"}) /\ UNCHANGED copies

LoseTrack == Move({"inFlight"}, {"unclear"}) /\ UNCHANGED copies

\* Someone looked at the destination and found nothing.
Clear == copies = 0 /\ Move({"unclear"}, {"withheld", "released"}) /\ UNCHANGED copies

DeliveryNext ==
  Decide \/ Depart \/ Arrive \/ Refuse \/ Confirmed \/ LoseTrack \/ Clear

DeliverySpec == DeliveryInit /\ [][DeliveryNext]_deliveryVars

\* At most one copy, and a copy is never behind an item that may be sent.
AtMostOneCopy ==
  /\ copies \in {0, 1}
  /\ stage \in Stages
  /\ stage \in {"withheld", "released"} => copies = 0
  /\ stage = "delivered" => copies = 1

\* Every attempt in flight is accounted for.
Accounted == stage = "inFlight" ~> stage # "inFlight"
=============================================================================
