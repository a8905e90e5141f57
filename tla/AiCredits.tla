------------------------------- MODULE AiCredits -------------------------------
(***************************************************************************)
(* The AI credit of a workspace (packages/db/src/tenant-policy.ts): a       *)
(* request to a model reserves an upper bound of its tokens, and what the   *)
(* provider reports replaces the reservation. Whether the workspace may do  *)
(* anything at all is read from the same subscription.                      *)
(*                                                                          *)
(* Every request reserves the same Bound; no limit is a limit out of reach. *)
(***************************************************************************)
EXTENDS Integers, FiniteSets, Functions

CONSTANTS
  Requests,  \* bound: ids of open reservations
  Bound,     \* inputTokensUpperBound + maxOutputTokens of a request
  Limits     \* the token limits an administrator may set

ASSUME CreditConstants ==
  /\ IsFiniteSet(Requests)
  /\ Bound \in Nat \ {0}
  /\ Limits \subseteq Nat /\ Limits # {}

VARIABLES
  operational,  \* workspace and subscription are active and not expired
  credit,       \* workspaceSubscriptions: [limit, used, reserved]
  open,         \* tenantAIReservations that are reserved
  bill,         \* what the provider charges for an open request
  spent,        \* what it charged for closed ones
  granted       \* the highest limit so far

credits == <<operational, credit, open, bill, spent, granted>>

\* A provider charges no more than the bound of a request
\* (packages/ai/src/index.ts:84): the length of its bytes and the output cap.
Tokens == 0 .. Bound

CreditInit ==
  /\ operational = TRUE
  /\ \E l \in Limits : credit = [limit |-> l, used |-> 0, reserved |-> 0] /\ granted = l
  /\ open = {}
  /\ bill = [q \in Requests |-> 0]
  /\ spent = 0

\* beforeRequest, one transaction under the workspace's row lock.
Affordable == credit.used + credit.reserved + Bound <= credit.limit

\* The id of a new reservation.
FreshRequest == CHOOSE q \in Requests : q \notin open

Reserve(q) ==
  /\ operational /\ Affordable
  /\ credit' = [credit EXCEPT !.reserved = @ + Bound]
  /\ open' = open \cup {q}
  /\ UNCHANGED <<operational, bill, spent, granted>>

\* The provider works on the request, whether or not its answer arrives.
Charge(q, tokens) ==
  /\ bill' = [bill EXCEPT ![q] = tokens]
  /\ UNCHANGED <<operational, credit, open, spent, granted>>

\* settle: what was used takes the place of the reservation.
ReservedAfter == IF credit.reserved < Bound THEN 0 ELSE credit.reserved - Bound

CloseRow(q, actual) ==
  /\ credit' = [credit EXCEPT !.reserved = ReservedAfter, !.used = @ + actual]
  /\ open' = open \ {q}
  /\ spent' = spent + bill[q]
  /\ bill' = [bill EXCEPT ![q] = 0]
  /\ UNCHANGED <<operational, granted>>

\* onUsage: unreported usage counts as the whole reservation.
Settle(q) == \E actual \in {bill[q], Bound} : CloseRow(q, actual)

\* onRequestRejected.
ReleaseCredit(q) == CloseRow(q, 0)

\* A request without an answer, charged or not, keeps its reservation.
Unanswered_Released(q, tokens) ==
  /\ credit' = [credit EXCEPT !.reserved = ReservedAfter]
  /\ open' = open \ {q}
  /\ spent' = spent + tokens
  /\ UNCHANGED <<operational, bill, granted>>
Unanswered(q, tokens) == Charge(q, tokens)

\* PATCH /platform/workspaces/:id, or the subscription's time is over.
Administer ==
  /\ \/ operational' = ~operational /\ UNCHANGED <<credit, granted>>
     \/ \E l \in Limits \ {credit.limit} :
          /\ credit' = [credit EXCEPT !.limit = l]
          /\ granted' = IF l > granted THEN l ELSE granted
          /\ UNCHANGED operational
  /\ UNCHANGED <<open, bill, spent>>

-----------------------------------------------------------------------------
(* Properties.                                                              *)

CreditOK ==
  /\ operational \in BOOLEAN
  /\ credit \in [limit : Limits, used : Nat, reserved : Nat]
  /\ open \subseteq Requests
  /\ bill \in [Requests -> Tokens]
  /\ spent \in Nat
  /\ granted \in Limits

\* What is reserved are the open requests; with what was used it stays within
\* the highest limit granted; and what was charged is counted as used.
Booked ==
  /\ credit.reserved = Bound * Cardinality(open)
  /\ credit.used + credit.reserved <= granted
  /\ credit.limit <= granted
  /\ spent <= credit.used

\* Whatever providers charge, for answers that were lost too, has been taken
\* off the credit or is still reserved, so that retries spend nothing
\* unaccounted (packages/db/src/tenant-policy.ts:55), and never exceeds the
\* highest credit granted; and no reservation leaks or is settled twice.
Covered ==
  /\ credit.reserved = Bound * Cardinality(open)
  /\ spent + SumFunctionOnSet(bill, open) <= credit.used + credit.reserved
  /\ credit.used + credit.reserved <= granted
=============================================================================
