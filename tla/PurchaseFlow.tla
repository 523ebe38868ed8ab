---------------------------- MODULE PurchaseFlow ----------------------------
(***************************************************************************)
(* The data of the Travel Assistant flow on its own: a payment, and what it *)
(* lets a ticket purchase buy, over many more payloads than Gateway can     *)
(* explore.  Every request is one step; threads, quotas and keys are in     *)
(* Gateway.                                                                *)
(***************************************************************************)
EXTENDS PaymentConstraints

CONSTANTS
  Payments,        \* payloads of authorize_payment requests
  Purchases,       \* payloads of purchase_ticket requests
  OwnConstraints,  \* values of capability_constraints a client may send
  None             \* no payment, or no ticket, yet

ASSUME PayloadsAssumption ==
  \A p \in Payments \cup Purchases : \A f \in DOMAIN p : IsJson(p[f])

VARIABLES
  payment,      \* the payment last authorized: its payload and constraints
  delegated,    \* constraints of the delegated capability of that payment
  ticket        \* payload of the ticket last bought with it

vars == <<payment, delegated, ticket>>

Init ==
  /\ payment = None
  /\ delegated = None
  /\ ticket = None

(* invoke of authorize_payment, when its constraints accept the payload.   *)
AuthorizePayment(payload, own) ==
  /\ ConstraintsMatch(ConstraintsForRequest(Pay, own), payload)
  /\ payment' = [payload |-> payload, default |-> own = NoConstraints]
  /\ delegated' = PurchaseConstraints(payload)
  /\ ticket' = None

(* invoke of purchase_ticket, when the delegated constraints accept it.    *)
PurchaseTicket(payload) ==
  /\ payment # None
  /\ ConstraintsMatch(delegated, payload)
  /\ ticket' = payload
  /\ UNCHANGED <<payment, delegated>>

Next ==
  \/ \E p \in Payments, own \in OwnConstraints \cup {NoConstraints} : AuthorizePayment(p, own)
  \/ \E p \in Purchases : PurchaseTicket(p)

Spec == Init /\ [][Next]_vars

-----------------------------------------------------------------------------
(* A ticket costs no more than the default policy of its payment allows and *)
(* is paid in its currency (d3_gateway.py 38-42): the two evaluations,      *)
(* payment against policy and purchase against payment, compose although    *)
(* each coerces its operands on its own.                                   *)
TicketWithinPolicy == ticket # None /\ payment.default => WithinPolicy(ticket)

(* Whatever constraints the payment itself was under, the ticket keeps what *)
(* it names and costs no more (d3_gateway.py 304-317).  Not more than that: *)
(* README.md 383 promises the amount itself, and no word of the fields that *)
(* the payment leaves out.                                                 *)
TicketNarrowsPayment == ticket # None => Narrows(ticket, payment.payload)
=============================================================================
