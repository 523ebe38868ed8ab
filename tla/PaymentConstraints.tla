-------------------------- MODULE PaymentConstraints --------------------------
(***************************************************************************)
(* The constraints that the gateway signs into capabilities (d3_gateway.py):*)
(* those of a payment, brought by the client or else the default policy,    *)
(* and those a payment's payload turns into for the purchase it authorizes. *)
(***************************************************************************)
EXTENDS Constraints

CONSTANT NoConstraints   \* the request carries no capability_constraints

Pay == "authorize_payment"
Buy == "purchase_ticket"

(* What JSON decodes to: a payload's values, lists reduced to their items.  *)
IsJson(v) == v = Value(v.kind, v.num, v.text, v.items) /\ v.num \in Int

Rule(operator, expected) == [o \in {operator} |-> expected]

(* No constraints: None, or the empty object.                              *)
NoRules == [f \in {} |-> Rule("eq", Null)]

(* DEFAULT_PAYMENT_CONSTRAINTS.                                            *)
DefaultPaymentConstraints ==
  [merchant |-> Rule("in", List({Text("Lufthansa"), Text("Air France")})),
   amount   |-> Rule("lte", Number(300)),
   currency |-> Rule("eq", Text("EUR"))]

(* The id the mock payment service answers with.                           *)
AuthorizationId == Text("AUTH-123456")

(* payload.get(field): Null stands for absent as well as for null.         *)
Get(payload, field) == IF field \in DOMAIN payload THEN payload[field] ELSE Null

Or(a, b) == IF Truthy(a) THEN a ELSE b

(* Mutant: the default policy is forgotten.                                *)
ConstraintsWithoutPolicy(action, own) == IF own = NoConstraints THEN NoRules ELSE own

(* _constraints_for_request: whatever the client brings replaces the policy.*)
ConstraintsForRequest(action, own) ==
  IF own # NoConstraints THEN own
  ELSE IF action = Pay THEN DefaultPaymentConstraints
  ELSE NoRules

(* Mutant: only the amount is written into the delegated capability.       *)
PurchaseConstraintsAmountOnly(payload) ==
  [f \in {"authorization_id"} \cup {x \in {"amount"} : Get(payload, x) # Null} |->
     IF f = "amount" THEN Rule("lte", payload.amount) ELSE Rule("eq", AuthorizationId)]

(* _purchase_constraints: a field the payment leaves out is not constrained,*)
(* and the amount is bounded, not fixed.                                   *)
PurchaseConstraints(payload) ==
  LET airline == Or(Get(payload, "airline"), Get(payload, "merchant"))
      bound == [authorization_id |-> AuthorizationId,
                flight   |-> Get(payload, "flight"),
                airline  |-> airline,
                amount   |-> Get(payload, "amount"),
                currency |-> Get(payload, "currency")]
  IN  [f \in {x \in DOMAIN bound : bound[x] # Null} |->
         Rule(IF f = "amount" THEN "lte" ELSE "eq", bound[f])]

-----------------------------------------------------------------------------
(* For the properties.  A payload costs no more than the default policy     *)
(* allows, in its currency.                                                *)
WithinPolicy(payload) ==
  /\ Ordered("lte", Get(payload, "amount"), Number(300))
  /\ Get(payload, "currency") = Text("EUR")

Keeps(payload, field, value) ==
  value # Null => field \in DOMAIN payload /\ Equal(payload[field], value)

(* What the payment names the ticket keeps: the flight, the currency, and   *)
(* the airline or else the merchant; and it costs no more, if the payment   *)
(* names an amount.  What the payment does not name is free.               *)
Narrows(ticket, payment) ==
  /\ Keeps(ticket, "flight", Get(payment, "flight"))
  /\ Keeps(ticket, "currency", Get(payment, "currency"))
  /\ Keeps(ticket, "airline", Or(Get(payment, "airline"), Get(payment, "merchant")))
  /\ Get(payment, "amount") # Null =>
       Ordered("lte", Get(ticket, "amount"), Get(payment, "amount"))
=============================================================================
