------------------------------ MODULE MCGateway ------------------------------
(***************************************************************************)
(* Instances of Gateway for TLC: the order of publication, the payloads and *)
(* the requests clients send.                                              *)
(***************************************************************************)
EXTENDS Gateway

Plan == <<"identities", Buy, "travel registry", Pay, "payment registry">>

(* A payload serves for a payment and for the purchase after it.           *)
Trip == [flight |-> Text("AF1177"), airline |-> Text("Air France"),
         merchant |-> Text("Air France"), amount |-> Number(240), currency |-> Text("EUR"),
         authorization_id |-> AuthorizationId]
OpenTrip == [f \in DOMAIN Trip \ {"flight"} |-> Trip[f]]

PayloadFields ==
  [p \in {"trip", "other trip", "open trip", "foreign trip", "dear trip", "huge trip"} |->
     CASE p = "trip"       -> Trip
       [] p = "other trip" -> [Trip EXCEPT !.flight = Text("AF1180"), !.amount = Numeral(200)]
       [] p = "open trip"  -> OpenTrip
       [] p = "foreign trip" -> [Trip EXCEPT !.airline = Text("Ryanair")]
       [] p = "dear trip"  -> [Trip EXCEPT !.amount = Number(550)]
       [] p = "huge trip"  -> [Trip EXCEPT !.amount = Huge(1000)]]

OwnConstraints == {NoRules}

Request(a, p) == [action |-> a, provider |-> NoProvider, capability_action |-> a, payload |-> p,
                  constraints |-> NoConstraints]
Unconstrained(r) == [r EXCEPT !.constraints = NoRules]

Payment     == Request(Pay, "trip")
OpenPayment == Request(Pay, "open trip")
Overpriced  == Request(Pay, "dear trip")
Excessive   == Request(Pay, "huge trip")
Mismatched  == [Payment EXCEPT !.capability_action = Buy]
Misdirected == [Payment EXCEPT !.provider = "travel"]
Purchase    == Request(Buy, "trip")

ManyRequests ==
  {Payment, Overpriced, Unconstrained(Overpriced), Excessive, Mismatched, Misdirected,
   Purchase, Request(Buy, "dear trip")}
TripRequests == {OpenPayment, Request(Buy, "other trip"), Request(Buy, "foreign trip")}
TicketRequests == {Payment, Purchase}
=============================================================================
