--------------------------- MODULE MCPurchaseFlow ---------------------------
(***************************************************************************)
(* Payloads for PurchaseFlow: every mix of absent, null, numeric, spelled,  *)
(* huge and meaningless amounts with merchants and airlines inside and outside   *)
(* the policy.                                                             *)
(***************************************************************************)
EXTENDS PurchaseFlow

Absent == Text("absent")

(* The payload with the fields that are not Absent.                        *)
Payload(fields) == [f \in {x \in DOMAIN fields : fields[x] # Absent} |-> fields[f]]

AirFrance == Text("Air France")
Ryanair   == Text("Ryanair")

Amounts == {Absent, Null, NaN, Bool(TRUE), Number(240), Numeral(240), Number(300), Number(301),
            Huge(1000), Text("cheap")}

PaymentPayloads ==
  {Payload([merchant |-> m, airline |-> a, flight |-> f, amount |-> n, currency |-> c]) :
     m \in {AirFrance, Ryanair}, a \in {Absent, Text(""), AirFrance, Ryanair},
     f \in {Absent, Text("AF1177")}, n \in Amounts, c \in {Text("EUR"), Text("USD")}}

PurchasePayloads ==
  {Payload([authorization_id |-> i, airline |-> a, flight |-> f, amount |-> n, currency |-> c]) :
     i \in {Absent, AuthorizationId}, a \in {AirFrance, Ryanair}, f \in {Absent, Text("AF1177"), Text("LH241")},
     n \in Amounts \cup {Number(200)}, c \in {Text("EUR"), Text("USD")}}

Lenient == [amount |-> [o \in {"exists", "gt"} |->
                          IF o = "exists" THEN Bool(TRUE) ELSE Number(0)],
            merchant |-> Rule("neq", AirFrance),
            currency |-> Rule("not_in", List({Text("USD")}))]
MustBeFree == [amount |-> Rule("exists", Bool(FALSE))]

ClientConstraints == {NoRules, Lenient, MustBeFree}
=============================================================================
