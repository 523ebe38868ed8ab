----------------------- MODULE PaymentConstraints_proofs -----------------------
(***************************************************************************)
(* What the constraints of a payment and of the purchase it delegates to    *)
(* guarantee together, for any payloads: facts about the evaluation of      *)
(* constraints (idap.py) and the dictionaries the gateway builds.          *)
(***************************************************************************)
EXTENDS PaymentConstraints, TLAPS

(* A rule with one operator that a payload matches.                        *)
LEMMA RuleHolds ==
  ASSUME NEW constraints, NEW payload, ConstraintsMatch(constraints, payload),
         NEW path \in DOMAIN constraints, NEW operator, NEW expected,
         constraints[path] = Rule(operator, expected), operator # "exists"
  PROVE  path \in DOMAIN payload /\ Satisfies(operator, payload[path], expected)
  <1>1. operator \in DOMAIN constraints[path] /\ constraints[path][operator] = expected
    BY DEF Rule
  <1>2. Compare(payload, path, operator, expected)
    BY <1>1 DEF ConstraintsMatch
  <1> QED BY <1>2 DEF Compare

(* What Satisfies says of the two operators the policies use most.         *)
LEMMA SatisfiesEqLte ==
  ASSUME NEW a, NEW b
  PROVE  /\ Satisfies("eq", a, b) => Equal(a, b)
         /\ Satisfies("lte", a, b) => Ordered("lte", a, b)
  BY DEF Satisfies, Orders

(* The constraints _purchase_constraints writes for a field.               *)
LEMMA WritesBound ==
  ASSUME NEW p
  PROVE  LET airline == Or(Get(p, "airline"), Get(p, "merchant"))
             c == PurchaseConstraints(p)
         IN  /\ Get(p, "flight") # Null => "flight" \in DOMAIN c /\ c["flight"] = Rule("eq", Get(p, "flight"))
             /\ Get(p, "currency") # Null => "currency" \in DOMAIN c /\ c["currency"] = Rule("eq", Get(p, "currency"))
             /\ airline # Null => "airline" \in DOMAIN c /\ c["airline"] = Rule("eq", airline)
             /\ Get(p, "amount") # Null => "amount" \in DOMAIN c /\ c["amount"] = Rule("lte", Get(p, "amount"))
  BY DEF PurchaseConstraints

(* What the payment names, the ticket keeps.                               *)
LEMMA BoundHolds ==
  ASSUME NEW p, NEW t, ConstraintsMatch(PurchaseConstraints(p), t)
  PROVE  LET airline == Or(Get(p, "airline"), Get(p, "merchant"))
         IN  /\ Get(p, "flight") # Null => "flight" \in DOMAIN t /\ Equal(t["flight"], Get(p, "flight"))
             /\ Get(p, "currency") # Null => "currency" \in DOMAIN t /\ Equal(t["currency"], Get(p, "currency"))
             /\ airline # Null => "airline" \in DOMAIN t /\ Equal(t["airline"], airline)
             /\ Get(p, "amount") # Null => "amount" \in DOMAIN t /\ Ordered("lte", t["amount"], Get(p, "amount"))
  <1> DEFINE airline == Or(Get(p, "airline"), Get(p, "merchant"))
             c == PurchaseConstraints(p)
  <1> HIDE DEF airline, c
  <1>1. /\ Get(p, "flight") # Null => "flight" \in DOMAIN c /\ c["flight"] = Rule("eq", Get(p, "flight"))
        /\ Get(p, "currency") # Null => "currency" \in DOMAIN c /\ c["currency"] = Rule("eq", Get(p, "currency"))
        /\ airline # Null => "airline" \in DOMAIN c /\ c["airline"] = Rule("eq", airline)
        /\ Get(p, "amount") # Null => "amount" \in DOMAIN c /\ c["amount"] = Rule("lte", Get(p, "amount"))
    BY WritesBound DEF airline, c
  <1>2. ConstraintsMatch(c, t)
    BY DEF c
  <1>3. ASSUME NEW f \in DOMAIN c, NEW v, c[f] = Rule("eq", v) PROVE f \in DOMAIN t /\ Equal(t[f], v)
    BY <1>2, <1>3, RuleHolds, SatisfiesEqLte
  <1>4. ASSUME NEW f \in DOMAIN c, NEW v, c[f] = Rule("lte", v) PROVE f \in DOMAIN t /\ Ordered("lte", t[f], v)
    BY <1>2, <1>4, RuleHolds, SatisfiesEqLte
  <1>5. Get(p, "flight") # Null => "flight" \in DOMAIN t /\ Equal(t["flight"], Get(p, "flight"))
    BY <1>1, <1>3
  <1>6. Get(p, "currency") # Null => "currency" \in DOMAIN t /\ Equal(t["currency"], Get(p, "currency"))
    BY <1>1, <1>3
  <1>7. airline # Null => "airline" \in DOMAIN t /\ Equal(t["airline"], airline)
    BY <1>1, <1>3
  <1>8. Get(p, "amount") # Null => "amount" \in DOMAIN t /\ Ordered("lte", t["amount"], Get(p, "amount"))
    BY <1>1, <1>4
  <1> QED BY <1>5, <1>6, <1>7, <1>8 DEF airline

(* A ticket that the delegated constraints accept keeps the flight, the     *)
(* currency and the airline that the payment names, and costs no more      *)
(* (d3_gateway.py 304-317), for any two payloads.                          *)
THEOREM PurchaseNarrows ==
  ASSUME NEW p, NEW t, ConstraintsMatch(PurchaseConstraints(p), t)
  PROVE  Narrows(t, p)
  <1>1. "amount" \in DOMAIN t => Get(t, "amount") = t["amount"]
    BY DEF Get
  <1> QED BY <1>1, BoundHolds DEF Narrows, Keeps

(* What the default policy accepts.                                        *)
LEMMA DefaultAccepts ==
  ASSUME NEW p, ConstraintsMatch(DefaultPaymentConstraints, p)
  PROVE  /\ "amount" \in DOMAIN p /\ Ordered("lte", p["amount"], Number(300))
         /\ "currency" \in DOMAIN p /\ Equal(p["currency"], Text("EUR"))
  <1> DEFINE c == DefaultPaymentConstraints
  <1>1. /\ "amount" \in DOMAIN c /\ c["amount"] = Rule("lte", Number(300))
        /\ "currency" \in DOMAIN c /\ c["currency"] = Rule("eq", Text("EUR"))
    BY DEF DefaultPaymentConstraints
  <1> HIDE DEF c
  <1>2. ConstraintsMatch(c, p)
    BY DEF c
  <1>3. "amount" \in DOMAIN p /\ Satisfies("lte", p["amount"], Number(300))
    BY <1>1, <1>2, RuleHolds
  <1>4. "currency" \in DOMAIN p /\ Satisfies("eq", p["currency"], Text("EUR"))
    BY <1>1, <1>2, RuleHolds
  <1> QED BY <1>3, <1>4, SatisfiesEqLte

(* A value that equals a text is that text.                                *)
LEMMA EqualText ==
  ASSUME NEW v, IsJson(v), NEW s, Equal(v, Text(s))
  PROVE  v = Text(s)
  <1>1. /\ Text(s).kind = "text" /\ Text(s).num = 0 /\ Text(s).text = s /\ Text(s).items = {}
    BY DEF Text, Value
  <1>2. v.kind = "text" /\ v.num = 0 /\ v.text = s /\ v.items = {}
    BY <1>1 DEF Equal
  <1>3. v = Value("text", 0, s, {})
    BY <1>2 DEF IsJson
  <1> QED BY <1>3 DEF Text

LEMMA OrderedNotNull ==
  ASSUME NEW a, NEW b, Ordered("lte", a, b)
  PROVE  a # Null
  <1>1. IsFloat(a)
    BY DEF Ordered
  <1>2. a.kind \in {"number", "bool", "numeral", "nan"}
    BY <1>1 DEF IsFloat
  <1>3. Null.kind = "null"
    BY DEF Null, Value
  <1> QED BY <1>2, <1>3

LEMMA OrderedTransitive ==
  ASSUME NEW a, NEW b, NEW c, IsJson(a), IsJson(b), IsJson(c),
         Ordered("lte", a, b), Ordered("lte", b, c)
  PROVE  Ordered("lte", a, c)
  <1>1. a.num \in Int /\ b.num \in Int /\ c.num \in Int
    BY DEF IsJson
  <1>2. a.num <= b.num /\ b.num <= c.num
    BY DEF Ordered
  <1>3. a.num <= c.num
    BY <1>1, <1>2
  <1> QED BY <1>3 DEF Ordered

(* What the default policy accepts is within it.                           *)
LEMMA PolicyIsKept ==
  ASSUME NEW p, \A f \in DOMAIN p : IsJson(p[f]),
         ConstraintsMatch(DefaultPaymentConstraints, p)
  PROVE  WithinPolicy(p)
  <1>1. /\ "amount" \in DOMAIN p /\ Ordered("lte", p["amount"], Number(300))
        /\ "currency" \in DOMAIN p /\ Equal(p["currency"], Text("EUR"))
    BY DefaultAccepts
  <1>2. p["currency"] = Text("EUR")
    BY <1>1, EqualText
  <1> QED BY <1>1, <1>2 DEF WithinPolicy, Get

(* The two evaluations compose: a ticket that is accepted by what a payment *)
(* under the default policy delegates is within that policy, although the  *)
(* purchase is only compared with the payment, and each comparison coerces *)
(* its operands on its own (d3_gateway.py 38-42 and 304-317).              *)
THEOREM PolicyComposes ==
  ASSUME NEW p, \A f \in DOMAIN p : IsJson(p[f]),
         NEW t, \A f \in DOMAIN t : IsJson(t[f]),
         ConstraintsMatch(DefaultPaymentConstraints, p),
         ConstraintsMatch(PurchaseConstraints(p), t)
  PROVE  WithinPolicy(t)
  <1>1. /\ "amount" \in DOMAIN p /\ Ordered("lte", p["amount"], Number(300))
        /\ "currency" \in DOMAIN p /\ Equal(p["currency"], Text("EUR"))
    BY DefaultAccepts
  <1>2. p["currency"] = Text("EUR")
    BY <1>1, EqualText
  <1>3. Get(p, "amount") = p["amount"] /\ Get(p, "currency") = p["currency"]
    BY <1>1 DEF Get
  <1>4. Get(p, "amount") # Null
    BY <1>1, <1>3, OrderedNotNull
  <1>5. Get(p, "currency") # Null
    <2>1. Text("EUR").kind = "text" /\ Null.kind = "null"
      BY DEF Null, Text, Value
    <2> QED BY <1>2, <1>3, <2>1
  <1>6. /\ "amount" \in DOMAIN t /\ Ordered("lte", t["amount"], p["amount"])
        /\ "currency" \in DOMAIN t /\ Equal(t["currency"], Text("EUR"))
    BY <1>2, <1>3, <1>4, <1>5, BoundHolds
  <1>7. IsJson(Number(300))
    BY DEF IsJson, Number, Value
  <1>8. Ordered("lte", t["amount"], Number(300)) /\ t["currency"] = Text("EUR")
    BY <1>1, <1>6, <1>7, OrderedTransitive, EqualText
  <1> QED BY <1>6, <1>8 DEF WithinPolicy, Get
=============================================================================
