----------------------------- MODULE Constraints -----------------------------
(***************************************************************************)
(* The constraint evaluator of idap.py (79-141).  A payload is the function *)
(* from the dotted paths it contains to their values; a JSON value is       *)
(* reduced to what comparisons look at: its kind, the number float() makes  *)
(* of it, its text and, for a list, its items.                              *)
(***************************************************************************)
EXTENDS Integers

Value(kind, num, text, items) == [kind |-> kind, num |-> num, text |-> text, items |-> items]

Number(n)  == Value("number", n, "", {})
Bool(b)    == Value("bool", IF b THEN 1 ELSE 0, "", {})
Numeral(n) == Value("numeral", n, "", {})    \* a string that spells the number n
Text(s)    == Value("text", 0, s, {})        \* any other string
NaN        == Value("nan", 0, "", {})        \* the JSON number NaN
Huge(n)    == Value("huge", n, "", {})       \* an integer too large for a float
Null       == Value("null", 0, "", {})
List(s)    == Value("list", 0, "", s)

(* Truth of a value in `bool(x)' and `x or y'.                             *)
Truthy(v) ==
  CASE v.kind \in {"number", "bool"} -> v.num # 0
    [] v.kind = "text" -> v.text # ""
    [] v.kind = "list" -> v.items # {}
    [] v.kind = "null" -> FALSE
    [] OTHER -> TRUE

(* Python's ==: True is 1, a string never equals the number it spells, NaN *)
(* equals nothing.  A list is reduced to the set of its items.             *)
Equal(a, b) ==
  /\ a.kind # "nan"
  /\ \/ a.kind = b.kind
     \/ {a.kind, b.kind} = {"number", "bool"}
  /\ a.num = b.num /\ a.text = b.text /\ a.items = b.items

(* float(v) returns: numbers, booleans and strings that spell a number.  Of  *)
(* the others, an integer too large raises OverflowError, which nothing     *)
(* catches, and the rest TypeError or ValueError.                          *)
IsFloat(v) == v.kind \in {"number", "bool", "numeral", "nan"}

Orders == {"lte", "lt", "gte", "gt"}

(* Mutant: a value that is no number satisfies every bound.                *)
OrderedFailingOpen(operator, actual, expected) ==
  \/ ~IsFloat(actual) \/ ~IsFloat(expected)
  \/ CASE operator = "lte" -> actual.num <= expected.num
       [] operator = "lt"  -> actual.num < expected.num
       [] operator = "gte" -> actual.num >= expected.num
       [] operator = "gt"  -> actual.num > expected.num

(* The numeric operators: values that are no floats satisfy none of them,   *)
(* and a comparison with NaN is false.                                     *)
Ordered(operator, actual, expected) ==
  /\ IsFloat(actual) /\ IsFloat(expected)
  /\ actual.kind # "nan" /\ expected.kind # "nan"
  /\ CASE operator = "lte" -> actual.num <= expected.num
       [] operator = "lt"  -> actual.num < expected.num
       [] operator = "gte" -> actual.num >= expected.num
       [] operator = "gt"  -> actual.num > expected.num

(* _compare_constraint on a field that exists, for every operator but      *)
(* `exists'.                                                               *)
Satisfies(operator, actual, expected) ==
  \/ operator = "eq" /\ Equal(actual, expected)
  \/ operator = "neq" /\ ~Equal(actual, expected)
  \/ operator = "in" /\ expected.kind = "list" /\ \E v \in expected.items : Equal(actual, v)
  \/ operator = "not_in" /\ expected.kind = "list" /\ \A v \in expected.items : ~Equal(actual, v)
  \/ operator \in Orders /\ Ordered(operator, actual, expected)

(* _field_value and _compare_constraint.                                   *)
Compare(payload, path, operator, expected) ==
  IF operator = "exists"
    THEN (path \in DOMAIN payload) = Truthy(expected)
    ELSE path \in DOMAIN payload /\ Satisfies(operator, payload[path], expected)

(* _constraints_match: every operator of the rule of every constrained     *)
(* path.  No constraints, or a rule without operators, accept everything.  *)
ConstraintsMatch(constraints, payload) ==
  \A path \in DOMAIN constraints : \A operator \in DOMAIN constraints[path] :
    Compare(payload, path, operator, constraints[path][operator])

(* _compare_constraint raises: the actual value is converted first.        *)
Overflows(payload, path, operator, expected) ==
  /\ operator \in Orders /\ path \in DOMAIN payload
  /\ \/ payload[path].kind = "huge"
     \/ IsFloat(payload[path]) /\ expected.kind = "huge"

(* Some comparison raises, unless one that fails comes before it: which is  *)
(* first depends on the order in which the rules were written.             *)
MayOverflow(constraints, payload) ==
  \E path \in DOMAIN constraints : \E operator \in DOMAIN constraints[path] :
    Overflows(payload, path, operator, constraints[path][operator])
=============================================================================
