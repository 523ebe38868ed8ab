------------------------------ MODULE UseLedger ------------------------------
(***************************************************************************)
(* What an authorizer of quota-limited capabilities promises, with no       *)
(* threads, clocks, keys or restarts in sight: every capability has a       *)
(* quota from the moment it is issued, every grant uses up one unit of it,  *)
(* and a presentation is granted at most once.  idap.py is meant to be an   *)
(* implementation of this ledger.                                           *)
(***************************************************************************)
EXTENDS Integers

CONSTANTS CapIds, Presentations, Quotas

VARIABLES
  quota,   \* the quota of each capability, 0 before it is issued
  spent,   \* units used, per capability
  served   \* presentations granted so far

ledgerVars == <<quota, spent, served>>

Init ==
  /\ quota = [id \in CapIds |-> 0]
  /\ spent = [id \in CapIds |-> 0]
  /\ served = {}

Issue(id, q) ==
  /\ quota[id] = 0
  /\ quota' = [quota EXCEPT ![id] = q]
  /\ UNCHANGED <<spent, served>>

Grant(id, p) ==
  /\ spent[id] < quota[id]
  /\ p \notin served
  /\ spent' = [spent EXCEPT ![id] = @ + 1]
  /\ served' = served \cup {p}
  /\ UNCHANGED quota

Next ==
  \/ \E id \in CapIds, q \in Quotas : Issue(id, q)
  \/ \E id \in CapIds, p \in Presentations : Grant(id, p)

Spec == Init /\ [][Next]_ledgerVars
=============================================================================
