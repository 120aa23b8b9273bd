--------------------------- MODULE OneShotConsent ---------------------------
(***************************************************************************)
(* What the permission subsystem promises, without clocks, versions, hosts *)
(* or crashes: a request is asked once, a human grants or withdraws it, a  *)
(* grant may lapse, it is spent at most once, the action is performed at   *)
(* most once and only on a spent grant, and a settled request is closed.   *)
(***************************************************************************)
EXTENDS Naturals

CONSTANT Requests

VARIABLES consent,    \* where each request is
          performed   \* how often its action was performed

States == {"unasked", "asked", "granted", "withdrawn", "spent", "settled"}

Init == /\ consent = [r \in Requests |-> "unasked"]
        /\ performed = [r \in Requests |-> 0]

Move(r, from, to) == /\ consent[r] \in from
                     /\ consent' = [consent EXCEPT ![r] = to]
                     /\ UNCHANGED performed

Ask(r) == Move(r, {"unasked"}, "asked")
Grant(r) == Move(r, {"asked"}, "granted")
Spend(r) == Move(r, {"granted"}, "spent")
Settle(r) == Move(r, {"spent"}, "settled")

(* A pass over the table withdraws any number of open requests, and may ask *)
(* for one more in the same transaction.                                    *)
Open(r) == consent[r] \in {"asked", "granted"}

Withdraw(R) == [r \in Requests |-> IF r \in R THEN "withdrawn" ELSE consent[r]]

Lapse == /\ \E R \in SUBSET {r \in Requests : Open(r)} :
              \/ consent' = Withdraw(R)
              \/ \E q \in Requests : /\ consent[q] = "unasked"
                                     /\ consent' = [Withdraw(R) EXCEPT ![q] = "asked"]
         /\ UNCHANGED performed

Perform(r) == /\ consent[r] = "spent" /\ performed[r] = 0
              /\ performed' = [performed EXCEPT ![r] = 1]
              /\ UNCHANGED consent

Next == \/ \E r \in Requests : Ask(r) \/ Grant(r) \/ Spend(r) \/ Perform(r) \/ Settle(r)
        \/ Lapse

Spec == Init /\ [][Next]_<<consent, performed>>
=============================================================================
