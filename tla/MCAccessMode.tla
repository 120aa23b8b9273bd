---------------------------- MODULE MCAccessMode ----------------------------
(* Small instances of AccessMode: a query, an edit, a publication whose name *)
(* raises its declared risk, a plugin, and a tool the static policy denies.  *)
EXTENDS AccessMode

CONSTANTS look, edit, publish, plugin, banned, owner

MCDeclaredRisk ==
  [tool \in Tools |-> IF tool = plugin THEN "untrusted"
                      ELSE IF tool = edit THEN "medium" ELSE "low"]
MCRiskFloor == [tool \in Tools |-> IF tool = publish THEN "high" ELSE "low"]
MCUser == [w \in Windows |-> owner]

(* A bound: a window and a gateway thread do not work in the same behaviour, *)
(* which share nothing but the clock; the gateway's row is there for both,   *)
(* and only its owner uses it beside a window.                               *)
HostsApart ==
  \/ \A h \in Gateways : turn[h] = NoTurn
     /\ \A p \in Principals \ {owner} : request[p] = NoRequest /\ chosen[Row].by # p
  \/ \A w \in Windows : turn[w] = NoTurn /\ chosen[w] = NoChoice
=============================================================================
