------------------------- MODULE MCPermissionStore -------------------------
(* Small instances of PermissionStore: an ordinary and a critical action, a  *)
(* denied one, a gateway thread and a Streamlit window.                      *)
EXTENDS PermissionStore

CONSTANTS plain, risky, banned

MCRisk == [a \in Actions |->
             IF a = risky THEN "critical" ELSE IF a = plain THEN "low" ELSE "high"]
MCRole == [a \in Actions |-> "user"]
=============================================================================
