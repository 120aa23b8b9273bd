-------------------------- MODULE MCWorkflowEngine --------------------------
(* Small instances of WorkflowEngine: a read-only step with a retry contract,*)
(* after it a side-effecting one with a compensation, and after that one     *)
(* whose inputs never resolve.                                               *)
EXTENDS WorkflowEngine, TLC

MCClasses == {"timeout", "transient"}
MCDeclared == [s \in Steps |-> "none"]
MCMaxRetries == [s \in Steps |-> IF s = 0 THEN 2 ELSE 1]
MCOneRetry == [s \in Steps |-> 1]
MCRetryOn == [s \in Steps |-> IF s = 0 THEN {"timeout"} ELSE MCClasses]
MCWorkers == Permutations(Workers)
=============================================================================
