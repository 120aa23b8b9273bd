----------------------------- MODULE OrderedRun -----------------------------
(***************************************************************************)
(* What a workflow run promises, without threads, leases, versions or      *)
(* crashes: its steps are taken strictly in order, each is tried a bounded *)
(* number of times and, where it needs consent, only once a human gave it; *)
(* it ends with one verdict, which stands until the run is cleared away.   *)
(***************************************************************************)
EXTENDS Naturals

CONSTANTS N,        \* steps
          Gated,    \* the steps that need consent
          Attempts  \* how often each step may be tried

VARIABLES verdict,  \* none, open, succeeded, failed, cancelled or cleared
          done,     \* how many steps succeeded
          tries,    \* how often each step was tried
          consent   \* unasked, asked, granted or refused, for each step

vars == <<verdict, done, tries, consent>>
Steps == 0..(N - 1)

Init == /\ verdict = "none"
        /\ done = 0
        /\ tries = [s \in Steps |-> 0]
        /\ consent = [s \in Steps |-> "unasked"]

Open == /\ verdict = "none" /\ verdict' = "open"
        /\ UNCHANGED <<done, tries, consent>>

Ask == /\ verdict = "open" /\ consent[done] = "unasked"
       /\ done \in Gated
       /\ consent' = [consent EXCEPT ![done] = "asked"]
       /\ UNCHANGED <<verdict, done, tries>>

(* A refusal fails the run; an answer to a cancelled run changes nothing else. *)
Answer == /\ verdict \in {"open", "cancelled"} /\ consent[done] = "asked"
          /\ \/ /\ consent' = [consent EXCEPT ![done] = "granted"]
                /\ UNCHANGED verdict
             \/ /\ consent' = [consent EXCEPT ![done] = "refused"]
                /\ verdict' = IF verdict = "open" THEN "failed" ELSE verdict
          /\ UNCHANGED <<done, tries>>

Try == /\ verdict = "open"
       /\ done \in Gated => consent[done] = "granted"
       /\ tries[done] < Attempts[done]
       /\ tries' = [tries EXCEPT ![done] = @ + 1]
       /\ UNCHANGED <<verdict, done, consent>>

Finish == /\ verdict = "open" /\ tries[done] > 0
          /\ done' = done + 1
          /\ verdict' = IF done + 1 = N THEN "succeeded" ELSE "open"
          /\ UNCHANGED <<tries, consent>>

Stop == /\ verdict = "open" /\ verdict' \in {"failed", "cancelled"}
        /\ UNCHANGED <<done, tries, consent>>

ClearAway == /\ verdict \notin {"none", "cleared"} /\ verdict' = "cleared"
             /\ UNCHANGED <<done, tries, consent>>

Next == Open \/ Ask \/ Answer \/ Try \/ Finish \/ Stop \/ ClearAway

Spec == Init /\ [][Next]_vars
=============================================================================
