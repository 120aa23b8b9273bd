--------------------------- MODULE WorkflowEngine ---------------------------
(***************************************************************************)
(* One durable workflow run of artpm_agent: its workflow_runs row, its     *)
(* workflow_steps and workflow_approvals rows (workflows/store.py) and the *)
(* threads that advance it through WorkflowEngine.resume                   *)
(* (workflows/engine.py).                                                  *)
(*                                                                         *)
(* Every method of the store is one transaction, hence at most one action. *)
(* resume keeps its own copy of the run between two calls, and any number  *)
(* of threads, of any process, may be inside resume at once: the chat turn *)
(* that started the run, the approval that resumes it, a repeated request. *)
(*                                                                         *)
(* Time is abstracted: a claim's lease becomes stale, and a backoff ends,  *)
(* at some moment.                                                         *)
(***************************************************************************)
EXTENDS Integers, FiniteSets

CONSTANTS
  N,            \* steps of the definition
  Workers,      \* threads that may call the engine
  Classes,      \* error classes of a failed skill
  SideEffect,   \* the steps whose capability changes something outside
  Declared,     \* the stronger of a step's declared and registered approval
  MaxRetries,   \* retry contract of each step; 0 when it has none
  RetryOn,      \* error classes each contract covers
  Backoff,      \* the steps whose retries wait
  Compensated,  \* the steps that name a compensation skill
  Unresolvable, \* the steps whose input references cannot be resolved
  Revocable,    \* may an engine find the definition outside its allowlist
  Faults        \* may a process die

Steps == 0..(N - 1)
Levels == {"none", "user", "admin"}
Rank == [none |-> 0, user |-> 1, admin |-> 2]

ASSUME DefinitionAssumption ==
  /\ N \in Nat \ {0}
  /\ SideEffect \subseteq Steps /\ Compensated \subseteq Steps
  /\ Backoff \subseteq Steps /\ Unresolvable \subseteq Steps
  /\ Declared \in [Steps -> Levels]
  /\ MaxRetries \in [Steps -> Nat]
  /\ RetryOn \in [Steps -> SUBSET Classes]
  /\ Revocable \in BOOLEAN /\ Faults \in BOOLEAN

VARIABLES
  run,       \* the run's row: status, current_step and state_version
  step,      \* the step rows: status, attempt, whether its retry is due and
             \* whether the lease of its claim is stale
  approval,  \* the approval row of each step: status and deciding level
  outputs,   \* the steps with an entry in outputs_json
  notices,   \* the steps with a compensation.required event
  pc,        \* where each worker is in the engine
  local,     \* its copy of the run, the attempt it claimed, the error it caught
  claims     \* history: how often each step was claimed, who did it last, and
             \* whether that thread left on an error of the store

vars == <<run, step, approval, outputs, notices, pc, local, claims>>

-----------------------------------------------------------------------------
Executable == {"pending", "running"}
Terminal == {"succeeded", "failed", "cancelled"}
NoRun == {"absent", "cleared"}

NewStep == [status |-> "pending", attempt |-> 1, due |-> TRUE, stale |-> FALSE]
NoApproval == [status |-> "absent", level |-> "none"]
NoLocal == [cur |-> 0, version |-> 0, attempt |-> 0, error |-> "none"]
LocalOf(r) == [cur |-> r.cur, version |-> r.version, attempt |-> 0,
               error |-> "none"]

(* _effective_approval: a side effect needs at least a user. *)
Requirement(s) ==
  IF s \in SideEffect /\ Declared[s] = "none" THEN "user" ELSE Declared[s]

(* The retry contract of a step, for its attempt a and an error class. *)
MayRetry(s, a, class) == a <= MaxRetries[s] /\ class \in RetryOn[s]

RunTo(status) == run' = [run EXCEPT !.status = status, !.version = @ + 1]
StepTo(s, status) == step' = [step EXCEPT ![s].status = status]

(* A step goes back to pending for one more attempt. *)
Repend(s, due) ==
  /\ step' = [step EXCEPT ![s].status = "pending", ![s].attempt = @ + 1,
                          ![s].due = due]
  /\ RunTo("pending")

(* Mutant of Notify: emitted although the step names no compensation.        *)
NotifyAlways(s) == notices' = notices \cup {s}

Notify(s) == notices' = IF s \in Compensated THEN notices \cup {s} ELSE notices

At(w, p) == pc' = [pc EXCEPT ![w] = p]
Keep(w, p, l) == At(w, p) /\ local' = [local EXCEPT ![w] = l]
Leave(w) == Keep(w, "idle", NoLocal)

(* The program counters of a worker inside the engine:                       *)
(*   reading     resume is called           refusing   definition not allowed *)
(*   recovering  the run was running        checking   top of the loop        *)
(*   unresolved  the inputs cannot be built asking     approval is read       *)
(*   requesting  it was not there           claiming   the step is claimed    *)
(*   executing   the skill runs             returned, raised  it came back    *)
(*   cancelling  cancel has read the run                                      *)
PCs == {"idle", "reading", "refusing", "recovering", "checking", "unresolved",
        "asking", "requesting", "claiming", "executing", "returned", "raised",
        "cancelling"}

Init ==
  /\ run = [status |-> "absent", cur |-> 0, version |-> 0]
  /\ step = [s \in Steps |-> NewStep]
  /\ approval = [s \in Steps |-> NoApproval]
  /\ outputs = {}
  /\ notices = {}
  /\ pc = [w \in Workers |-> "idle"]
  /\ local = [w \in Workers |-> NoLocal]
  /\ claims = [s \in Steps |-> [count |-> 0, last |-> {}, lost |-> FALSE]]

(* start: create_run inserts the run once per idempotency key and returns it *)
(* ever after; then resume.  A plain resume begins the same way.  (Started   *)
(* after a clear, the key names a new run, which is not this one.)           *)
Start(w) ==
  /\ pc[w] = "idle"
  /\ run' = IF run.status = "absent" THEN [run EXCEPT !.status = "pending"] ELSE run
  /\ At(w, "reading")
  /\ UNCHANGED <<step, approval, outputs, notices, local, claims>>

(* resume up to its first write: read the run, check the allowlist. *)
ReadRun(w) ==
  /\ pc[w] = "reading"
  /\ \/ /\ run.status \in Terminal \cup NoRun
        /\ Leave(w)
     \/ /\ run.status \notin Terminal \cup NoRun
        /\ IF run.status = "running" THEN Keep(w, "recovering", LocalOf(run))
                                     ELSE Keep(w, "checking", LocalOf(run))
     \/ /\ Revocable /\ run.status \notin Terminal \cup NoRun
        /\ IF run.status \in Executable THEN Keep(w, "refusing", LocalOf(run))
                                        ELSE Leave(w)
  /\ UNCHANGED <<run, step, approval, outputs, notices, claims>>

(* fail_step for the step the worker believes current; otherwise it raises. *)
Failable(s) == run.status \in Executable /\ step[s].status \in Executable

(* Mutant of FailStep: the failure is recorded, the compensation is not.     *)
FailStepSilently(s) ==
  \/ /\ Failable(s)
     /\ RunTo("failed")
     /\ step' = [step EXCEPT ![s].status = "failed", ![s].due = TRUE]
     /\ UNCHANGED notices
  \/ /\ ~ Failable(s)
     /\ UNCHANGED <<run, step, notices>>

FailStep(s) ==
  \/ /\ Failable(s)
     /\ RunTo("failed")
     /\ step' = [step EXCEPT ![s].status = "failed", ![s].due = TRUE]
     /\ Notify(s)
  \/ /\ ~ Failable(s)
     /\ UNCHANGED <<run, step, notices>>

Refuse(w) ==
  /\ pc[w] \in {"refusing", "unresolved"}
  /\ FailStep(local[w].cur)
  /\ Leave(w)
  /\ UNCHANGED <<approval, outputs, claims>>

(* recover_stale_run: only a stale lease is touched; a read-only step with a *)
(* timeout contract gets another attempt, any other one fails with its run.  *)
(* allow_stale_retry is computed from the worker's copy of the run.          *)
LeaseLost == run.status = "running" /\ step[run.cur].stale

(* Mutant of Recoverable: the caller's flag is trusted, the policy is not    *)
(* asked again about the step that is really current.                        *)
RecoverableByCopy(w, s) == /\ local[w].cur \notin SideEffect
                           /\ MayRetry(s, step[s].attempt, "timeout")

Recoverable(w, s) ==
  /\ local[w].cur \notin SideEffect /\ s \notin SideEffect
  /\ MayRetry(s, step[s].attempt, "timeout")

Recover(w) ==
  LET s == run.cur IN
  /\ pc[w] = "recovering"
  /\ \/ /\ ~ LeaseLost
        /\ Leave(w)
        /\ UNCHANGED <<run, step, notices>>
     \/ /\ LeaseLost /\ Recoverable(w, s)
        /\ Repend(s, TRUE)
        /\ Keep(w, "checking", LocalOf(run'))
        /\ UNCHANGED notices
     \/ /\ LeaseLost /\ ~ Recoverable(w, s)
        /\ StepTo(s, "failed")
        /\ RunTo("failed")
        /\ Notify(s)
        /\ Leave(w)
  /\ UNCHANGED <<approval, outputs, claims>>

(* The top of the loop: is a scheduled retry due, can the inputs be built. *)
CheckStep(w) ==
  LET s == local[w].cur IN
  /\ pc[w] = "checking"
  /\ IF run.status \in NoRun \/ ~ step[s].due THEN Leave(w)
     ELSE /\ At(w, CASE s \in Unresolvable       -> "unresolved"
                     [] s \notin Unresolvable /\ Requirement(s) # "none" -> "asking"
                     [] OTHER                    -> "claiming")
          /\ UNCHANGED local
  /\ UNCHANGED <<run, step, approval, outputs, notices, claims>>

(* The approval gate: only an approved row lets the worker pass. *)
CheckApproval(w) ==
  LET s == local[w].cur IN
  /\ pc[w] = "asking"
  /\ CASE run.status \in NoRun \/ approval[s].status = "absent" ->
            At(w, "requesting") /\ UNCHANGED local
       [] run.status \notin NoRun /\ approval[s].status = "approved" ->
            At(w, "claiming") /\ UNCHANGED local
       [] OTHER -> Leave(w)
  /\ UNCHANGED <<run, step, approval, outputs, notices, claims>>

(* request_approval pauses the run; another worker may have done it first. *)
RequestApproval(w) ==
  LET s == local[w].cur IN
  /\ pc[w] = "requesting"
  /\ \/ /\ approval[s].status = "absent" /\ Failable(s)
        /\ step[s].status = "pending"
        /\ approval' = [approval EXCEPT ![s].status = "pending"]
        /\ StepTo(s, "awaiting")
        /\ RunTo("awaiting")
     \/ /\ approval[s].status # "absent" \/ ~ Failable(s) \/ step[s].status # "pending"
        /\ UNCHANGED <<run, step, approval>>
  /\ Leave(w)
  /\ UNCHANGED <<outputs, notices, claims>>

(* claim_step; a conflict ends the worker's turn. *)
(* Mutant of Claimable: only the step's status is compared.                  *)
ClaimableStep(s) == step[s].status = "pending"

Claimable(s) == /\ run.status \in Executable
                /\ run.cur = s
                /\ step[s].status = "pending"

(* Mutant of ClaimStep: a worker that lost the race goes round the loop.     *)
ClaimStepSpinning(w) ==
  LET s == local[w].cur IN
  /\ pc[w] = "claiming"
  /\ \/ /\ Claimable(s)
        /\ step' = [step EXCEPT ![s].status = "running", ![s].due = TRUE,
                                ![s].stale = FALSE]
        /\ RunTo("running")
        /\ Keep(w, "executing", [LocalOf(run') EXCEPT !.attempt = step[s].attempt])
        /\ claims' = [claims EXCEPT ![s] = [count |-> @.count + 1, last |-> {w}, lost |-> FALSE]]
     \/ /\ ~ Claimable(s)
        /\ At(w, "checking")
        /\ UNCHANGED <<run, step, claims, local>>
  /\ UNCHANGED <<approval, outputs, notices>>

ClaimStep(w) ==
  LET s == local[w].cur IN
  /\ pc[w] = "claiming"
  /\ \/ /\ Claimable(s)
        /\ step' = [step EXCEPT ![s].status = "running", ![s].due = TRUE,
                                ![s].stale = FALSE]
        /\ RunTo("running")
        /\ Keep(w, "executing", [LocalOf(run') EXCEPT !.attempt = step[s].attempt])
        /\ claims' = [claims EXCEPT ![s] = [count |-> @.count + 1, last |-> {w}, lost |-> FALSE]]
     \/ /\ ~ Claimable(s)
        /\ Leave(w)
        /\ UNCHANGED <<run, step, claims>>
  /\ UNCHANGED <<approval, outputs, notices>>

(* The skill runs outside any transaction, for as long as it takes. *)
Execute(w) ==
  /\ pc[w] = "executing"
  /\ \/ At(w, "returned") /\ UNCHANGED local
     \/ \E class \in Classes : Keep(w, "raised", [local[w] EXCEPT !.error = class])
  /\ UNCHANGED <<run, step, approval, outputs, notices, claims>>

(* complete_step compares statuses only; on a conflict it raises. *)
(* Mutants of Completable: only one of the two rows is compared.             *)
CompletableRun(s) == run.status = "running"
CompletableStep(s) == step[s].status = "running"

Completable(s) == run.status = "running" /\ step[s].status = "running"

CompleteStep(w) ==
  LET s == local[w].cur IN
  /\ pc[w] = "returned"
  /\ \/ /\ Completable(s)
        /\ StepTo(s, "succeeded")
        /\ run' = [status |-> IF s + 1 = N THEN "succeeded" ELSE "pending",
                   cur |-> s + 1, version |-> run.version + 1]
        /\ outputs' = outputs \cup {s}
        /\ IF s + 1 = N THEN Leave(w) ELSE Keep(w, "checking", LocalOf(run'))
     \/ /\ ~ Completable(s)
        /\ Leave(w)
        /\ UNCHANGED <<run, step, outputs>>
  /\ UNCHANGED <<approval, notices, claims>>

(* The except branch.  _can_retry looks at the attempt this worker claimed,  *)
(* schedule_retry at the attempt in the row; without backoff the loop goes   *)
(* on at once.                                                               *)
(* Mutant of Retriable: the attempt in the row is not compared again.        *)
RetriableByClaim(w, s) == Completable(s)

Retriable(w, s) == /\ Completable(s)
                   /\ MayRetry(s, step[s].attempt, local[w].error)

Retry(w) ==
  LET s == local[w].cur IN
  /\ pc[w] = "raised"
  /\ MayRetry(s, local[w].attempt, local[w].error)
  /\ \/ /\ Retriable(w, s)
        /\ Repend(s, s \notin Backoff)
        /\ IF s \in Backoff THEN Leave(w) ELSE Keep(w, "checking", LocalOf(run'))
     \/ /\ ~ Retriable(w, s)
        /\ Leave(w)
        /\ UNCHANGED <<run, step>>
  /\ UNCHANGED <<approval, outputs, notices, claims>>

(* Mutant of GiveUp: the failure is only reported to the caller.             *)
GiveUpQuietly(w) ==
  /\ pc[w] = "raised"
  /\ ~ MayRetry(local[w].cur, local[w].attempt, local[w].error)
  /\ Leave(w)
  /\ UNCHANGED <<run, step, notices, approval, outputs, claims>>

GiveUp(w) ==
  LET s == local[w].cur IN
  /\ pc[w] = "raised"
  /\ ~ MayRetry(s, local[w].attempt, local[w].error)
  /\ FailStep(s)
  /\ Leave(w)
  /\ UNCHANGED <<approval, outputs, claims>>

(* APPROVAL_RANK of the actor against the requirement of the gate, and its   *)
(* mutant that compares nothing.                                             *)
AnyRank(level, s) == level \in Levels
Suffices(level, s) == Rank[level] >= Rank[Requirement(s)]

(* decide_approval: the first decision counts, the same one again changes    *)
(* nothing, and an approval resumes the run in the same thread.              *)
Decide(w, s, d, level) ==
  LET a == approval[s] IN
  /\ pc[w] = "idle" /\ run.status \notin NoRun
  /\ \/ /\ a.status = "pending"
        /\ d = "approved" => Suffices(level, s)
        /\ approval' = [approval EXCEPT ![s] = [status |-> d, level |-> level]]
        /\ IF step[s].status = "awaiting"
           THEN StepTo(s, IF d = "approved" THEN "pending" ELSE "failed")
           ELSE UNCHANGED step
        /\ IF run.status = "awaiting"
           THEN RunTo(IF d = "approved" THEN "pending" ELSE "failed")
           ELSE UNCHANGED run
     \/ /\ a.status = d
        /\ UNCHANGED <<run, step, approval>>
  /\ IF d = "approved" THEN At(w, "reading") ELSE UNCHANGED pc
  /\ UNCHANGED <<outputs, notices, local, claims>>

(* cancel: read the run, then compare-and-swap on its version; the step rows *)
(* stay as they are.                                                         *)
ReadToCancel(w) ==
  /\ pc[w] = "idle" /\ run.status \notin NoRun
  /\ Keep(w, "cancelling", LocalOf(run))
  /\ UNCHANGED <<run, step, approval, outputs, notices, claims>>

Cancel(w) ==
  /\ pc[w] = "cancelling"
  /\ \/ /\ run.status \notin Terminal \cup NoRun
        /\ run.version = local[w].version
        /\ RunTo("cancelled")
     \/ /\ run.status \in Terminal \cup NoRun \/ run.version # local[w].version
        /\ UNCHANGED run
  /\ Leave(w)
  /\ UNCHANGED <<step, approval, outputs, notices, claims>>

(* clear_conversation_runs deletes the run, its steps, approvals and events. *)
Clear ==
  /\ run.status \notin NoRun
  /\ run' = [run EXCEPT !.status = "cleared"]
  /\ UNCHANGED <<step, approval, outputs, notices, pc, local, claims>>

(* The environment: a lease outlives stale_after_seconds, a backoff ends, a  *)
(* process dies.                                                             *)
LeaseExpires(s) ==
  /\ step[s].status = "running" /\ ~ step[s].stale
  /\ step' = [step EXCEPT ![s].stale = TRUE]
  /\ UNCHANGED <<run, approval, outputs, notices, pc, local, claims>>

BackoffEnds(s) ==
  /\ ~ step[s].due
  /\ step' = [step EXCEPT ![s].due = TRUE]
  /\ UNCHANGED <<run, approval, outputs, notices, pc, local, claims>>

(* A method of the store may raise something else than a conflict: the       *)
(* database stays locked for longer than its timeout, a payload is larger    *)
(* than _json takes.  resume catches conflicts only, so the error leaves it; *)
(* the transaction is rolled back, and a step that was running stays so.     *)
StoreRaises(w) ==
  /\ pc[w] \notin {"idle", "executing"}
  /\ IF pc[w] \in {"returned", "raised"} /\ local[w].attempt = step[local[w].cur].attempt
     THEN claims' = [claims EXCEPT ![local[w].cur].lost = TRUE]
     ELSE UNCHANGED claims
  /\ Leave(w)
  /\ UNCHANGED <<run, step, approval, outputs, notices>>

Crash(w) ==
  /\ Faults
  /\ pc[w] # "idle"
  /\ Leave(w)
  /\ UNCHANGED <<run, step, approval, outputs, notices, claims>>

WorkerStep(w) ==
  \/ ReadRun(w) \/ Refuse(w) \/ Recover(w) \/ CheckStep(w) \/ CheckApproval(w)
  \/ RequestApproval(w) \/ ClaimStep(w) \/ Execute(w) \/ CompleteStep(w)
  \/ Retry(w) \/ GiveUp(w) \/ Cancel(w)

Next ==
  \/ \E w \in Workers :
       \/ Start(w) \/ WorkerStep(w) \/ ReadToCancel(w) \/ StoreRaises(w) \/ Crash(w)
       \/ \E s \in Steps, d \in {"approved", "rejected"}, level \in Levels :
            Decide(w, s, d, level)
  \/ Clear
  \/ \E s \in Steps : LeaseExpires(s) \/ BackoffEnds(s)

Spec == Init /\ [][Next]_vars

(* A thread inside the engine is scheduled and the skill it calls returns or *)
(* raises; no error of the store is promised.  Nothing is assumed of the callers, the humans or the clock: no   *)
(* scheduler of the program resumes a run by itself.                         *)
FairSpec == Spec /\ \A w \in Workers : WF_vars(WorkerStep(w))
-----------------------------------------------------------------------------
(* Properties. *)

StepType == [status : {"pending", "awaiting", "running", "succeeded", "failed"},
             attempt : Nat, due : BOOLEAN, stale : BOOLEAN]
ApprovalType == [status : {"absent", "pending", "approved", "rejected"},
                 level : Levels]
RunType == [status : NoRun \cup Executable \cup Terminal \cup {"awaiting"},
            cur : 0..N, version : Nat]
ClaimType == [count : Nat, last : SUBSET Workers, lost : BOOLEAN]
LocalType == [cur : 0..N, version : Nat, attempt : Nat,
              error : Classes \cup {"none"}]

(* Types.                                                                    *)
TypeOK ==
  /\ run \in RunType
  /\ step \in [Steps -> StepType]
  /\ approval \in [Steps -> ApprovalType]
  /\ outputs \subseteq Steps /\ notices \subseteq Compensated
  /\ pc \in [Workers -> PCs]
  /\ local \in [Workers -> LocalType]
  /\ claims \in [Steps -> ClaimType]

(* The run's row and its step rows agree although threads with outdated      *)
(* copies of the run keep writing: the steps before current_step succeeded   *)
(* and left their output, the ones after it are untouched, and the current   *)
(* one is where the run's status says.                                       *)
StatusOfCurrent ==
  CASE run.status = "cancelled" -> {"pending", "awaiting", "running", "failed"}
    [] run.status \in {"pending", "absent"} -> {"pending"}
    [] OTHER -> {run.status}

RunAndStepsAgree == run.status # "cleared" =>
  /\ outputs = {s \in Steps : s < run.cur}
  /\ \A s \in Steps : s < run.cur => step[s].status = "succeeded"
  /\ \A s \in Steps : s > run.cur => step[s] = NewStep /\ approval[s] = NoApproval
  /\ run.cur = N <=> run.status = "succeeded"
  /\ run.cur < N => step[run.cur].status \in StatusOfCurrent

Executing(w) == pc[w] = "executing"

(* A skill that needs an approval only runs on one a human of the required   *)
(* rank gave for that very step, retries and recoveries included.            *)
GateHolds ==
  \A w \in Workers : LET s == local[w].cur IN
    Executing(w) /\ Requirement(s) # "none" =>
      /\ approval[s].status = "approved"
      /\ Rank[approval[s].level] >= Rank[Requirement(s)]

(* A step is handed to its skill at most once per attempt, and there are at  *)
(* most max_retries + 1 attempts, whoever retries: the threads that claimed  *)
(* it, the ones that recover it, or one whose lease was lost long ago.       *)
AttemptsBounded ==
  \A s \in Steps : /\ claims[s].count <= step[s].attempt
                   /\ step[s].attempt <= MaxRetries[s] + 1

(* A side-effecting skill is never run by two threads at once (recovery does *)
(* not replay it, and a retry waits for the failure of the one before).      *)
SideEffectsAlone ==
  \A v, w \in Workers :
    v # w /\ Executing(v) /\ Executing(w) /\ local[v].cur = local[w].cur =>
      local[v].cur \notin SideEffect

(* When a run fails on a step that was handed to its skill, whose effect is  *)
(* therefore in doubt, the compensation it names has been asked for.         *)
DoubtIsReported ==
  run.status = "failed" /\ run.cur \in Compensated /\ claims[run.cur].count > 0
    => run.cur \in notices

(* A finished run stays as it is, whatever late threads write, and hands no  *)
(* step to a skill any more.                                                 *)
FinishedRunsRest ==
  [][run.status \in Terminal \cup {"cleared"} =>
       /\ run'.status \in {run.status, "cleared"}
       /\ run'.cur = run.cur /\ outputs' = outputs
       /\ \A s \in Steps : claims'[s].count = claims[s].count]_vars

(* A thread that calls the engine gets out of it: the retries of a step      *)
(* without backoff, which the loop makes itself, come to an end.             *)
CallsReturn == \A w \in Workers : pc[w] # "idle" ~> pc[w] = "idle"

(* While no process dies, every attempt of a step of a running run is        *)
(* concluded: recorded, retried, failed, or overtaken by a cancel or clear,  *)
(* unless the store's error left resume and so told the caller that it is    *)
(* not.                                                                      *)
Attempting(s, a) ==
  run.status = "running" /\ run.cur = s /\ step[s].attempt = a

AttemptsConclude ==
  \A s \in Steps : \A a \in 1..(MaxRetries[s] + 1) :
    Attempting(s, a) ~> ~ Attempting(s, a) \/ claims[s].lost

(* A step is not claimed again while the thread that claimed it last still   *)
(* runs its skill under a fresh lease ("Never replay it before its lease is  *)
(* demonstrably stale", engine.py, resume).  The code does not keep this:    *)
(* complete_step, fail_step and schedule_retry do not ask who claimed.       *)
FreshLeaseNotReplayed ==
  [][\A s \in Steps : claims'[s].count # claims[s].count /\ ~ step[s].stale =>
       \A w \in claims[s].last : ~ (Executing(w) /\ local[w].cur = s)]_vars

(* The engine implements the promise of an ordered, bounded, consented run.  *)
Verdict(status) ==
  CASE status = "absent"                               -> "none"
    [] status \in {"pending", "running", "awaiting"} -> "open"
    [] OTHER                                           -> status

Answered(status) ==
  CASE status = "absent"   -> "unasked"
    [] status = "pending"  -> "asked"
    [] status = "approved" -> "granted"
    [] status = "rejected" -> "refused"

Promise == INSTANCE OrderedRun WITH
             N <- N,
             Gated <- {s \in Steps : Requirement(s) # "none"},
             Attempts <- [s \in Steps |-> MaxRetries[s] + 1],
             verdict <- Verdict(run.status),
             done <- run.cur,
             tries <- [s \in Steps |-> claims[s].count],
             consent <- [s \in Steps |-> Answered(approval[s].status)]

(* Threads with outdated copies of the run, recoveries, retries, cancels and *)
(* crashes never let a run do what OrderedRun forbids.                       *)
ImplementsOrderedRun == Promise!Spec
=============================================================================
