------------------------ MODULE WorkflowEngineProofs ------------------------
(***************************************************************************)
(* Proofs about WorkflowEngine for every definition of a workflow, every   *)
(* number of threads and error classes, with or without faults and         *)
(* revocations.                                                            *)
(*                                                                         *)
(* The inductive invariant is IInv.  It says, of each step, how its row,   *)
(* its approval and its claims go together and where it is of the current  *)
(* one (StepInv); of each thread, that its copy of the run is never ahead  *)
(* of the run and that it passed the gate it is past (WorkerInv); of each  *)
(* side-effecting step, that one thread at most can still report its       *)
(* outcome, and none while the step waits (HolderInv).                     *)
(*                                                                         *)
(* AttemptsAreHeld and CallsAdvance are the safety halves of the liveness  *)
(* properties: a running step is held by a thread, and no thread goes      *)
(* round the loop without getting ahead.                                   *)
(***************************************************************************)
EXTENDS WorkflowEngine, TLAPS

Waiting == {"pending", "awaiting"}
Outside == {"idle", "reading", "cancelling"}
Claimed == {"executing", "returned", "raised"}
PastGate == Claimed \cup {"claiming"}

StepInv(s) ==
  /\ run.status # "cleared" =>
       /\ s \in outputs <=> s < run.cur
       /\ s < run.cur => step[s].status = "succeeded"
       /\ s > run.cur => step[s] = NewStep /\ approval[s] = NoApproval
       /\ s = run.cur => step[s].status \in StatusOfCurrent
  /\ claims[s].count <= step[s].attempt /\ step[s].attempt <= MaxRetries[s] + 1
  /\ step[s].status \in Waiting => claims[s].count < step[s].attempt
  /\ step[s].status = "running" => claims[s].count > 0
  /\ Requirement(s) # "none" /\ claims[s].count > 0 => approval[s].status = "approved"
  /\ approval[s].status = "pending" <=> step[s].status = "awaiting"
  /\ approval[s].status # "absent" => Requirement(s) # "none"
  /\ approval[s].status = "approved" => Suffices(approval[s].level, s)

Fits(p, l) ==
  /\ l.cur <= run.cur
  /\ p \notin Outside => l.cur \in Steps
  /\ p \in {"asking", "requesting"} => Requirement(l.cur) # "none"
  /\ p \in PastGate /\ Requirement(l.cur) # "none" => approval[l.cur].status = "approved"
WorkerInv(w) == Fits(pc[w], local[w])

Holds(w, s) == pc[w] \in Claimed /\ local[w].cur = s
HolderInv(s) == s \in SideEffect =>
  /\ \A v, w \in Workers : Holds(v, s) /\ Holds(w, s) => v = w
  /\ step[s].status \in Waiting => \A w \in Workers : ~ Holds(w, s)

RunInv == run.status # "cleared" => (run.cur = N <=> run.status = "succeeded")

IInv ==
  /\ TypeOK
  /\ RunInv
  /\ \A s \in Steps : StepInv(s)
  /\ \A w \in Workers : WorkerInv(w)
  /\ \A s \in Steps : HolderInv(s)
  /\ DoubtIsReported

-----------------------------------------------------------------------------
(* Constants and copies of the run are of their types.                       *)
LEMMA ConstantTypes ==
  /\ NewStep \in StepType /\ NewStep.status = "pending" /\ NewStep.attempt = 1
  /\ NoApproval \in ApprovalType /\ NoApproval.status = "absent"
  /\ NoLocal \in LocalType /\ NoLocal.cur = 0
<1>1. N \in Nat \ {0} /\ 0 \in 0..N
  BY DefinitionAssumption
<1> QED
  BY <1>1 DEF NewStep, NoApproval, NoLocal, StepType, ApprovalType, LocalType, Levels

LEMMA LocalOfFacts ==
  ASSUME NEW r \in RunType
  PROVE  LocalOf(r) \in LocalType /\ LocalOf(r).cur = r.cur
BY DEF LocalOf, RunType, LocalType

(* The run's row moves to another status.                                    *)
LEMMA RunToFacts ==
  ASSUME run \in RunType, NEW status, RunTo(status),
         status \in Executable \cup Terminal \cup {"awaiting"}
  PROVE  run' \in RunType /\ run'.status = status /\ run'.cur = run.cur
<1>1. run' = [run EXCEPT !.status = status, !.version = run.version + 1]
  BY DEF RunTo
<1>2. run.version + 1 \in Nat /\ status \in NoRun \cup Executable \cup Terminal \cup {"awaiting"}
  BY DEF RunType
<1> QED
  BY <1>1, <1>2 DEF RunType

(* One step's row moves to another status.                                   *)
LEMMA StepToFacts ==
  ASSUME step \in [Steps -> StepType], NEW s \in Steps,
         NEW status \in {"pending", "awaiting", "running", "succeeded", "failed"},
         StepTo(s, status)
  PROVE  /\ step' \in [Steps -> StepType]
         /\ \A r \in Steps \ {s} : step'[r] = step[r]
         /\ step'[s].status = status /\ step'[s].attempt = step[s].attempt
BY DEF StepTo, StepType

LEMMA FailedFacts ==
  ASSUME NEW x \in StepType, NEW y, y = [x EXCEPT !.status = "failed", !.due = TRUE]
  PROVE  y \in StepType /\ y.status = "failed" /\ y.attempt = x.attempt
BY DEF StepType

LEMMA RependFacts ==
  ASSUME run \in RunType, step \in [Steps -> StepType], NEW s \in Steps,
         NEW due \in BOOLEAN, Repend(s, due)
  PROVE  /\ step' \in [Steps -> StepType]
         /\ \A r \in Steps \ {s} : step'[r] = step[r]
         /\ step'[s].status = "pending" /\ step'[s].attempt = step[s].attempt + 1
         /\ run' \in RunType /\ run'.status = "pending" /\ run'.cur = run.cur
<1>1. RunTo("pending") /\ "pending" \in Executable
  BY DEF Repend, Executable
<1>2. run' \in RunType /\ run'.status = "pending" /\ run'.cur = run.cur
  BY <1>1, RunToFacts
<1>3. /\ step' = [step EXCEPT ![s].status = "pending", ![s].attempt = @ + 1, ![s].due = due]
      /\ step[s] \in StepType
  BY DEF Repend
<1>4. \A r \in Steps \ {s} : step'[r] = step[r]
  BY <1>3
<1>5. step'[s] = [step[s] EXCEPT !.status = "pending", !.attempt = @ + 1, !.due = due]
  BY <1>3
<1>6. /\ step'[s] \in StepType
      /\ step'[s].status = "pending" /\ step'[s].attempt = step[s].attempt + 1
  BY <1>3, <1>5 DEF StepType
<1> QED
  BY <1>2, <1>3, <1>4, <1>6

(* A worker moves to a program counter and a copy of the run.                *)
LEMMA KeepFacts ==
  ASSUME pc \in [Workers -> PCs], local \in [Workers -> LocalType],
         NEW w \in Workers, NEW p \in PCs, NEW l \in LocalType, Keep(w, p, l)
  PROVE  /\ pc' \in [Workers -> PCs] /\ local' \in [Workers -> LocalType]
         /\ pc'[w] = p /\ local'[w] = l
         /\ \A v \in Workers \ {w} : pc'[v] = pc[v] /\ local'[v] = local[v]
BY DEF Keep, At

LEMMA AtFacts ==
  ASSUME pc \in [Workers -> PCs], local \in [Workers -> LocalType],
         NEW w \in Workers, NEW p \in PCs, At(w, p), local' = local
  PROVE  /\ pc' \in [Workers -> PCs] /\ local' \in [Workers -> LocalType]
         /\ pc'[w] = p /\ local'[w] = local[w]
         /\ \A v \in Workers \ {w} : pc'[v] = pc[v] /\ local'[v] = local[v]
BY DEF At

LEMMA LeaveFacts ==
  ASSUME pc \in [Workers -> PCs], local \in [Workers -> LocalType],
         NEW w \in Workers, Leave(w)
  PROVE  /\ pc' \in [Workers -> PCs] /\ local' \in [Workers -> LocalType]
         /\ pc'[w] = "idle" /\ local'[w] = NoLocal
         /\ \A v \in Workers \ {w} : pc'[v] = pc[v] /\ local'[v] = local[v]
<1>1. "idle" \in PCs /\ Keep(w, "idle", NoLocal)
  BY DEF PCs, Leave
<1> QED
  BY <1>1, ConstantTypes, KeepFacts

-----------------------------------------------------------------------------
(* What is not about the current step keeps what StepInv says of it.         *)
LEMMA OtherStep ==
  ASSUME NEW r \in Steps, StepInv(r), r # run.cur,
         step'[r] = step[r], approval'[r] = approval[r], claims'[r] = claims[r],
         r \in outputs' <=> r \in outputs, run'.cur = run.cur,
         run.status = "cleared" => run'.status = "cleared"
  PROVE  StepInv(r)'
BY DEF StepInv, Suffices

(* Rows that stay as they are keep it, whatever threads do.                  *)
LEMMA SameRows ==
  ASSUME RunInv, \A s \in Steps : StepInv(s), DoubtIsReported,
         UNCHANGED <<run, step, approval, outputs, notices>>,
         \A s \in Steps : claims'[s].count = claims[s].count
  PROVE  RunInv' /\ (\A s \in Steps : StepInv(s)') /\ DoubtIsReported'
<1>1. ASSUME NEW s \in Steps PROVE StepInv(s)'
  <2>1. StepInv(s) /\ claims'[s].count = claims[s].count
    OBVIOUS
  <2> QED
    BY <2>1 DEF StepInv, StatusOfCurrent, Suffices
<1>2. DoubtIsReported'
  <2> SUFFICES ASSUME run.status = "failed", run.cur \in Compensated, claims'[run.cur].count > 0
               PROVE  run.cur \in notices
    BY DEF DoubtIsReported
  <2>1. run.cur \in Steps
    BY DefinitionAssumption
  <2> QED
    BY <2>1 DEF DoubtIsReported
<1> QED
  BY <1>1, <1>2 DEF RunInv

(* The threads that do not move fit the rows they find later.                *)
LEMMA WorkersFit ==
  ASSUME \A v \in Workers : WorkerInv(v), run \in RunType, run' \in RunType,
         local \in [Workers -> LocalType],
         NEW w \in Workers, WorkerInv(w)', run.cur <= run'.cur,
         \A v \in Workers \ {w} : pc'[v] = pc[v] /\ local'[v] = local[v],
         \A s \in Steps : approval[s].status = "approved" => approval'[s].status = "approved"
  PROVE  \A v \in Workers : WorkerInv(v)'
<1>1. ASSUME NEW v \in Workers \ {w} PROVE WorkerInv(v)'
  <2>1. /\ pc'[v] = pc[v] /\ local'[v] = local[v] /\ Fits(pc[v], local[v])
        /\ local[v].cur \in Int /\ run.cur \in Int /\ run'.cur \in Int
    BY DEF WorkerInv, LocalType, RunType
  <2> QED
    BY <2>1 DEF WorkerInv, Fits, PastGate, Claimed, Outside
<1> QED
  BY <1>1

(* Nobody becomes a holder and no step begins to wait.                       *)
LEMMA NoNewHolder ==
  ASSUME \A s \in Steps : HolderInv(s),
         \A s \in Steps, v \in Workers : Holds(v, s)' => Holds(v, s),
         \A s \in Steps : step'[s].status \in Waiting => step[s].status \in Waiting
  PROVE  \A s \in Steps : HolderInv(s)'
BY DEF HolderInv

(* A worker that moves to where it reports nothing is no new holder.         *)
LEMMA HoldersKept ==
  ASSUME NEW w \in Workers, pc'[w] \notin Claimed \/ (pc[w] \in Claimed /\ local'[w].cur = local[w].cur),
         \A v \in Workers \ {w} : pc'[v] = pc[v] /\ local'[v] = local[v]
  PROVE  \A s \in Steps, v \in Workers : Holds(v, s)' => Holds(v, s)
BY DEF Holds

-----------------------------------------------------------------------------
(* A thread moves and no row does.                                           *)
LEMMA ThreadMoves ==
  ASSUME IInv, NEW w \in Workers,
         UNCHANGED <<run, step, approval, outputs, notices, claims>>,
         pc' \in [Workers -> PCs], local' \in [Workers -> LocalType],
         \A v \in Workers \ {w} : pc'[v] = pc[v] /\ local'[v] = local[v],
         pc'[w] \notin Claimed \/ (pc[w] \in Claimed /\ local'[w].cur = local[w].cur),
         WorkerInv(w)'
  PROVE  IInv'
<1>1. TypeOK'
  BY DEF IInv, TypeOK
<1>2. RunInv' /\ (\A s \in Steps : StepInv(s)') /\ DoubtIsReported'
  BY SameRows DEF IInv
<1>3. run \in RunType /\ run' \in RunType /\ run.cur <= run'.cur
  <2>1. run \in RunType /\ run' = run
    BY DEF IInv, TypeOK
  <2>2. run.cur \in Int
    BY <2>1 DEF RunType
  <2> QED
    BY <2>1, <2>2
<1>4. \A v \in Workers : WorkerInv(v)'
  BY <1>3, WorkersFit DEF IInv, TypeOK
<1>5. \A s \in Steps : HolderInv(s)'
  BY HoldersKept, NoNewHolder DEF IInv
<1> QED
  BY <1>1, <1>2, <1>4, <1>5 DEF IInv

(* The current step, its approval and the run move; a thread moves with them.*)
LEMMA CurrentMoves ==
  ASSUME IInv, NEW s \in Steps, s = run.cur, run.status # "cleared",
         run' \in RunType, run'.cur = s, run'.status \notin {"cleared", "succeeded"},
         step' \in [Steps -> StepType], \A r \in Steps \ {s} : step'[r] = step[r],
         approval' \in [Steps -> ApprovalType],
         \A r \in Steps \ {s} : approval'[r] = approval[r],
         approval[s].status = "approved" => approval'[s].status = "approved",
         claims' \in [Steps -> ClaimType],
         \A r \in Steps \ {s} : claims'[r] = claims[r],
         outputs' = outputs, notices' \subseteq Compensated, StepInv(s)',
         DoubtIsReported', \A r \in Steps : HolderInv(r)',
         NEW w \in Workers, WorkerInv(w)',
         pc' \in [Workers -> PCs], local' \in [Workers -> LocalType],
         \A v \in Workers \ {w} : pc'[v] = pc[v] /\ local'[v] = local[v]
  PROVE  IInv'
<1>1. TypeOK'
  BY DEF IInv, TypeOK
<1>2. run.cur \in Int /\ N \in Int /\ s # N /\ run'.cur # N
  BY DefinitionAssumption DEF Steps
<1>3. RunInv'
  BY <1>2 DEF RunInv
<1>4. ASSUME NEW r \in Steps \ {s} PROVE StepInv(r)'
  BY <1>4, OtherStep DEF IInv
<1>5. \A r \in Steps : approval[r].status = "approved" => approval'[r].status = "approved"
  OBVIOUS
<1>6. run \in RunType /\ run.cur <= run'.cur
  BY <1>2 DEF IInv, TypeOK
<1>7. \A v \in Workers : WorkerInv(v)'
  BY <1>5, <1>6, WorkersFit DEF IInv, TypeOK
<1> QED
  BY <1>1, <1>3, <1>4, <1>7 DEF IInv

(* A step a thread may still write is the current one.                       *)
LEMMA WritesCurrent ==
  ASSUME IInv, NEW w \in Workers, pc[w] \notin Outside, run.status # "cleared",
         step[local[w].cur].status # "succeeded",
         step[local[w].cur].status = "pending" => run.status \in Executable,
         run.status \in Executable \cup {"awaiting"}
  PROVE  local[w].cur \in Steps /\ local[w].cur = run.cur
<1>1. local[w].cur \in Steps /\ local[w].cur <= run.cur /\ run.cur \in Int
  BY DEF IInv, WorkerInv, Fits, TypeOK, RunType
<1>2. StepInv(local[w].cur)
  BY <1>1 DEF IInv
<1> QED
  BY <1>1, <1>2 DEF StepInv, Steps

(* A run that goes on is at one of its steps, which is where the run says.   *)
LEMMA AtStep ==
  ASSUME IInv, run.status \notin Terminal \cup NoRun
  PROVE  /\ run.cur \in Steps /\ StepInv(run.cur)
         /\ step[run.cur].status = run.status
         /\ run.status \in {"pending", "running", "awaiting"}
<1>1. run \in RunType /\ RunInv
  BY DEF IInv, TypeOK
<1>2. run.cur \in 0..N /\ run.cur # N /\ N \in Nat
  BY <1>1, DefinitionAssumption DEF RunType, RunInv, Terminal, NoRun
<1>3. run.cur \in Steps
  BY <1>2 DEF Steps
<1>4. StepInv(run.cur)
  BY <1>3 DEF IInv
<1>5. run.status \in {"pending", "running", "awaiting"}
  BY <1>1 DEF RunType, Terminal, NoRun, Executable
<1> QED
  BY <1>3, <1>4, <1>5 DEF StepInv, StatusOfCurrent

-----------------------------------------------------------------------------
(* Initially.                                                                *)
LEMMA InitInv == Init => IInv
<1> SUFFICES ASSUME Init PROVE IInv
  OBVIOUS
<1>1. N \in Nat \ {0} /\ 0 \in 0..N /\ 0 \in Nat
  BY DefinitionAssumption
<1>2. TypeOK
  BY <1>1, ConstantTypes DEF Init, TypeOK, RunType, NoRun, PCs, ClaimType
<1>3. RunInv
  BY <1>1 DEF Init, RunInv
<1>4. ASSUME NEW s \in Steps PROVE StepInv(s)
  <2>1. s \in Nat /\ MaxRetries[s] \in Nat
    BY <1>4, DefinitionAssumption DEF Steps
  <2> QED
    BY <1>4, <2>1, ConstantTypes DEF Init, StepInv, StatusOfCurrent, Suffices
<1>5. \A w \in Workers : WorkerInv(w)
  BY ConstantTypes DEF Init, WorkerInv, Fits, Outside, PastGate, Claimed
<1>6. \A s \in Steps : HolderInv(s)
  BY DEF Init, HolderInv, Holds, Claimed
<1>7. DoubtIsReported
  BY DEF Init, DoubtIsReported
<1> QED
  BY <1>2, <1>3, <1>4, <1>5, <1>6, <1>7 DEF IInv

(* Reading.                                                                  *)
LEMMA ReadRunInv ==
  ASSUME IInv, NEW w \in Workers, ReadRun(w)
  PROVE  IInv'
<1>1. /\ pc \in [Workers -> PCs] /\ local \in [Workers -> LocalType] /\ run \in RunType
      /\ UNCHANGED <<run, step, approval, outputs, notices, claims>>
  BY DEF IInv, TypeOK, ReadRun
<1>2. LocalOf(run) \in LocalType /\ LocalOf(run).cur = run.cur /\ run.cur \in 0..N
  BY <1>1, LocalOfFacts DEF RunType
<1>3. CASE Leave(w)
  BY <1>1, <1>2, <1>3, LeaveFacts, ConstantTypes, ThreadMoves
     DEF WorkerInv, Fits, Outside, PastGate, Claimed
<1>4. ASSUME run.status \notin Terminal \cup NoRun,
             NEW p \in {"recovering", "checking", "refusing"}, Keep(w, p, LocalOf(run))
      PROVE  IInv'
  <2>1. p \in PCs /\ p \notin PastGate /\ p \notin {"asking", "requesting"}
    BY DEF PCs, PastGate, Claimed
  <2>2. /\ pc' \in [Workers -> PCs] /\ local' \in [Workers -> LocalType]
        /\ pc'[w] = p /\ local'[w] = LocalOf(run)
        /\ \A v \in Workers \ {w} : pc'[v] = pc[v] /\ local'[v] = local[v]
    BY <1>1, <1>2, <1>4, <2>1, KeepFacts
  <2>3. run.cur \in Steps
    BY <1>4, AtStep
  <2>4. WorkerInv(w)'
    BY <1>1, <1>2, <2>1, <2>2, <2>3 DEF WorkerInv, Fits
  <2> QED
    BY <1>1, <2>1, <2>2, <2>4, ThreadMoves DEF PastGate
<1> QED
  BY <1>3, <1>4 DEF ReadRun

(* The worker leaves, and no row moves.                                      *)
LEMMA LeavesOnly ==
  ASSUME IInv, NEW w \in Workers, Leave(w),
         UNCHANGED <<run, step, approval, outputs, notices, claims>>
  PROVE  IInv'
<1>1. /\ pc \in [Workers -> PCs] /\ local \in [Workers -> LocalType] /\ run \in RunType
  BY DEF IInv, TypeOK
<1>2. run.cur \in 0..N
  BY <1>1 DEF RunType
<1> QED
  BY <1>1, <1>2, LeaveFacts, ConstantTypes, ThreadMoves
     DEF WorkerInv, Fits, Outside, PastGate, Claimed

(* The worker goes to a place its step is fit for, and no row moves.         *)
LEMMA GoesOn ==
  ASSUME IInv, NEW w \in Workers, NEW p \in PCs, At(w, p), local' = local,
         UNCHANGED <<run, step, approval, outputs, notices, claims>>,
         pc[w] \notin Outside,
         p \notin Claimed \/ pc[w] \in Claimed,
         p \in {"asking", "requesting"} => Requirement(local[w].cur) # "none",
         p \in PastGate /\ Requirement(local[w].cur) # "none" =>
           approval[local[w].cur].status = "approved"
  PROVE  IInv'
<1>1. pc \in [Workers -> PCs] /\ local \in [Workers -> LocalType] /\ WorkerInv(w)
  BY DEF IInv, TypeOK
<1>2. /\ pc' \in [Workers -> PCs] /\ local' \in [Workers -> LocalType]
      /\ pc'[w] = p /\ local'[w] = local[w]
      /\ \A v \in Workers \ {w} : pc'[v] = pc[v] /\ local'[v] = local[v]
  BY <1>1, AtFacts
<1>3. WorkerInv(w)'
  BY <1>1, <1>2 DEF WorkerInv, Fits
<1> QED
  BY <1>2, <1>3, ThreadMoves

(* Where a worker is inside the engine.                                      *)
LEMMA Places ==
  /\ {"recovering", "checking", "unresolved", "asking", "requesting", "claiming",
      "executing", "returned", "raised", "refusing"} \subseteq PCs \ Outside
  /\ PastGate = {"claiming", "executing", "returned", "raised"}
  /\ Claimed = {"executing", "returned", "raised"}
  /\ Outside \subseteq PCs /\ Outside \cap PastGate = {}
BY DEF PCs, Outside, PastGate, Claimed

(* The top of the loop: a step that needs nobody's approval is claimed.      *)
LEMMA CheckStepInv ==
  ASSUME IInv, NEW w \in Workers, CheckStep(w)
  PROVE  IInv'
<1> DEFINE s == local[w].cur
<1>1. /\ UNCHANGED <<run, step, approval, outputs, notices, claims>>
      /\ pc[w] = "checking" /\ pc[w] \notin Outside
  BY Places DEF CheckStep
<1>2. CASE Leave(w)
  BY <1>1, <1>2, LeavesOnly
<1>3. CASE s \in Unresolvable /\ At(w, "unresolved") /\ local' = local
  BY <1>1, <1>3, Places, GoesOn
<1>4. CASE Requirement(s) # "none" /\ At(w, "asking") /\ local' = local
  BY <1>1, <1>4, Places, GoesOn
<1>5. CASE Requirement(s) = "none" /\ At(w, "claiming") /\ local' = local
  BY <1>1, <1>5, Places, GoesOn
<1> QED
  BY <1>2, <1>3, <1>4, <1>5 DEF CheckStep

LEMMA CheckApprovalInv ==
  ASSUME IInv, NEW w \in Workers, CheckApproval(w)
  PROVE  IInv'
<1> DEFINE s == local[w].cur
<1>1. /\ UNCHANGED <<run, step, approval, outputs, notices, claims>>
      /\ pc[w] = "asking" /\ pc[w] \notin Outside
  BY Places DEF CheckApproval
<1>2. Requirement(s) # "none"
  BY <1>1 DEF IInv, WorkerInv, Fits
<1>3. CASE Leave(w)
  BY <1>1, <1>3, LeavesOnly
<1>4. CASE At(w, "requesting") /\ local' = local
  BY <1>1, <1>2, <1>4, Places, GoesOn
<1>5. CASE approval[s].status = "approved" /\ At(w, "claiming") /\ local' = local
  BY <1>1, <1>2, <1>5, Places, GoesOn
<1> QED
  BY <1>3, <1>4, <1>5 DEF CheckApproval

(* The skill returns or raises.                                              *)
LEMMA ExecuteInv ==
  ASSUME IInv, NEW w \in Workers, Execute(w)
  PROVE  IInv'
<1>1. /\ UNCHANGED <<run, step, approval, outputs, notices, claims>>
      /\ pc[w] = "executing" /\ pc[w] \in PastGate /\ pc[w] \in Claimed /\ pc[w] \notin Outside
  BY Places DEF Execute
<1>2. /\ pc \in [Workers -> PCs] /\ local \in [Workers -> LocalType] /\ run \in RunType
      /\ WorkerInv(w)
  BY DEF IInv, TypeOK
<1>3. CASE At(w, "returned") /\ local' = local
  <2>1. Requirement(local[w].cur) # "none" => approval[local[w].cur].status = "approved"
    BY <1>1, <1>2 DEF WorkerInv, Fits
  <2> QED
    BY <1>1, <1>3, <2>1, Places, GoesOn
<1>4. ASSUME NEW class \in Classes, Keep(w, "raised", [local[w] EXCEPT !.error = class])
      PROVE  IInv'
  <2>1. PICK l : l = [local[w] EXCEPT !.error = class]
    OBVIOUS
  <2>2. l \in LocalType /\ l.cur = local[w].cur
    BY <1>2, <2>1 DEF LocalType
  <2>3. /\ pc' \in [Workers -> PCs] /\ local' \in [Workers -> LocalType]
        /\ pc'[w] = "raised" /\ local'[w] = l
        /\ \A v \in Workers \ {w} : pc'[v] = pc[v] /\ local'[v] = local[v]
    BY <1>2, <1>4, <2>1, <2>2, Places, KeepFacts
  <2>4. WorkerInv(w)'
    BY <1>1, <1>2, <2>2, <2>3 DEF WorkerInv, Fits
  <2> QED
    BY <1>1, <2>2, <2>3, <2>4, ThreadMoves
<1> QED
  BY <1>3, <1>4 DEF Execute

(* cancel reads the run.                                                     *)
LEMMA ReadToCancelInv ==
  ASSUME IInv, NEW w \in Workers, ReadToCancel(w)
  PROVE  IInv'
<1>1. /\ pc \in [Workers -> PCs] /\ local \in [Workers -> LocalType] /\ run \in RunType
      /\ UNCHANGED <<run, step, approval, outputs, notices, claims>>
      /\ Keep(w, "cancelling", LocalOf(run))
  BY DEF IInv, TypeOK, ReadToCancel
<1>2. LocalOf(run) \in LocalType /\ LocalOf(run).cur = run.cur /\ run.cur \in 0..N
  BY <1>1, LocalOfFacts DEF RunType
<1>3. "cancelling" \in PCs /\ "cancelling" \in Outside /\ "cancelling" \notin PastGate
  BY DEF PCs, Outside, PastGate, Claimed
<1>4. /\ pc' \in [Workers -> PCs] /\ local' \in [Workers -> LocalType]
      /\ pc'[w] = "cancelling" /\ local'[w] = LocalOf(run)
      /\ \A v \in Workers \ {w} : pc'[v] = pc[v] /\ local'[v] = local[v]
  BY <1>1, <1>2, <1>3, KeepFacts
<1>5. WorkerInv(w)'
  BY <1>1, <1>2, <1>3, <1>4 DEF WorkerInv, Fits
<1> QED
  BY <1>1, <1>3, <1>4, <1>5, ThreadMoves DEF PastGate

(* The first call of start opens the run.                                    *)
LEMMA StartInv ==
  ASSUME IInv, NEW w \in Workers, Start(w)
  PROVE  IInv'
<1>1. /\ pc \in [Workers -> PCs] /\ local \in [Workers -> LocalType] /\ run \in RunType
      /\ UNCHANGED <<step, approval, outputs, notices, local, claims>> /\ At(w, "reading")
      /\ WorkerInv(w) /\ pc[w] = "idle" /\ TypeOK
  BY DEF IInv, TypeOK, Start
<1>2. "reading" \in PCs /\ "reading" \in Outside /\ "reading" \notin PastGate
  BY DEF PCs, Outside, PastGate, Claimed
<1>3. /\ pc' \in [Workers -> PCs] /\ local' \in [Workers -> LocalType]
      /\ pc'[w] = "reading" /\ local'[w] = local[w]
      /\ \A v \in Workers \ {w} : pc'[v] = pc[v] /\ local'[v] = local[v]
  BY <1>1, <1>2, AtFacts
<1>4. /\ run' \in RunType /\ run'.cur = run.cur
      /\ run'.status = (IF run.status = "absent" THEN "pending" ELSE run.status)
  BY <1>1 DEF Start, RunType, Executable
<1>5. WorkerInv(w)'
  BY <1>1, <1>2, <1>3, <1>4 DEF WorkerInv, Fits
<1>6. TypeOK'
  BY <1>1, <1>3, <1>4 DEF TypeOK
<1>7. RunInv' /\ DoubtIsReported'
  BY <1>1, <1>4 DEF IInv, RunInv, DoubtIsReported
<1>8. ASSUME NEW s \in Steps PROVE StepInv(s)'
  BY <1>1, <1>4 DEF IInv, StepInv, StatusOfCurrent, Suffices
<1>9. \A v \in Workers : WorkerInv(v)'
  <2>1. run.cur <= run'.cur
    BY <1>1, <1>4 DEF RunType
  <2> QED
    BY <1>1, <1>3, <1>4, <1>5, <2>1, WorkersFit DEF IInv
<1>10. \A s \in Steps : HolderInv(s)'
  BY <1>1, <1>2, <1>3, HoldersKept, NoNewHolder DEF IInv, PastGate
<1> QED
  BY <1>6, <1>7, <1>8, <1>9, <1>10 DEF IInv

-----------------------------------------------------------------------------
(* Writing.                                                                  *)

(* A worker that leaves fits any later run and makes no holder.              *)
LEMMA LeaverFits ==
  ASSUME IInv, NEW w \in Workers, Leave(w), run' \in RunType
  PROVE  /\ pc' \in [Workers -> PCs] /\ local' \in [Workers -> LocalType]
         /\ pc'[w] \notin Claimed /\ WorkerInv(w)'
         /\ \A v \in Workers \ {w} : pc'[v] = pc[v] /\ local'[v] = local[v]
<1>1. pc \in [Workers -> PCs] /\ local \in [Workers -> LocalType] /\ run'.cur \in 0..N
  BY DEF IInv, TypeOK, RunType
<1> QED
  BY <1>1, LeaveFacts, ConstantTypes DEF WorkerInv, Fits, Outside, PastGate, Claimed

(* One step moves, to a place where it does not begin to wait.               *)
LEMMA NoWaitBegins ==
  ASSUME IInv, NEW s \in Steps, \A r \in Steps \ {s} : step'[r] = step[r],
         step'[s].status \in Waiting => step[s].status \in Waiting,
         NEW w \in Workers, pc'[w] \notin Claimed,
         \A v \in Workers \ {w} : pc'[v] = pc[v] /\ local'[v] = local[v]
  PROVE  \A r \in Steps : HolderInv(r)'
<1>1. \A r \in Steps, v \in Workers : Holds(v, r)' => Holds(v, r)
  BY HoldersKept
<1> QED
  BY <1>1, NoNewHolder DEF IInv

(* fail_step, by a worker that leaves.                                       *)
LEMMA FailStepInv ==
  ASSUME IInv, NEW w \in Workers, pc[w] \notin Outside, FailStep(local[w].cur), Leave(w),
         UNCHANGED <<approval, outputs, claims>>
  PROVE  IInv'
<1>0. PICK s : s = local[w].cur
  OBVIOUS
<1>1. CASE ~ Failable(s)
  BY <1>0, <1>1, LeavesOnly DEF FailStep
<1>2. CASE Failable(s)
  <2>1. TypeOK /\ step[s].status # "succeeded" /\ run.status \in Executable /\ run.status # "cleared"
    BY <1>2 DEF Failable, Executable, IInv
  <2>2. s \in Steps /\ s = run.cur
    BY <1>0, <2>1, WritesCurrent
  <2>3. /\ run' \in RunType /\ run'.status = "failed" /\ run'.cur = s
    BY <1>0, <1>2, <2>1, <2>2, RunToFacts DEF FailStep, TypeOK, Terminal
  <2>4. PICK x : x = [step[s] EXCEPT !.status = "failed", !.due = TRUE]
    OBVIOUS
  <2>5. step' = [step EXCEPT ![s] = x]
    BY <1>0, <1>2, <2>1, <2>2, <2>4 DEF FailStep, TypeOK
  <2>6. x \in StepType /\ x.status = "failed" /\ x.attempt = step[s].attempt
    BY <2>1, <2>2, <2>4, FailedFacts DEF TypeOK
  <2>7. /\ step' \in [Steps -> StepType] /\ \A r \in Steps \ {s} : step'[r] = step[r]
        /\ step'[s].status = "failed" /\ step'[s].attempt = step[s].attempt
    BY <2>1, <2>2, <2>5, <2>6 DEF TypeOK
  <2>8. notices' \subseteq Compensated /\ (s \in Compensated => s \in notices')
    BY <1>0, <1>2, <2>1 DEF FailStep, Notify, TypeOK
  <2>9. StepInv(s) /\ step[s].status \in Executable
    BY <1>2, <2>2 DEF IInv, Failable
  <2>10. s \in Nat /\ StepInv(s)'
    BY <2>2, <2>3, <2>7, <2>9, <2>1 DEF StepInv, StatusOfCurrent, Suffices, Waiting, Executable, Steps
  <2>11. DoubtIsReported'
    BY <2>3, <2>8 DEF DoubtIsReported
  <2>12. /\ pc' \in [Workers -> PCs] /\ local' \in [Workers -> LocalType]
         /\ pc'[w] \notin Claimed /\ WorkerInv(w)'
         /\ \A v \in Workers \ {w} : pc'[v] = pc[v] /\ local'[v] = local[v]
    BY <2>3, LeaverFits
  <2>13. \A r \in Steps : HolderInv(r)'
    BY <2>2, <2>7, <2>12, NoWaitBegins DEF Waiting
  <2> QED
    BY <2>1, <2>2, <2>3, <2>7, <2>8, <2>10, <2>11, <2>12, <2>13, CurrentMoves DEF TypeOK
<1> QED
  BY <1>1, <1>2

LEMMA RefuseInv ==
  ASSUME IInv, NEW w \in Workers, Refuse(w)
  PROVE  IInv'
BY Places, FailStepInv DEF Refuse

LEMMA GiveUpInv ==
  ASSUME IInv, NEW w \in Workers, GiveUp(w)
  PROVE  IInv'
BY Places, FailStepInv DEF GiveUp

(* request_approval: the step had no approval and was not handed out yet.    *)
LEMMA RequestApprovalInv ==
  ASSUME IInv, NEW w \in Workers, RequestApproval(w)
  PROVE  IInv'
<1>0. PICK s : s = local[w].cur
  OBVIOUS
<1>1. pc[w] = "requesting" /\ Leave(w) /\ UNCHANGED <<outputs, notices, claims>> /\ pc[w] \notin Outside
  BY Places DEF RequestApproval
<1>2. CASE UNCHANGED <<run, step, approval>>
  BY <1>1, <1>2, LeavesOnly
<1>3. CASE /\ approval[s].status = "absent" /\ Failable(s) /\ step[s].status = "pending"
           /\ approval' = [approval EXCEPT ![s].status = "pending"]
           /\ StepTo(s, "awaiting") /\ RunTo("awaiting")
  <2>1. TypeOK /\ run.status \in Executable /\ run.status # "cleared"
    BY <1>3 DEF Failable, Executable, IInv
  <2>2. s \in Steps /\ s = run.cur
    BY <1>0, <1>1, <1>3, <2>1, WritesCurrent
  <2>3. run' \in RunType /\ run'.status = "awaiting" /\ run'.cur = s
    BY <1>3, <2>1, <2>2, RunToFacts DEF TypeOK
  <2>4. /\ step' \in [Steps -> StepType] /\ \A r \in Steps \ {s} : step'[r] = step[r]
        /\ step'[s].status = "awaiting" /\ step'[s].attempt = step[s].attempt
    BY <1>3, <2>1, <2>2, StepToFacts DEF TypeOK
  <2>5. /\ approval' \in [Steps -> ApprovalType]
        /\ \A r \in Steps \ {s} : approval'[r] = approval[r]
        /\ approval'[s].status = "pending"
    BY <1>3, <2>1, <2>2 DEF TypeOK, ApprovalType
  <2>6. Requirement(s) # "none" /\ StepInv(s) /\ claims[s].count \in Nat
    BY <1>0, <1>1, <2>1, <2>2 DEF IInv, WorkerInv, Fits, TypeOK, ClaimType
  <2>7. s \in Nat /\ StepInv(s)'
    BY <1>1, <1>3, <2>1, <2>2, <2>3, <2>4, <2>5, <2>6
       DEF StepInv, StatusOfCurrent, Suffices, Waiting, Executable, Steps
  <2>8. DoubtIsReported'
    BY <2>3 DEF DoubtIsReported
  <2>9. /\ pc' \in [Workers -> PCs] /\ local' \in [Workers -> LocalType]
        /\ pc'[w] \notin Claimed /\ WorkerInv(w)'
        /\ \A v \in Workers \ {w} : pc'[v] = pc[v] /\ local'[v] = local[v]
    BY <1>1, <2>3, LeaverFits
  <2>10. \A r \in Steps : HolderInv(r)'
    BY <1>3, <2>2, <2>4, <2>9, NoWaitBegins DEF Waiting
  <2> QED
    BY <1>1, <1>3, <2>1, <2>2, <2>3, <2>4, <2>5, <2>7, <2>8, <2>9, <2>10, CurrentMoves DEF TypeOK
<1> QED
  BY <1>0, <1>2, <1>3 DEF RequestApproval

(* The step goes back to pending: nobody holds it, so a side effect is not   *)
(* pending while a thread can still report it.                               *)
LEMMA RependInv ==
  ASSUME IInv, NEW s \in Steps, s = run.cur, run.status = "running", step[s].status = "running",
         NEW class, MayRetry(s, step[s].attempt, class), NEW due \in BOOLEAN, Repend(s, due),
         UNCHANGED <<approval, outputs, notices, claims>>,
         NEW w \in Workers, WorkerInv(w)', pc'[w] \notin Claimed,
         pc' \in [Workers -> PCs], local' \in [Workers -> LocalType],
         \A v \in Workers \ {w} : pc'[v] = pc[v] /\ local'[v] = local[v],
         s \in SideEffect => Holds(w, s)
  PROVE  IInv'
<1>1. TypeOK /\ StepInv(s) /\ claims[s].count \in Nat /\ step[s].attempt \in Nat /\ MaxRetries[s] \in Nat
  BY DefinitionAssumption DEF IInv, TypeOK, StepType, ClaimType
<1>2. /\ step' \in [Steps -> StepType] /\ \A r \in Steps \ {s} : step'[r] = step[r]
      /\ step'[s].status = "pending" /\ step'[s].attempt = step[s].attempt + 1
      /\ run' \in RunType /\ run'.status = "pending" /\ run'.cur = run.cur
  BY <1>1, RependFacts DEF TypeOK
<1>3. s \in Int
  BY DEF Steps
<1>4. step[s].attempt <= MaxRetries[s]
  BY DEF MayRetry
<1>5. StepInv(s)'
  BY <1>1, <1>2, <1>3, <1>4 DEF StepInv, StatusOfCurrent, Suffices, Waiting
<1>6. DoubtIsReported'
  BY <1>2 DEF DoubtIsReported
<1>7. ASSUME NEW r \in Steps PROVE HolderInv(r)'
  <2>1. \A v \in Workers : Holds(v, r)' => Holds(v, r)
    BY HoldersKept
  <2>2. HolderInv(r) /\ HolderInv(s)
    BY DEF IInv
  <2>3. CASE r # s
    BY <1>2, <2>1, <2>2, <2>3 DEF HolderInv
  <2>4. CASE r = s
    <3>1. ~ Holds(w, s)'
      BY DEF Holds
    <3> QED
      BY <2>1, <2>2, <2>4, <3>1 DEF HolderInv
  <2> QED
    BY <2>3, <2>4
<1> QED
  BY <1>1, <1>2, <1>5, <1>6, <1>7, CurrentMoves DEF TypeOK

(* A worker goes on with a fresh copy of the run.                            *)
LEMMA ReaderFits ==
  ASSUME IInv, NEW w \in Workers, run' \in RunType, run'.cur \in Steps,
         NEW p \in {"checking", "cancelling"}, Keep(w, p, LocalOf(run'))
  PROVE  /\ pc' \in [Workers -> PCs] /\ local' \in [Workers -> LocalType]
         /\ pc'[w] \notin Claimed /\ WorkerInv(w)'
         /\ \A v \in Workers \ {w} : pc'[v] = pc[v] /\ local'[v] = local[v]
<1>1. PICK l : l = LocalOf(run')
  OBVIOUS
<1>2. l \in LocalType /\ l.cur = run'.cur
  BY <1>1, LocalOfFacts
<1>3. p \in PCs /\ p \notin PastGate /\ p \notin {"asking", "requesting"} /\ p \notin Claimed
  BY DEF PCs, PastGate, Claimed
<1>4. /\ pc' \in [Workers -> PCs] /\ local' \in [Workers -> LocalType]
      /\ pc'[w] = p /\ local'[w] = l
      /\ \A v \in Workers \ {w} : pc'[v] = pc[v] /\ local'[v] = local[v]
  BY <1>1, <1>2, <1>3, KeepFacts DEF IInv, TypeOK
<1>5. l.cur <= run'.cur
  BY <1>2 DEF RunType
<1> QED
  BY <1>2, <1>3, <1>4, <1>5 DEF WorkerInv, Fits

(* recover_stale_run.                                                        *)
LEMMA RecoverInv ==
  ASSUME IInv, NEW w \in Workers, Recover(w)
  PROVE  IInv'
<1>0. PICK s : s = run.cur
  OBVIOUS
<1>1. TypeOK /\ UNCHANGED <<approval, outputs, claims>>
  BY DEF Recover, IInv
<1>2. CASE Leave(w) /\ UNCHANGED <<run, step, notices>>
  BY <1>1, <1>2, LeavesOnly
<1>3. ASSUME LeaseLost
      PROVE  s \in Steps /\ run.status = "running" /\ step[s].status = "running" /\ StepInv(s)
  BY <1>0, <1>3, AtStep DEF LeaseLost, Terminal, NoRun
<1>4. CASE /\ LeaseLost /\ Recoverable(w, s) /\ Repend(s, TRUE)
           /\ Keep(w, "checking", LocalOf(run')) /\ UNCHANGED notices
  <2>1. run' \in RunType /\ run'.cur = run.cur
    BY <1>1, <1>3, <1>4, RependFacts DEF TypeOK
  <2>2. /\ pc' \in [Workers -> PCs] /\ local' \in [Workers -> LocalType]
        /\ pc'[w] \notin Claimed /\ WorkerInv(w)'
        /\ \A v \in Workers \ {w} : pc'[v] = pc[v] /\ local'[v] = local[v]
    BY <1>0, <1>3, <1>4, <2>1, ReaderFits
  <2>3. MayRetry(s, step[s].attempt, "timeout") /\ s \notin SideEffect
    BY <1>4 DEF Recoverable
  <2> QED
    BY <1>0, <1>1, <1>3, <1>4, <2>2, <2>3, RependInv
<1>5. CASE LeaseLost /\ StepTo(s, "failed") /\ RunTo("failed") /\ Notify(s) /\ Leave(w)
  <2>1. run' \in RunType /\ run'.status = "failed" /\ run'.cur = s
    BY <1>0, <1>1, <1>5, RunToFacts DEF TypeOK, Terminal
  <2>2. /\ step' \in [Steps -> StepType] /\ \A r \in Steps \ {s} : step'[r] = step[r]
        /\ step'[s].status = "failed" /\ step'[s].attempt = step[s].attempt
    BY <1>1, <1>3, <1>5, StepToFacts DEF TypeOK
  <2>3. notices' \subseteq Compensated /\ (s \in Compensated => s \in notices')
    BY <1>1, <1>5 DEF Notify, TypeOK
  <2>4. s \in Int /\ StepInv(s)'
    BY <1>0, <1>1, <1>3, <1>5, <2>1, <2>2 DEF StepInv, StatusOfCurrent, Suffices, Waiting, Steps
  <2>5. DoubtIsReported'
    BY <2>1, <2>3 DEF DoubtIsReported
  <2>6. /\ pc' \in [Workers -> PCs] /\ local' \in [Workers -> LocalType]
        /\ pc'[w] \notin Claimed /\ WorkerInv(w)'
        /\ \A v \in Workers \ {w} : pc'[v] = pc[v] /\ local'[v] = local[v]
    BY <1>5, <2>1, LeaverFits
  <2>7. \A r \in Steps : HolderInv(r)'
    BY <1>3, <1>5, <2>2, <2>6, NoWaitBegins DEF Waiting
  <2> QED
    BY <1>0, <1>1, <1>3, <1>5, <2>1, <2>2, <2>3, <2>4, <2>5, <2>6, <2>7, CurrentMoves DEF TypeOK
<1> QED
  BY <1>0, <1>2, <1>4, <1>5 DEF Recover

(* claim_step: a waiting step has no holder, the claimer becomes the one.    *)
LEMMA ClaimStepInv ==
  ASSUME IInv, NEW w \in Workers, ClaimStep(w)
  PROVE  IInv'
<1>0. PICK s : s = local[w].cur
  OBVIOUS
<1>1. /\ TypeOK /\ UNCHANGED <<approval, outputs, notices>> /\ WorkerInv(w)
      /\ pc[w] = "claiming" /\ pc[w] \notin Outside /\ pc[w] \in PastGate
  BY Places DEF ClaimStep, IInv
<1>2. CASE Leave(w) /\ UNCHANGED <<run, step, claims>>
  BY <1>1, <1>2, LeavesOnly
<1>3. CASE /\ Claimable(s)
           /\ step' = [step EXCEPT ![s].status = "running", ![s].due = TRUE, ![s].stale = FALSE]
           /\ RunTo("running")
           /\ Keep(w, "executing", [LocalOf(run') EXCEPT !.attempt = step[s].attempt])
           /\ claims' = [claims EXCEPT ![s] = [count |-> @.count + 1, last |-> {w}, lost |-> FALSE]]
  <2>1. /\ s \in Steps /\ s = run.cur /\ s \in Int /\ run.status # "cleared"
        /\ step[s].status = "pending" /\ StepInv(s)
    BY <1>0, <1>1, <1>3 DEF Claimable, IInv, WorkerInv, Fits, Executable, Steps
  <2>2. run' \in RunType /\ run'.status = "running" /\ run'.cur = s
    BY <1>1, <1>3, <2>1, RunToFacts DEF TypeOK, Executable
  <2>3. /\ step' \in [Steps -> StepType] /\ \A r \in Steps \ {s} : step'[r] = step[r]
        /\ step'[s].status = "running" /\ step'[s].attempt = step[s].attempt
    <3>1. PICK x : x = [step[s] EXCEPT !.status = "running", !.due = TRUE, !.stale = FALSE]
      OBVIOUS
    <3>2. step[s] \in StepType /\ step \in [Steps -> StepType]
      BY <1>1, <2>1 DEF TypeOK
    <3>3. step' = [step EXCEPT ![s] = x]
      BY <1>3, <2>1, <3>1, <3>2
    <3>4. x \in StepType /\ x.status = "running" /\ x.attempt = step[s].attempt
      BY <3>1, <3>2 DEF StepType
    <3> QED
      BY <2>1, <3>2, <3>3, <3>4
  <2>4. /\ claims' \in [Steps -> ClaimType]
        /\ \A r \in Steps \ {s} : claims'[r] = claims[r]
        /\ claims'[s].count = claims[s].count + 1 /\ claims[s].count \in Nat
    <3>1. claims \in [Steps -> ClaimType] /\ claims[s].count \in Nat
      BY <1>1, <2>1 DEF TypeOK, ClaimType
    <3>2. PICK c : c = [count |-> claims[s].count + 1, last |-> {w}, lost |-> FALSE]
      OBVIOUS
    <3>3. c \in ClaimType /\ c.count = claims[s].count + 1
      BY <3>1, <3>2 DEF ClaimType
    <3>4. claims' = [claims EXCEPT ![s] = c]
      BY <1>3, <2>1, <3>1, <3>2
    <3> QED
      BY <2>1, <3>1, <3>3, <3>4
  <2>5. PICK l : l = [LocalOf(run') EXCEPT !.attempt = step[s].attempt]
    OBVIOUS
  <2>6. l \in LocalType /\ l.cur = s
    <3>1. LocalOf(run') \in LocalType /\ LocalOf(run').cur = s /\ step[s].attempt \in Nat
      BY <1>1, <2>1, <2>2, LocalOfFacts DEF TypeOK, StepType
    <3> QED
      BY <2>5, <3>1 DEF LocalType
  <2>7. /\ pc' \in [Workers -> PCs] /\ local' \in [Workers -> LocalType]
        /\ pc'[w] = "executing" /\ local'[w] = l
        /\ \A v \in Workers \ {w} : pc'[v] = pc[v] /\ local'[v] = local[v]
    BY <1>1, <1>3, <2>5, <2>6, Places, KeepFacts DEF TypeOK
  <2>8. WorkerInv(w)'
    BY <1>0, <1>1, <2>1, <2>2, <2>6, <2>7 DEF WorkerInv, Fits
  <2>9. Requirement(s) # "none" => approval[s].status = "approved"
    BY <1>0, <1>1 DEF WorkerInv, Fits
  <2>10. StepInv(s)'
    BY <1>1, <2>1, <2>2, <2>3, <2>4, <2>9, <1>3
       DEF StepInv, StatusOfCurrent, Suffices, Waiting, TypeOK, StepType
  <2>11. DoubtIsReported'
    BY <2>2 DEF DoubtIsReported
  <2>12. ASSUME NEW r \in Steps PROVE HolderInv(r)'
    <3>1. HolderInv(r)
      BY DEF IInv
    <3>2. \A v \in Workers \ {w} : Holds(v, r)' => Holds(v, r)
      BY <2>7 DEF Holds
    <3>3. CASE r # s
      <4>1. ~ Holds(w, r)'
        BY <2>6, <2>7, <3>3 DEF Holds
      <4> QED
        BY <2>3, <3>1, <3>2, <3>3, <4>1 DEF HolderInv
    <3>4. CASE r = s
      BY <2>1, <2>3, <3>1, <3>2, <3>4 DEF HolderInv, Waiting
    <3> QED
      BY <3>3, <3>4
  <2> QED
    BY <1>1, <2>1, <2>2, <2>3, <2>4, <2>7, <2>8, <2>10, <2>11, <2>12, CurrentMoves DEF TypeOK
<1> QED
  BY <1>0, <1>2, <1>3 DEF ClaimStep

(* schedule_retry: the worker held the step, and gives it up.                *)
LEMMA RetryInv ==
  ASSUME IInv, NEW w \in Workers, Retry(w)
  PROVE  IInv'
<1>0. PICK s : s = local[w].cur
  OBVIOUS
<1>1. /\ TypeOK /\ UNCHANGED <<approval, outputs, notices, claims>>
      /\ pc[w] = "raised" /\ pc[w] \notin Outside /\ pc[w] \in Claimed
  BY Places DEF Retry, IInv
<1>2. CASE Leave(w) /\ UNCHANGED <<run, step>>
  BY <1>1, <1>2, LeavesOnly
<1>3. CASE /\ Retriable(w, s) /\ Repend(s, s \notin Backoff)
           /\ IF s \in Backoff THEN Leave(w) ELSE Keep(w, "checking", LocalOf(run'))
  <2>1. run.status = "running" /\ step[s].status = "running" /\ MayRetry(s, step[s].attempt, local[w].error)
    BY <1>3 DEF Retriable, Completable
  <2>2. s \in Steps /\ s = run.cur
    BY <1>0, <1>1, <2>1, WritesCurrent DEF Executable
  <2>3. run' \in RunType /\ run'.cur = run.cur
    BY <1>1, <1>3, <2>2, RependFacts DEF TypeOK
  <2>4. /\ pc' \in [Workers -> PCs] /\ local' \in [Workers -> LocalType]
        /\ pc'[w] \notin Claimed /\ WorkerInv(w)'
        /\ \A v \in Workers \ {w} : pc'[v] = pc[v] /\ local'[v] = local[v]
    BY <1>3, <2>2, <2>3, LeaverFits, ReaderFits
  <2>5. Holds(w, s)
    BY <1>0, <1>1 DEF Holds
  <2>6. PICK class : class = local[w].error
    OBVIOUS
  <2>7. PICK due \in BOOLEAN : due = (s \notin Backoff)
    OBVIOUS
  <2>8. Repend(s, due) /\ MayRetry(s, step[s].attempt, class)
    BY <1>3, <2>1, <2>6, <2>7
  <2> QED
    BY <1>1, <2>1, <2>2, <2>4, <2>5, <2>8, RependInv
<1> QED
  BY <1>0, <1>2, <1>3 DEF Retry

(* cancel_run: the step rows stay as they are.                               *)
LEMMA CancelInv ==
  ASSUME IInv, NEW w \in Workers, Cancel(w)
  PROVE  IInv'
<1>1. TypeOK /\ Leave(w) /\ UNCHANGED <<step, approval, outputs, notices, claims>>
  BY DEF Cancel, IInv
<1>2. CASE UNCHANGED run
  BY <1>1, <1>2, LeavesOnly
<1>3. CASE run.status \notin Terminal \cup NoRun /\ RunTo("cancelled")
  <2>1. PICK s : s = run.cur
    OBVIOUS
  <2>2. s \in Steps /\ StepInv(s) /\ step[s].status = run.status
        /\ run.status \in {"pending", "running", "awaiting"} /\ s \in Int
    BY <1>3, <2>1, AtStep DEF Steps
  <2>3. run' \in RunType /\ run'.status = "cancelled" /\ run'.cur = s
    BY <1>1, <1>3, <2>1, RunToFacts DEF TypeOK, Terminal
  <2>4. StepInv(s)'
    BY <1>1, <2>1, <2>2, <2>3 DEF StepInv, StatusOfCurrent, Suffices, Waiting
  <2>5. DoubtIsReported'
    BY <2>3 DEF DoubtIsReported
  <2>6. /\ pc' \in [Workers -> PCs] /\ local' \in [Workers -> LocalType]
        /\ pc'[w] \notin Claimed /\ WorkerInv(w)'
        /\ \A v \in Workers \ {w} : pc'[v] = pc[v] /\ local'[v] = local[v]
    BY <1>1, <2>3, LeaverFits
  <2>7. \A r \in Steps : HolderInv(r)'
    BY <1>1, <2>2, <2>6, NoWaitBegins
  <2> QED
    BY <1>1, <2>1, <2>2, <2>3, <2>4, <2>5, <2>6, <2>7, CurrentMoves DEF TypeOK
<1> QED
  BY <1>2, <1>3 DEF Cancel

(* complete_step: the run goes on to the next step, which nobody touched.    *)
LEMMA CompleteStepInv ==
  ASSUME IInv, NEW w \in Workers, CompleteStep(w)
  PROVE  IInv'
<1>0. PICK s : s = local[w].cur
  OBVIOUS
<1>1. /\ TypeOK /\ UNCHANGED <<approval, notices, claims>>
      /\ pc[w] = "returned" /\ pc[w] \notin Outside
  BY Places DEF CompleteStep, IInv
<1>2. CASE Leave(w) /\ UNCHANGED <<run, step, outputs>>
  BY <1>1, <1>2, LeavesOnly
<1>3. CASE /\ Completable(s) /\ StepTo(s, "succeeded")
           /\ run' = [status |-> IF s + 1 = N THEN "succeeded" ELSE "pending",
                      cur |-> s + 1, version |-> run.version + 1]
           /\ outputs' = outputs \cup {s}
           /\ IF s + 1 = N THEN Leave(w) ELSE Keep(w, "checking", LocalOf(run'))
  <2>1. s \in Steps /\ s = run.cur /\ run.status = "running" /\ step[s].status = "running"
    BY <1>0, <1>1, <1>3, WritesCurrent DEF Completable, Executable
  <2>2. s \in Nat /\ s < N /\ N \in Nat /\ run.version \in Nat
    BY <1>1, <2>1, DefinitionAssumption DEF Steps, TypeOK, RunType
  <2>3. /\ run' \in RunType /\ run'.cur = s + 1
        /\ run'.status = (IF s + 1 = N THEN "succeeded" ELSE "pending")
    BY <1>3, <2>2 DEF RunType, Executable, Terminal
  <2>4. /\ step' \in [Steps -> StepType] /\ \A r \in Steps \ {s} : step'[r] = step[r]
        /\ step'[s].status = "succeeded" /\ step'[s].attempt = step[s].attempt
    BY <1>1, <1>3, <2>1, StepToFacts DEF TypeOK
  <2>5. ASSUME NEW r \in Steps PROVE StepInv(r)'
    <3>1. r \in Int /\ StepInv(r) /\ NewStep.status = "pending"
      BY ConstantTypes DEF Steps, IInv
    <3>2. CASE r = s
      BY <1>1, <1>3, <2>1, <2>2, <2>3, <2>4, <3>1, <3>2 DEF StepInv, Suffices, Waiting
    <3>3. CASE r = s + 1
      BY <1>1, <1>3, <2>1, <2>2, <2>3, <2>4, <3>1, <3>3
         DEF StepInv, StatusOfCurrent, Suffices, Steps
    <3>4. CASE r # s /\ r # s + 1
      BY <1>1, <1>3, <2>1, <2>2, <2>3, <2>4, <3>1, <3>4 DEF StepInv, Suffices
    <3> QED
      BY <3>2, <3>3, <3>4
  <2>6. RunInv' /\ DoubtIsReported'
    BY <2>2, <2>3 DEF RunInv, DoubtIsReported
  <2>7. /\ pc' \in [Workers -> PCs] /\ local' \in [Workers -> LocalType]
        /\ pc'[w] \notin Claimed /\ WorkerInv(w)'
        /\ \A v \in Workers \ {w} : pc'[v] = pc[v] /\ local'[v] = local[v]
    <3>1. CASE s + 1 = N
      BY <1>3, <2>3, <3>1, LeaverFits
    <3>2. CASE s + 1 # N
      <4>1. run'.cur \in Steps /\ Keep(w, "checking", LocalOf(run'))
        BY <1>3, <2>2, <2>3, <3>2 DEF Steps
      <4> QED
        BY <2>3, <4>1, ReaderFits
    <3> QED
      BY <3>1, <3>2
  <2>8. \A v \in Workers : WorkerInv(v)'
    <3>1. run.cur <= run'.cur /\ run \in RunType
      BY <1>1, <2>1, <2>2, <2>3 DEF TypeOK
    <3> QED
      BY <1>1, <2>3, <2>7, <3>1, WorkersFit DEF IInv, TypeOK
  <2>9. \A r \in Steps : HolderInv(r)'
    BY <2>1, <2>4, <2>7, NoWaitBegins DEF Waiting
  <2>10. TypeOK'
    BY <1>1, <1>3, <2>1, <2>3, <2>4, <2>7 DEF TypeOK
  <2> QED
    BY <2>5, <2>6, <2>8, <2>9, <2>10 DEF IInv
<1> QED
  BY <1>0, <1>2, <1>3 DEF CompleteStep

(* decide_approval: what waits for a decision is the current step.           *)
LEMMA DecideInv ==
  ASSUME IInv, NEW w \in Workers, NEW s \in Steps, NEW d \in {"approved", "rejected"},
         NEW level \in Levels, Decide(w, s, d, level)
  PROVE  IInv'
<1>1. /\ TypeOK /\ UNCHANGED <<outputs, notices, local, claims>> /\ pc[w] = "idle"
      /\ run.status \notin NoRun /\ WorkerInv(w) /\ StepInv(s)
  BY DEF Decide, IInv
<1>2. "reading" \in PCs /\ {"idle", "reading"} \subseteq Outside /\ {"idle", "reading"} \cap PastGate = {}
  BY DEF PCs, Outside, PastGate, Claimed
<1>3. /\ pc' \in [Workers -> PCs] /\ pc'[w] \in {"idle", "reading"}
      /\ local' \in [Workers -> LocalType] /\ local'[w] = local[w]
      /\ \A v \in Workers \ {w} : pc'[v] = pc[v] /\ local'[v] = local[v]
  BY <1>1, <1>2, AtFacts DEF Decide, TypeOK
<1>4. pc'[w] \notin Claimed
  BY <1>2, <1>3 DEF PastGate
<1>5. CASE UNCHANGED <<run, step, approval>>
  <2>1. WorkerInv(w)'
    BY <1>1, <1>2, <1>3, <1>5 DEF WorkerInv, Fits
  <2> QED
    BY <1>1, <1>3, <1>4, <1>5, <2>1, ThreadMoves
<1>6. CASE /\ approval[s].status = "pending" /\ (d = "approved" => Suffices(level, s))
           /\ approval' = [approval EXCEPT ![s] = [status |-> d, level |-> level]]
           /\ IF step[s].status = "awaiting"
              THEN StepTo(s, IF d = "approved" THEN "pending" ELSE "failed")
              ELSE UNCHANGED step
           /\ IF run.status = "awaiting"
              THEN RunTo(IF d = "approved" THEN "pending" ELSE "failed")
              ELSE UNCHANGED run
  <2>1. PICK to : to = IF d = "approved" THEN "pending" ELSE "failed"
    OBVIOUS
  <2>2. step[s].status = "awaiting" /\ StepTo(s, to) /\ to \in {"pending", "failed"}
    BY <1>1, <1>6, <2>1 DEF StepInv
  <2>3. s = run.cur /\ run.status \in {"awaiting", "cancelled"} /\ s \in Int
    <3>1. run \in RunType /\ NewStep.status = "pending" /\ s \in Int /\ run.cur \in Int
      BY <1>1, ConstantTypes DEF TypeOK, RunType, Steps
    <3>2. s = run.cur /\ step[s].status \in StatusOfCurrent
      BY <1>1, <2>2, <3>1 DEF StepInv, NoRun
    <3> QED
      BY <2>2, <3>1, <3>2 DEF StatusOfCurrent, RunType
  <2>4. /\ run' \in RunType /\ run'.cur = s
        /\ run'.status = IF run.status = "awaiting" THEN to ELSE "cancelled"
    <3>1. CASE run.status = "awaiting"
      <4>1. RunTo(to) /\ to \in Executable \cup Terminal \cup {"awaiting"}
        BY <1>6, <2>1, <2>2, <3>1 DEF Executable, Terminal
      <4> QED
        BY <1>1, <2>3, <3>1, <4>1, RunToFacts DEF TypeOK
    <3>2. CASE run.status = "cancelled"
      BY <1>1, <1>6, <2>3, <3>2 DEF TypeOK
    <3> QED
      BY <2>3, <3>1, <3>2
  <2>5. /\ step' \in [Steps -> StepType] /\ \A r \in Steps \ {s} : step'[r] = step[r]
        /\ step'[s].status = to /\ step'[s].attempt = step[s].attempt
    BY <1>1, <2>2, StepToFacts DEF TypeOK
  <2>6. /\ approval' \in [Steps -> ApprovalType]
        /\ \A r \in Steps \ {s} : approval'[r] = approval[r]
        /\ approval'[s].status = d /\ approval'[s].level = level
    BY <1>1, <1>6 DEF TypeOK, ApprovalType
  <2>7. claims[s].count = 0 /\ Requirement(s) # "none"
    BY <1>1, <1>6 DEF StepInv, TypeOK, ClaimType
  <2>8. StepInv(s)'
    BY <1>1, <1>6, <2>1, <2>2, <2>3, <2>4, <2>5, <2>6, <2>7
       DEF StepInv, StatusOfCurrent, Suffices, Waiting
  <2>9. DoubtIsReported'
    BY <1>1, <2>4, <2>7 DEF DoubtIsReported
  <2>10. WorkerInv(w)'
    <3>1. local[w].cur <= run.cur
      BY <1>1 DEF WorkerInv, Fits
    <3> QED
      BY <1>2, <1>3, <2>3, <2>4, <3>1 DEF WorkerInv, Fits
  <2>11. \A r \in Steps : HolderInv(r)'
    BY <1>3, <1>4, <2>2, <2>5, NoWaitBegins DEF Waiting
  <2> QED
    BY <1>1, <1>3, <1>6, <2>2, <2>3, <2>4, <2>5, <2>6, <2>8, <2>9, <2>10, <2>11, CurrentMoves
       DEF TypeOK, NoRun
<1> QED
  BY <1>5, <1>6 DEF Decide

(* The rows of the steps keep their meaning when only a flag of time moves.  *)
LEMMA TimeInv ==
  ASSUME IInv, NEW s \in Steps, LeaseExpires(s) \/ BackoffEnds(s)
  PROVE  IInv'
<1>1. /\ TypeOK /\ UNCHANGED <<run, approval, outputs, notices, pc, local, claims>> /\ StepInv(s)
      /\ run \in RunType /\ step[s] \in StepType
  BY DEF IInv, TypeOK, LeaseExpires, BackoffEnds
<1>2. \/ step' = [step EXCEPT ![s].stale = TRUE] /\ step[s].status = "running"
      \/ step' = [step EXCEPT ![s].due = TRUE] /\ ~ step[s].due
  BY DEF LeaseExpires, BackoffEnds
<1>3. /\ step' \in [Steps -> StepType] /\ \A r \in Steps \ {s} : step'[r] = step[r]
      /\ step'[s].status = step[s].status /\ step'[s].attempt = step[s].attempt
  <2>1. CASE step' = [step EXCEPT ![s].stale = TRUE]
    BY <1>1, <2>1 DEF TypeOK, StepType
  <2>2. CASE step' = [step EXCEPT ![s].due = TRUE]
    BY <1>1, <2>2 DEF TypeOK, StepType
  <2> QED
    BY <1>2, <2>1, <2>2
<1>4. run.status # "cleared" => s <= run.cur
  <2>1. NewStep.due = TRUE /\ NewStep.status = "pending"
    BY DEF NewStep
  <2>2. run.cur \in Int /\ s \in Int
    BY <1>1 DEF RunType, Steps
  <2> QED
    BY <1>1, <1>2, <2>1, <2>2 DEF StepInv
<1>5. TypeOK'
  BY <1>1, <1>3 DEF TypeOK
<1>6. RunInv' /\ DoubtIsReported' /\ \A w \in Workers : WorkerInv(w)'
  BY <1>1 DEF IInv, RunInv, DoubtIsReported, WorkerInv, Fits
<1>7. ASSUME NEW r \in Steps PROVE StepInv(r)' /\ HolderInv(r)'
  <2>1. StepInv(r) /\ HolderInv(r)
    BY DEF IInv
  <2>2. CASE r = s
    <3>1. run.cur \in Int /\ s \in Int
      BY <1>1 DEF RunType, Steps
    <3>2. StepInv(s)'
      BY <1>1, <1>3, <1>4, <3>1 DEF StepInv, StatusOfCurrent, Suffices
    <3>3. HolderInv(s)'
      BY <1>1, <1>3, <2>1, <2>2 DEF HolderInv, Holds
    <3> QED
      BY <2>2, <3>2, <3>3
  <2>3. CASE r # s
    <3>1. StepInv(r)'
      BY <1>1, <1>3, <2>1, <2>3 DEF StepInv, StatusOfCurrent, Suffices
    <3>2. HolderInv(r)'
      BY <1>1, <1>3, <2>1, <2>3 DEF HolderInv, Holds
    <3> QED
      BY <3>1, <3>2
  <2> QED
    BY <2>2, <2>3
<1> QED
  BY <1>5, <1>6, <1>7 DEF IInv

LEMMA ClearInv ==
  ASSUME IInv, Clear
  PROVE  IInv'
<1>1. /\ TypeOK /\ UNCHANGED <<step, approval, outputs, notices, pc, local, claims>>
      /\ run' \in RunType /\ run'.status = "cleared" /\ run'.cur = run.cur
  BY DEF IInv, TypeOK, Clear, RunType, NoRun
<1>2. TypeOK'
  BY <1>1 DEF TypeOK
<1>3. RunInv' /\ DoubtIsReported' /\ \A w \in Workers : WorkerInv(w)'
  BY <1>1 DEF IInv, RunInv, DoubtIsReported, WorkerInv, Fits
<1>4. ASSUME NEW s \in Steps PROVE StepInv(s)' /\ HolderInv(s)'
  BY <1>1, <1>4 DEF IInv, StepInv, Suffices, HolderInv, Holds
<1> QED
  BY <1>2, <1>3, <1>4 DEF IInv

(* An error of the store takes a thread out and leaves the rows as they are. *)
LEMMA StoreRaisesFacts ==
  ASSUME TypeOK, NEW w \in Workers, StoreRaises(w)
  PROVE  /\ claims' \in [Steps -> ClaimType]
         /\ \A s \in Steps : claims'[s].count = claims[s].count
<1>1. claims \in [Steps -> ClaimType]
  BY DEF TypeOK
<1>2. CASE UNCHANGED claims
  BY <1>1, <1>2
<1>3. ASSUME NEW r, claims' = [claims EXCEPT ![r].lost = TRUE]
      PROVE  \A s \in Steps : claims'[s] \in ClaimType /\ claims'[s].count = claims[s].count
  <2> SUFFICES ASSUME NEW s \in Steps
               PROVE  claims'[s] \in ClaimType /\ claims'[s].count = claims[s].count
    OBVIOUS
  <2>1. PICK c : c = claims[s]
    OBVIOUS
  <2>2. c \in ClaimType
    BY <1>1, <2>1
  <2>3. claims'[s] = c \/ claims'[s] = [c EXCEPT !.lost = TRUE]
    BY <1>1, <1>3, <2>1
  <2>4. /\ [c EXCEPT !.lost = TRUE] \in ClaimType
        /\ [c EXCEPT !.lost = TRUE].count = c.count
    BY <2>2 DEF ClaimType
  <2> QED
    BY <2>1, <2>2, <2>3, <2>4
<1>4. ASSUME NEW r, claims' = [claims EXCEPT ![r].lost = TRUE]
      PROVE  claims' = [s \in Steps |-> claims'[s]]
  BY <1>1, <1>4
<1>5. ASSUME NEW r, claims' = [claims EXCEPT ![r].lost = TRUE]
      PROVE  claims' \in [Steps -> ClaimType]
  BY <1>3, <1>4, <1>5
<1> QED
  BY <1>2, <1>3, <1>5 DEF StoreRaises

LEMMA StoreRaisesInv ==
  ASSUME IInv, NEW w \in Workers, StoreRaises(w)
  PROVE  IInv'
<1>1. /\ Leave(w) /\ UNCHANGED <<run, step, approval, outputs, notices>>
      /\ TypeOK /\ run' \in RunType
  BY DEF StoreRaises, IInv, TypeOK
<1>2. claims' \in [Steps -> ClaimType] /\ \A s \in Steps : claims'[s].count = claims[s].count
  BY <1>1, StoreRaisesFacts
<1>3. /\ pc' \in [Workers -> PCs] /\ local' \in [Workers -> LocalType]
      /\ pc'[w] \notin Claimed /\ WorkerInv(w)'
      /\ \A v \in Workers \ {w} : pc'[v] = pc[v] /\ local'[v] = local[v]
  BY <1>1, LeaverFits
<1>4. TypeOK'
  BY <1>1, <1>2, <1>3 DEF TypeOK
<1>5. RunInv' /\ (\A s \in Steps : StepInv(s)') /\ DoubtIsReported'
  BY <1>1, <1>2, SameRows DEF IInv
<1>6. \A v \in Workers : WorkerInv(v)'
  <2>1. run.cur <= run'.cur
    BY <1>1 DEF RunType
  <2> QED
    BY <1>1, <1>3, <2>1, WorkersFit DEF IInv, TypeOK
<1>7. \A s \in Steps : HolderInv(s)'
  BY <1>1, <1>3, HoldersKept, NoNewHolder DEF IInv
<1> QED
  BY <1>4, <1>5, <1>6, <1>7 DEF IInv

LEMMA NextInv == IInv /\ [Next]_vars => IInv'
<1> SUFFICES ASSUME IInv, [Next]_vars PROVE IInv'
  OBVIOUS
<1>1. ASSUME NEW w \in Workers, WorkerStep(w) PROVE IInv'
  BY <1>1, ReadRunInv, RefuseInv, RecoverInv, CheckStepInv, CheckApprovalInv, RequestApprovalInv,
     ClaimStepInv, ExecuteInv, CompleteStepInv, RetryInv, GiveUpInv, CancelInv DEF WorkerStep
<1>2. ASSUME NEW w \in Workers, Start(w) \/ ReadToCancel(w) \/ StoreRaises(w) \/ Crash(w)
      PROVE  IInv'
  BY <1>2, StartInv, ReadToCancelInv, StoreRaisesInv, LeavesOnly DEF Crash
<1>3. ASSUME NEW w \in Workers, NEW s \in Steps, NEW d \in {"approved", "rejected"},
             NEW level \in Levels, Decide(w, s, d, level)
      PROVE  IInv'
  BY <1>3, DecideInv
<1>4. CASE Clear
  BY <1>4, ClearInv
<1>5. ASSUME NEW s \in Steps, LeaseExpires(s) \/ BackoffEnds(s) PROVE IInv'
  BY <1>5, TimeInv
<1>6. CASE UNCHANGED vars
  <2>1. TypeOK' /\ \A s \in Steps : HolderInv(s)'
    BY <1>6 DEF IInv, TypeOK, vars, HolderInv, Holds
  <2>2. RunInv' /\ (\A s \in Steps : StepInv(s)') /\ DoubtIsReported'
    BY <1>6, SameRows DEF IInv, vars
  <2>3. \A w \in Workers : WorkerInv(w)'
    BY <1>6 DEF IInv, vars, WorkerInv, Fits
  <2> QED
    BY <2>1, <2>2, <2>3 DEF IInv
<1> QED
  BY <1>1, <1>2, <1>3, <1>4, <1>5, <1>6 DEF Next

-----------------------------------------------------------------------------
(* The inductive invariant holds in every reachable state.                   *)
THEOREM InductiveInvariant == Spec => []IInv
BY InitInv, NextInv, PTL DEF Spec

(* Types; a compensation is asked for only where a step names one.           *)
THEOREM TypeCorrect == Spec => []TypeOK
BY InductiveInvariant, PTL DEF IInv

(* The run's row and its step rows agree whatever threads with outdated      *)
(* copies of the run write.                                                  *)
THEOREM RunAgreesWithItsSteps == Spec => []RunAndStepsAgree
<1>1. ASSUME IInv PROVE RunAndStepsAgree
  <2> SUFFICES ASSUME run.status # "cleared" PROVE RunAndStepsAgree
    BY DEF RunAndStepsAgree
  <2>1. run.cur \in 0..N /\ N \in Nat /\ outputs \subseteq Steps
    BY <1>1, DefinitionAssumption DEF IInv, TypeOK, RunType
  <2>2. \A s \in Steps : StepInv(s)
    BY <1>1 DEF IInv
  <2>3. outputs = {s \in Steps : s < run.cur}
    BY <2>1, <2>2 DEF StepInv
  <2>4. /\ \A s \in Steps : s < run.cur => step[s].status = "succeeded"
        /\ \A s \in Steps : s > run.cur => step[s] = NewStep /\ approval[s] = NoApproval
    BY <2>2 DEF StepInv
  <2>5. run.cur < N => step[run.cur].status \in StatusOfCurrent
    BY <2>1, <2>2 DEF StepInv, Steps
  <2>6. run.cur = N <=> run.status = "succeeded"
    BY <1>1 DEF IInv, RunInv
  <2> QED
    BY <2>3, <2>4, <2>5, <2>6 DEF RunAndStepsAgree
<1> QED
  BY <1>1, InductiveInvariant, PTL

(* A skill that needs an approval runs only on one of a sufficient rank.     *)
THEOREM GateTheorem == Spec => []GateHolds
<1>1. ASSUME IInv, NEW w \in Workers, Executing(w), Requirement(local[w].cur) # "none"
      PROVE  /\ approval[local[w].cur].status = "approved"
             /\ Rank[approval[local[w].cur].level] >= Rank[Requirement(local[w].cur)]
  <2>1. pc[w] \in PastGate /\ pc[w] \notin Outside /\ WorkerInv(w)
    BY <1>1, Places DEF Executing, IInv
  <2>2. local[w].cur \in Steps /\ approval[local[w].cur].status = "approved"
    BY <1>1, <2>1 DEF WorkerInv, Fits
  <2>3. StepInv(local[w].cur)
    BY <1>1, <2>2 DEF IInv
  <2> QED
    BY <2>2, <2>3 DEF StepInv, Suffices
<1>2. IInv => GateHolds
  BY <1>1 DEF GateHolds
<1> QED
  BY <1>2, InductiveInvariant, PTL

(* Every attempt is handed to the skill at most once, and there are at most  *)
(* max_retries + 1 of them.                                                  *)
THEOREM AttemptsTheorem == Spec => []AttemptsBounded
<1>1. IInv => AttemptsBounded
  BY DEF IInv, StepInv, AttemptsBounded
<1> QED
  BY <1>1, InductiveInvariant, PTL

(* No two threads run a side effect at once.                                 *)
THEOREM SideEffectsTheorem == Spec => []SideEffectsAlone
<1>1. ASSUME IInv, NEW v \in Workers, NEW w \in Workers, v # w, Executing(v), Executing(w),
             local[v].cur = local[w].cur, local[v].cur \in SideEffect
      PROVE  FALSE
  <2>1. PICK s : s = local[v].cur
    OBVIOUS
  <2>2. s \in Steps /\ Holds(v, s) /\ Holds(w, s)
    BY <1>1, <2>1, Places, DefinitionAssumption DEF Executing, Holds
  <2>3. HolderInv(s)
    BY <1>1, <2>2 DEF IInv
  <2> QED
    BY <1>1, <2>1, <2>2, <2>3 DEF HolderInv
<1>2. IInv => SideEffectsAlone
  BY <1>1 DEF SideEffectsAlone
<1> QED
  BY <1>2, InductiveInvariant, PTL

(* A run that fails on a step whose effect is in doubt has asked for the     *)
(* compensation the step names.                                              *)
THEOREM DoubtTheorem == Spec => []DoubtIsReported
BY InductiveInvariant, PTL DEF IInv

-----------------------------------------------------------------------------
(* The engine implements OrderedRun.  Verdict and Answered name the abstract *)
(* state; the rows a step moves give the abstract step.                      *)
Tries == [s \in Steps |-> claims[s].count]
Consents == [s \in Steps |-> Answered(approval[s].status)]
AbstractVars == <<Verdict(run.status), run.cur, Tries, Consents>>

LEMMA VerdictFacts ==
  /\ Verdict("absent") = "none" /\ Verdict("pending") = "open" /\ Verdict("running") = "open"
  /\ Verdict("awaiting") = "open" /\ Verdict("succeeded") = "succeeded"
  /\ Verdict("failed") = "failed" /\ Verdict("cancelled") = "cancelled"
  /\ Verdict("cleared") = "cleared"
  /\ Answered("absent") = "unasked" /\ Answered("pending") = "asked"
  /\ Answered("approved") = "granted" /\ Answered("rejected") = "refused"
BY DEF Verdict, Answered

LEMMA InitRefines == Init => Promise!Init
<1> SUFFICES ASSUME Init PROVE Promise!Init
  OBVIOUS
<1>1. Verdict(run.status) = "none" /\ run.cur = 0
  BY VerdictFacts DEF Init
<1>2. Tries = [s \in Steps |-> 0]
  BY DEF Init, Tries
<1>3. Consents = [s \in Steps |-> "unasked"]
  BY VerdictFacts DEF Init, Consents, NoApproval
<1> QED
  BY <1>1, <1>2, <1>3 DEF Promise!Init, Promise!Steps, Steps, Tries, Consents

(* What a thread does to its own copy alone is no step of the promise.       *)
LEMMA RowsStutter ==
  ASSUME UNCHANGED <<run, approval>>, \A s \in Steps : claims'[s].count = claims[s].count
  PROVE  UNCHANGED AbstractVars
BY DEF AbstractVars, Tries, Consents

(* A move of the run's status alone.                                         *)
LEMMA RunMoves ==
  ASSUME UNCHANGED <<approval, claims>>, run'.cur = run.cur,
         \/ Verdict(run'.status) = Verdict(run.status)
         \/ Verdict(run.status) = "open" /\ Verdict(run'.status) \in {"failed", "cancelled"}
         \/ Verdict(run.status) = "none" /\ Verdict(run'.status) = "open"
         \/ Verdict(run.status) \notin {"none", "cleared"} /\ Verdict(run'.status) = "cleared"
  PROVE  Promise!Next \/ UNCHANGED AbstractVars
<1>1. Tries' = Tries /\ Consents' = Consents
  BY DEF Tries, Consents
<1> QED
  BY <1>1 DEF AbstractVars, Promise!Next, Promise!Stop, Promise!Open, Promise!ClearAway, Tries, Consents

(* claim_step is a try: it was asked for where it must be, and is not one    *)
(* too many.                                                                 *)
LEMMA ClaimRefines ==
  ASSUME IInv, NEW w \in Workers, ClaimStep(w)
  PROVE  Promise!Next \/ UNCHANGED AbstractVars
<1>0. PICK s : s = local[w].cur
  OBVIOUS
<1>1. TypeOK /\ WorkerInv(w) /\ pc[w] = "claiming" /\ approval' = approval
  BY DEF IInv, ClaimStep
<1>2. CASE UNCHANGED <<run, claims>>
  BY <1>1, <1>2, RowsStutter
<1>3. CASE /\ Claimable(s) /\ RunTo("running")
           /\ claims' = [claims EXCEPT ![s] = [count |-> @.count + 1, last |-> {w}, lost |-> FALSE]]
  <2>1. s \in Steps /\ s = run.cur /\ run.status \in {"pending", "running"} /\ step[s].status = "pending"
    BY <1>0, <1>1, <1>3, Places DEF Claimable, WorkerInv, Fits, Executable
  <2>2. StepInv(s) /\ claims[s].count \in Nat /\ MaxRetries[s] \in Nat /\ step[s].attempt \in Nat
    BY <1>1, <2>1, DefinitionAssumption DEF IInv, TypeOK, StepType, ClaimType
  <2>3. run'.status = "running" /\ run'.cur = run.cur
    BY <1>1, <1>3, RunToFacts DEF TypeOK, Executable
  <2>4. Verdict(run.status) = "open" /\ Verdict(run'.status) = "open"
    BY <2>1, <2>3, VerdictFacts
  <2>5. Requirement(s) # "none" => Consents[s] = "granted"
    <3>1. Requirement(s) # "none" => approval[s].status = "approved"
      BY <1>0, <1>1, Places DEF WorkerInv, Fits
    <3> QED
      BY <2>1, <3>1, VerdictFacts DEF Consents
  <2>6. Tries[s] < MaxRetries[s] + 1 /\ Tries[s] = claims[s].count
    BY <2>1, <2>2 DEF StepInv, Waiting, Tries
  <2>7. Tries' = [Tries EXCEPT ![s] = Tries[s] + 1]
    <3>1. claims'[s].count = claims[s].count + 1
      BY <1>1, <1>3, <2>1 DEF TypeOK
    <3>2. \A r \in Steps \ {s} : claims'[r] = claims[r]
      BY <1>1, <1>3 DEF TypeOK
    <3>3. \A r \in Steps : Tries'[r] = [Tries EXCEPT ![s] = Tries[s] + 1][r]
      BY <2>1, <2>6, <3>1, <3>2 DEF Tries
    <3> QED
      BY <3>3 DEF Tries
  <2>8. Consents' = Consents
    BY <1>1 DEF Consents
  <2>9. Promise!Try
    BY <2>1, <2>3, <2>4, <2>5, <2>6, <2>7, <2>8 DEF Promise!Try, Tries, Consents
  <2> QED
    BY <2>9 DEF Promise!Next
<1> QED
  BY <1>0, <1>2, <1>3 DEF ClaimStep

(* complete_step finishes the current step, which was tried.                 *)
LEMMA CompleteRefines ==
  ASSUME IInv, NEW w \in Workers, CompleteStep(w)
  PROVE  Promise!Next \/ UNCHANGED AbstractVars
<1>0. PICK s : s = local[w].cur
  OBVIOUS
<1>1. TypeOK /\ pc[w] = "returned" /\ UNCHANGED <<approval, claims>>
  BY DEF IInv, CompleteStep
<1>2. CASE UNCHANGED run
  BY <1>1, <1>2, RowsStutter
<1>3. CASE /\ Completable(s)
           /\ run' = [status |-> IF s + 1 = N THEN "succeeded" ELSE "pending",
                      cur |-> s + 1, version |-> run.version + 1]
  <2>1. s \in Steps /\ s = run.cur /\ run.status = "running" /\ step[s].status = "running"
    BY <1>0, <1>1, <1>3, Places, WritesCurrent DEF Completable, Executable
  <2>2. StepInv(s) /\ claims[s].count \in Nat
    BY <1>1, <2>1 DEF IInv, TypeOK, ClaimType
  <2>3. Tries[s] > 0 /\ Tries' = Tries /\ Consents' = Consents
    BY <1>1, <2>1, <2>2 DEF StepInv, Tries, Consents
  <2>4. /\ run'.cur = run.cur + 1 /\ Verdict(run.status) = "open"
        /\ Verdict(run'.status) = (IF run.cur + 1 = N THEN "succeeded" ELSE "open")
    BY <1>3, <2>1, VerdictFacts
  <2>5. Promise!Finish
    BY <2>1, <2>3, <2>4 DEF Promise!Finish, Tries, Consents
  <2> QED
    BY <2>5 DEF Promise!Next
<1> QED
  BY <1>0, <1>2, <1>3 DEF CompleteStep

(* request_approval asks for the current step.                               *)
LEMMA RequestRefines ==
  ASSUME IInv, NEW w \in Workers, RequestApproval(w)
  PROVE  Promise!Next \/ UNCHANGED AbstractVars
<1>0. PICK s : s = local[w].cur
  OBVIOUS
<1>1. TypeOK /\ pc[w] = "requesting" /\ claims' = claims /\ WorkerInv(w)
  BY DEF IInv, RequestApproval
<1>2. CASE UNCHANGED <<run, approval>>
  BY <1>1, <1>2, RowsStutter
<1>3. CASE /\ approval[s].status = "absent" /\ Failable(s) /\ step[s].status = "pending"
           /\ approval' = [approval EXCEPT ![s].status = "pending"] /\ RunTo("awaiting")
  <2>1. s \in Steps /\ s = run.cur /\ run.status \in {"pending", "running"}
    BY <1>0, <1>1, <1>3, Places, WritesCurrent DEF Failable, Executable
  <2>2. Requirement(s) # "none"
    BY <1>0, <1>1 DEF WorkerInv, Fits
  <2>3. run'.status = "awaiting" /\ run'.cur = run.cur
    BY <1>1, <1>3, RunToFacts DEF TypeOK
  <2>4. Verdict(run.status) = "open" /\ Verdict(run'.status) = "open"
    BY <2>1, <2>3, VerdictFacts
  <2>5. Consents[s] = "unasked" /\ Tries' = Tries
    BY <1>1, <1>3, <2>1, VerdictFacts DEF Consents, Tries
  <2>6. Consents' = [Consents EXCEPT ![s] = "asked"]
    <3>1. /\ approval'[s].status = "pending"
          /\ \A r \in Steps \ {s} : approval'[r] = approval[r]
      BY <1>1, <1>3, <2>1 DEF TypeOK, ApprovalType
    <3>2. \A r \in Steps : Consents'[r] = [Consents EXCEPT ![s] = "asked"][r]
      BY <2>1, <3>1, VerdictFacts DEF Consents
    <3> QED
      BY <3>2 DEF Consents
  <2>7. Promise!Ask
    BY <2>1, <2>2, <2>3, <2>4, <2>5, <2>6 DEF Promise!Ask, Tries, Consents
  <2> QED
    BY <2>7 DEF Promise!Next
<1> QED
  BY <1>0, <1>2, <1>3 DEF RequestApproval

(* decide_approval answers for the current step.                             *)
LEMMA DecideRefines ==
  ASSUME IInv, NEW w \in Workers, NEW s \in Steps, NEW d \in {"approved", "rejected"},
         NEW level \in Levels, Decide(w, s, d, level)
  PROVE  Promise!Next \/ UNCHANGED AbstractVars
<1>1. TypeOK /\ claims' = claims /\ StepInv(s) /\ run.status \notin NoRun /\ run \in RunType
  BY DEF IInv, TypeOK, Decide
<1>2. CASE UNCHANGED <<run, approval>>
  BY <1>1, <1>2, RowsStutter
<1>3. CASE /\ approval[s].status = "pending"
           /\ approval' = [approval EXCEPT ![s] = [status |-> d, level |-> level]]
           /\ IF run.status = "awaiting"
              THEN RunTo(IF d = "approved" THEN "pending" ELSE "failed")
              ELSE UNCHANGED run
  <2>1. step[s].status = "awaiting" /\ NewStep.status = "pending" /\ s \in Int /\ run.cur \in Int
    BY <1>1, <1>3, ConstantTypes DEF StepInv, RunType, Steps
  <2>2. s = run.cur /\ step[s].status \in StatusOfCurrent
    BY <1>1, <2>1 DEF StepInv, NoRun
  <2>3. run.status \in {"awaiting", "cancelled"}
    BY <1>1, <2>1, <2>2 DEF StatusOfCurrent, RunType
  <2>4. /\ run'.cur = run.cur
        /\ run.status = "awaiting" =>
             run'.status = (IF d = "approved" THEN "pending" ELSE "failed")
        /\ run.status = "cancelled" => run'.status = "cancelled"
    <3>1. CASE run.status = "cancelled"
      BY <1>3, <3>1
    <3>2. CASE run.status = "awaiting"
      <4>1. PICK to : to = IF d = "approved" THEN "pending" ELSE "failed"
        OBVIOUS
      <4>2. RunTo(to) /\ to \in Executable \cup Terminal \cup {"awaiting"}
        BY <1>3, <3>2, <4>1 DEF Executable, Terminal
      <4> QED
        BY <1>1, <3>2, <4>1, <4>2, RunToFacts
    <3> QED
      BY <2>3, <3>1, <3>2
  <2>5. Consents[s] = "asked" /\ Tries' = Tries
    BY <1>1, <1>3, VerdictFacts DEF Consents, Tries
  <2>6. Consents' = [Consents EXCEPT ![s] = Answered(d)]
    <3>1. /\ approval'[s].status = d
          /\ \A r \in Steps \ {s} : approval'[r] = approval[r]
      BY <1>1, <1>3 DEF TypeOK, ApprovalType
    <3>2. \A r \in Steps : Consents'[r] = [Consents EXCEPT ![s] = Answered(d)][r]
      BY <3>1 DEF Consents
    <3> QED
      BY <3>2 DEF Consents
  <2>7. CASE d = "approved"
    <3>1. /\ Verdict(run.status) \in {"open", "cancelled"}
          /\ Verdict(run'.status) = Verdict(run.status) /\ Answered(d) = "granted"
      BY <2>3, <2>4, <2>7, VerdictFacts
    <3>2. Promise!Answer
      BY <2>2, <2>4, <2>5, <2>6, <3>1 DEF Promise!Answer, Tries, Consents
    <3> QED
      BY <3>2 DEF Promise!Next
  <2>8. CASE d = "rejected"
    <3>1. /\ Verdict(run.status) \in {"open", "cancelled"} /\ Answered(d) = "refused"
          /\ Verdict(run'.status) =
               (IF Verdict(run.status) = "open" THEN "failed" ELSE Verdict(run.status))
      BY <2>3, <2>4, <2>8, VerdictFacts
    <3>2. Promise!Answer
      BY <2>2, <2>4, <2>5, <2>6, <3>1 DEF Promise!Answer, Tries, Consents
    <3> QED
      BY <3>2 DEF Promise!Next
  <2> QED
    BY <2>7, <2>8
<1> QED
  BY <1>2, <1>3 DEF Decide

LEMMA StepRefines ==
  ASSUME IInv, Next
  PROVE  Promise!Next \/ UNCHANGED AbstractVars
<1>0. TypeOK /\ run \in RunType
  BY DEF IInv, TypeOK
<1>1. ASSUME NEW w \in Workers, ReadRun(w) \/ CheckStep(w) \/ CheckApproval(w) \/ Execute(w)
                                  \/ ReadToCancel(w) \/ Crash(w)
      PROVE  UNCHANGED AbstractVars
  BY <1>1, RowsStutter DEF ReadRun, CheckStep, CheckApproval, Execute, ReadToCancel, Crash
<1>12. ASSUME NEW w \in Workers, StoreRaises(w)
       PROVE  UNCHANGED AbstractVars
  BY <1>0, <1>12, StoreRaisesFacts, RowsStutter DEF StoreRaises
<1>2. ASSUME NEW w \in Workers, Start(w)
      PROVE  Promise!Next \/ UNCHANGED AbstractVars
  BY <1>0, <1>2, VerdictFacts, RunMoves DEF Start, RunType
<1>3. ASSUME NEW s, FailStep(s), UNCHANGED <<approval, claims>>
      PROVE  Promise!Next \/ UNCHANGED AbstractVars
  <2>1. CASE run' = run
    BY <1>3, <2>1, RowsStutter
  <2>2. CASE Failable(s) /\ RunTo("failed")
    BY <1>0, <1>3, <2>2, VerdictFacts, RunToFacts, RunMoves DEF Failable, Executable, Terminal
  <2> QED
    BY <1>3, <2>1, <2>2 DEF FailStep
<1>4. ASSUME NEW w \in Workers, Refuse(w) \/ GiveUp(w)
      PROVE  Promise!Next \/ UNCHANGED AbstractVars
  BY <1>3, <1>4 DEF Refuse, GiveUp
<1>5. ASSUME NEW s, NEW due, Repend(s, due), run.status = "running", UNCHANGED <<approval, claims>>
      PROVE  Promise!Next \/ UNCHANGED AbstractVars
  <2>1. run'.status = "pending" /\ run'.cur = run.cur
    BY <1>0, <1>5, RunToFacts DEF Repend, Executable
  <2> QED
    BY <1>5, <2>1, VerdictFacts, RunMoves
<1>6. ASSUME NEW w \in Workers, Recover(w)
      PROVE  Promise!Next \/ UNCHANGED AbstractVars
  <2>1. CASE UNCHANGED run
    BY <1>6, <2>1, RowsStutter DEF Recover
  <2>2. CASE LeaseLost /\ RunTo("failed")
    BY <1>0, <1>6, <2>2, VerdictFacts, RunToFacts, RunMoves DEF Recover, LeaseLost, Terminal
  <2>3. CASE LeaseLost /\ Repend(run.cur, TRUE)
    BY <1>5, <1>6, <2>3 DEF Recover, LeaseLost
  <2> QED
    BY <1>6, <2>1, <2>2, <2>3 DEF Recover
<1>7. ASSUME NEW w \in Workers, Retry(w)
      PROVE  Promise!Next \/ UNCHANGED AbstractVars
  <2>1. CASE UNCHANGED run
    BY <1>7, <2>1, RowsStutter DEF Retry
  <2>2. ASSUME NEW s, NEW due, Repend(s, due), run.status = "running"
        PROVE  Promise!Next \/ UNCHANGED AbstractVars
    BY <1>5, <1>7, <2>2 DEF Retry
  <2> QED
    BY <1>7, <2>1, <2>2 DEF Retry, Retriable, Completable
<1>8. ASSUME NEW w \in Workers, Cancel(w)
      PROVE  Promise!Next \/ UNCHANGED AbstractVars
  <2>1. CASE UNCHANGED run
    BY <1>8, <2>1, RowsStutter DEF Cancel
  <2>2. CASE run.status \notin Terminal \cup NoRun /\ RunTo("cancelled")
    <3>1. run'.status = "cancelled" /\ run'.cur = run.cur
      BY <1>0, <2>2, RunToFacts DEF Terminal
    <3>2. Verdict(run.status) = "open"
      BY <2>2, AtStep, VerdictFacts
    <3> QED
      BY <1>8, <3>1, <3>2, VerdictFacts, RunMoves DEF Cancel
  <2> QED
    BY <1>8, <2>1, <2>2 DEF Cancel
<1>9. CASE Clear
  <2>1. Verdict(run.status) \notin {"none", "cleared"} /\ run'.status = "cleared" /\ run'.cur = run.cur
    BY <1>0, <1>9, VerdictFacts DEF Clear, RunType, NoRun, Executable, Terminal
  <2> QED
    BY <1>9, <2>1, VerdictFacts, RunMoves DEF Clear
<1>10. ASSUME NEW s \in Steps, LeaseExpires(s) \/ BackoffEnds(s)
       PROVE  UNCHANGED AbstractVars
  BY <1>10, RowsStutter DEF LeaseExpires, BackoffEnds
<1>11. ASSUME NEW w \in Workers, WorkerStep(w)
       PROVE  Promise!Next \/ UNCHANGED AbstractVars
  BY <1>1, <1>4, <1>6, <1>7, <1>8, <1>11, ClaimRefines, CompleteRefines, RequestRefines
     DEF WorkerStep
<1> QED
  BY <1>1, <1>2, <1>9, <1>10, <1>11, <1>12, DecideRefines DEF Next

(* The engine keeps the promise of an ordered, bounded, consented run.       *)
THEOREM RefinesOrderedRun == Spec => ImplementsOrderedRun
<1>1. IInv /\ [Next]_vars => [Promise!Next]_AbstractVars
  <2>1. ASSUME IInv, Next PROVE [Promise!Next]_AbstractVars
    BY <2>1, StepRefines
  <2>2. ASSUME UNCHANGED vars PROVE [Promise!Next]_AbstractVars
    BY <2>2, RowsStutter DEF vars
  <2> QED
    BY <2>1, <2>2
<1>2. AbstractVars = <<Verdict(run.status), run.cur, [s \in Steps |-> claims[s].count],
                       [s \in Steps |-> Answered(approval[s].status)]>>
  BY DEF AbstractVars, Tries, Consents
<1> QED
  BY <1>1, <1>2, InitRefines, InductiveInvariant, PTL
     DEF Spec, ImplementsOrderedRun, Promise!Spec, Promise!vars, AbstractVars, Tries, Consents

(* A finished run stays as it is, whatever late threads write.               *)
THEOREM FinishedTheorem == Spec => FinishedRunsRest
<1>1. ASSUME IInv, [Next]_vars, run.status \in Terminal \cup {"cleared"}
      PROVE  /\ run'.status \in {run.status, "cleared"}
             /\ run'.cur = run.cur /\ outputs' = outputs
             /\ \A s \in Steps : claims'[s].count = claims[s].count
  <2>1. /\ run \in RunType /\ run.status # "absent"
        /\ run.status \notin {"pending", "running", "awaiting"}
    BY <1>1 DEF IInv, TypeOK, Terminal
  <2>2. CASE Clear
    BY <2>1, <2>2 DEF Clear, RunType
  <2>3. ASSUME NEW w \in Workers, WorkerStep(w) PROVE UNCHANGED <<run, outputs, claims>>
    <3>1. CASE ReadRun(w) \/ CheckStep(w) \/ CheckApproval(w) \/ Execute(w)
      BY <3>1 DEF ReadRun, CheckStep, CheckApproval, Execute
    <3>2. CASE Refuse(w) \/ GiveUp(w) \/ RequestApproval(w)
      BY <2>1, <3>2 DEF Refuse, GiveUp, FailStep, Failable, RequestApproval, Executable
    <3>3. CASE Recover(w) \/ Retry(w) \/ Cancel(w)
      BY <1>1, <2>1, <3>3 DEF Recover, LeaseLost, Retry, Retriable, Completable, Cancel, NoRun, Terminal
    <3>4. CASE ClaimStep(w) \/ CompleteStep(w)
      BY <2>1, <3>4 DEF ClaimStep, Claimable, CompleteStep, Completable, Executable
    <3> QED
      BY <2>3, <3>1, <3>2, <3>3, <3>4 DEF WorkerStep
  <2>4. ASSUME NEW w \in Workers, Start(w) \/ ReadToCancel(w) \/ Crash(w)
        PROVE  UNCHANGED <<run, outputs, claims>>
    BY <2>1, <2>4 DEF Start, ReadToCancel, Crash
  <2>5. ASSUME NEW w \in Workers, NEW s \in Steps, NEW d, NEW level, Decide(w, s, d, level)
        PROVE  UNCHANGED <<run, outputs, claims>>
    BY <2>1, <2>5 DEF Decide
  <2>6. ASSUME NEW s \in Steps, LeaseExpires(s) \/ BackoffEnds(s)
        PROVE  UNCHANGED <<run, outputs, claims>>
    BY <2>6 DEF LeaseExpires, BackoffEnds
  <2>7. CASE UNCHANGED vars
    BY <2>7 DEF vars
  <2>8. ASSUME NEW w \in Workers, StoreRaises(w)
        PROVE  /\ UNCHANGED <<run, outputs>>
               /\ \A s \in Steps : claims'[s].count = claims[s].count
    BY <1>1, <2>8, StoreRaisesFacts DEF IInv, StoreRaises
  <2> QED
    BY <1>1, <2>2, <2>3, <2>4, <2>5, <2>6, <2>7, <2>8 DEF Next
<1> QED
  BY <1>1, InductiveInvariant, PTL DEF Spec, FinishedRunsRest
-----------------------------------------------------------------------------
(* The part of the liveness properties that an invariant and a step can say. *)

(* Thread w holds the attempt the current step is at.                        *)
HoldsAttempt(w) == Holds(w, run.cur) /\ local[w].attempt = step[run.cur].attempt

(* While no process dies, a running step is held, at the attempt its row     *)
(* says, by a thread that will report what became of it, or the thread that  *)
(* claimed it last left on an error of the store, which its caller saw:      *)
(* threads with lost leases and outdated copies never leave it to nobody.    *)
AttemptsAreHeld ==
  ~ Faults /\ run.status = "running" =>
    (\E w \in Workers : HoldsAttempt(w)) \/ claims[run.cur].lost

(* How far a thread is from the end of a round of the loop.                  *)
StepsLeft(p) ==
  CASE p = "recovering" -> 7
    [] p = "checking"   -> 6
    [] p = "asking"     -> 5
    [] p = "claiming"   -> 4
    [] p = "executing"  -> 3
    [] p = "returned"   -> 2
    [] p = "raised"     -> 2
    [] p = "idle"       -> 0
    [] OTHER            -> 1

(* A step of thread w leaves the engine, begins its first round, or goes on  *)
(* to a later step, to a later attempt of the same one, or further in the    *)
(* same round.                                                               *)
Advances(w) ==
  \/ pc'[w] = "idle"
  \/ pc[w] = "reading" /\ pc'[w] # "reading"
  \/ /\ pc'[w] # "reading"
     /\ \/ local[w].cur < local'[w].cur
        \/ /\ local'[w].cur = local[w].cur
           /\ \/ step[local[w].cur].attempt < step'[local[w].cur].attempt
              \/ StepsLeft(pc'[w]) < StepsLeft(pc[w])

(* A thread inside the engine never goes round in a circle: each of its      *)
(* steps advances, and no step of another thread takes an attempt back.  As  *)
(* there are N steps and at most MaxRetries + 1 attempts of each, it can     *)
(* take only so many.                                                        *)
CallsAdvance ==
  [][/\ \A s \in Steps : step[s].attempt <= step'[s].attempt
     /\ \A w \in Workers : pc[w] # "idle" =>
          \/ pc'[w] = pc[w] /\ local'[w] = local[w]
          \/ Advances(w)]_vars

(* The attempts of a step only grow, and only where it is re-pended.         *)
LEMMA AttemptsGrow ==
  ASSUME IInv, Next, NEW s \in Steps
  PROVE  /\ step[s].attempt <= step'[s].attempt
         /\ \/ step'[s].attempt = step[s].attempt
            \/ run'.status = "pending"
<1>0. /\ step \in [Steps -> StepType] /\ run \in RunType /\ step[s] \in StepType
      /\ step[s].attempt \in Nat
  BY DEF IInv, TypeOK, StepType
<1> DEFINE Same == step'[s].attempt = step[s].attempt
<1>1. CASE Same
  BY <1>0, <1>1
<1>2. ASSUME NEW r, NEW due, Repend(r, due)
      PROVE  /\ step[s].attempt <= step'[s].attempt
             /\ run'.status = "pending"
  <2>1. run'.status = "pending"
    BY <1>0, <1>2 DEF Repend, RunTo, RunType
  <2>2. step' = [step EXCEPT ![r].status = "pending", ![r].attempt = @ + 1, ![r].due = due]
    BY <1>2 DEF Repend
  <2>3. CASE r # s
    BY <1>0, <2>1, <2>2, <2>3
  <2>4. CASE r = s
    <3>1. step'[s] = [step[s] EXCEPT !.status = "pending", !.attempt = @ + 1, !.due = due]
      BY <1>0, <2>2, <2>4
    <3>2. step'[s].attempt = step[s].attempt + 1
      BY <1>0, <3>1 DEF StepType
    <3> QED
      BY <1>0, <2>1, <3>2
  <2> QED
    BY <2>3, <2>4
<1>3. ASSUME NEW r, NEW status, StepTo(r, status) PROVE Same
  BY <1>0, <1>3 DEF StepTo, StepType
<1>4. ASSUME NEW r, FailStep(r) PROVE Same
  BY <1>0, <1>4 DEF FailStep, StepType
<1>5. ASSUME NEW w \in Workers, WorkerStep(w)
      PROVE  Same \/ (\E r, due : Repend(r, due))
  <2>1. CASE ReadRun(w) \/ CheckStep(w) \/ CheckApproval(w) \/ Execute(w) \/ Cancel(w)
    BY <2>1 DEF ReadRun, CheckStep, CheckApproval, Execute, Cancel
  <2>2. CASE Refuse(w) \/ GiveUp(w)
    BY <2>2, <1>4 DEF Refuse, GiveUp
  <2>3. CASE RequestApproval(w) \/ CompleteStep(w)
    BY <2>3, <1>3 DEF RequestApproval, CompleteStep
  <2>4. CASE Recover(w) \/ Retry(w)
    BY <2>4, <1>3 DEF Recover, Retry
  <2>5. CASE ClaimStep(w)
    BY <1>0, <2>5 DEF ClaimStep, StepType
  <2> QED
    BY <1>5, <2>1, <2>2, <2>3, <2>4, <2>5 DEF WorkerStep
<1>6. ASSUME NEW w \in Workers, Start(w) \/ ReadToCancel(w) \/ StoreRaises(w) \/ Crash(w)
      PROVE  Same
  BY <1>6 DEF Start, ReadToCancel, StoreRaises, Crash
<1>7. ASSUME NEW w \in Workers, NEW r \in Steps, NEW d, NEW level, Decide(w, r, d, level)
      PROVE  Same
  BY <1>7, <1>3 DEF Decide
<1>8. ASSUME NEW r \in Steps, LeaseExpires(r) \/ BackoffEnds(r) PROVE Same
  BY <1>0, <1>8 DEF LeaseExpires, BackoffEnds, StepType
<1>9. CASE Clear
  BY <1>1, <1>9 DEF Clear
<1> QED
  BY <1>1, <1>2, <1>5, <1>6, <1>7, <1>8, <1>9 DEF Next

(* A run that is running after a step was claimed by it, or was running      *)
(* before at the same step.                                                  *)
LEMMA RunningMoves ==
  ASSUME IInv, Next, run'.status = "running"
  PROVE  \/ run' = run
         \/ \E w \in Workers : ClaimStep(w) /\ Claimable(local[w].cur)
<1>0. run \in RunType
  BY DEF IInv, TypeOK
<1>1. ASSUME NEW status, RunTo(status) PROVE run'.status = status
  BY <1>0, <1>1 DEF RunTo, RunType
<1>2. ASSUME NEW w \in Workers, WorkerStep(w), ~ ClaimStep(w) PROVE run' = run
  <2>1. CASE ReadRun(w) \/ CheckStep(w) \/ CheckApproval(w) \/ Execute(w)
    BY <2>1 DEF ReadRun, CheckStep, CheckApproval, Execute
  <2>2. CASE Refuse(w) \/ GiveUp(w)
    BY <1>1, <2>2 DEF Refuse, GiveUp, FailStep
  <2>3. CASE RequestApproval(w) \/ Cancel(w)
    BY <1>1, <2>3 DEF RequestApproval, Cancel
  <2>4. CASE Recover(w) \/ Retry(w)
    BY <1>1, <2>4 DEF Recover, Retry, Repend
  <2>5. CASE CompleteStep(w)
    BY <2>5 DEF CompleteStep
  <2> QED
    BY <1>2, <2>1, <2>2, <2>3, <2>4, <2>5 DEF WorkerStep
<1>3. ASSUME NEW w \in Workers, ClaimStep(w)
      PROVE  run' = run \/ Claimable(local[w].cur)
  BY <1>3 DEF ClaimStep
<1>4. ASSUME NEW w \in Workers, Start(w) \/ ReadToCancel(w) \/ StoreRaises(w) \/ Crash(w)
      PROVE  run' = run
  BY <1>0, <1>4 DEF Start, ReadToCancel, StoreRaises, Crash, RunType
<1>5. ASSUME NEW w \in Workers, NEW s \in Steps, NEW d, NEW level, Decide(w, s, d, level)
      PROVE  run' = run
  BY <1>1, <1>5 DEF Decide
<1>6. CASE Clear
  BY <1>0, <1>6 DEF Clear, RunType
<1>7. ASSUME NEW s \in Steps, LeaseExpires(s) \/ BackoffEnds(s) PROVE run' = run
  BY <1>7 DEF LeaseExpires, BackoffEnds
<1> QED
  BY <1>2, <1>3, <1>4, <1>5, <1>6, <1>7 DEF Next

(* Only its own steps move a thread.                                         *)
OthersUnmoved(w) ==
  \A v \in Workers \ {w} : pc'[v] = pc[v] /\ local'[v] = local[v]

LEMMA OneThreadMoves ==
  ASSUME TypeOK, Next
  PROVE  \/ UNCHANGED <<pc, local>>
         \/ \E w \in Workers :
              /\ OthersUnmoved(w)
              /\ \/ WorkerStep(w) \/ Start(w) \/ ReadToCancel(w) \/ StoreRaises(w) \/ Crash(w)
                 \/ pc[w] = "idle"
<1>0. pc \in [Workers -> PCs] /\ local \in [Workers -> LocalType]
  BY DEF TypeOK
<1>1. ASSUME NEW w \in Workers, WorkerStep(w) PROVE OthersUnmoved(w)
  <2>1. CASE ReadRun(w) \/ Refuse(w) \/ Recover(w) \/ CheckStep(w) \/ CheckApproval(w)
    BY <1>0, <2>1 DEF OthersUnmoved, ReadRun, Refuse, Recover, CheckStep, CheckApproval,
       Leave, Keep, At
  <2>2. CASE RequestApproval(w) \/ ClaimStep(w) \/ Execute(w) \/ CompleteStep(w)
    BY <1>0, <2>2 DEF OthersUnmoved, RequestApproval, ClaimStep, Execute, CompleteStep,
       Leave, Keep, At
  <2>3. CASE Retry(w) \/ GiveUp(w) \/ Cancel(w)
    BY <1>0, <2>3 DEF OthersUnmoved, Retry, GiveUp, Cancel, Leave, Keep, At
  <2> QED
    BY <1>1, <2>1, <2>2, <2>3 DEF WorkerStep
<1>2. ASSUME NEW w \in Workers, Start(w) \/ ReadToCancel(w) \/ StoreRaises(w) \/ Crash(w)
      PROVE  OthersUnmoved(w)
  BY <1>0, <1>2 DEF OthersUnmoved, Start, ReadToCancel, StoreRaises, Crash, Leave, Keep, At
<1>3. ASSUME NEW w \in Workers, NEW s \in Steps, NEW d, NEW level, Decide(w, s, d, level)
      PROVE  OthersUnmoved(w) /\ pc[w] = "idle"
  BY <1>0, <1>3 DEF OthersUnmoved, Decide, At
<1> QED
  BY <1>1, <1>2, <1>3 DEF Next, Clear, LeaseExpires, BackoffEnds

(* The holder of the attempt keeps it until it reports, and its report moves *)
(* the run.                                                                  *)
LEMMA HolderReports ==
  ASSUME IInv, ~ Faults, NEW w \in Workers, HoldsAttempt(w),
         \/ WorkerStep(w) \/ Start(w) \/ ReadToCancel(w) \/ StoreRaises(w) \/ Crash(w)
         \/ pc[w] = "idle",
         run.status = "running", run' = run,
         step'[run.cur].attempt = step[run.cur].attempt
  PROVE  HoldsAttempt(w)' \/ claims'[run.cur].lost
<1>0. /\ TypeOK /\ run \in RunType /\ local[w] \in LocalType
      /\ pc[w] \in Claimed /\ local[w].cur = run.cur
      /\ local[w].attempt = step[run.cur].attempt
  BY DEF IInv, TypeOK, HoldsAttempt, Holds
<1>1. run.cur \in Steps /\ step[run.cur].status = "running"
  BY AtStep DEF Terminal, NoRun
<1>2. Completable(run.cur) /\ Failable(run.cur)
  BY <1>1 DEF Completable, Failable, Executable
<1>3. ASSUME NEW status, RunTo(status) PROVE run'.version # run.version
  <2>1. run'.version = run.version + 1 /\ run.version \in Nat
    BY <1>0, <1>3 DEF RunTo, RunType
  <2> QED
    BY <2>1
<1>4. ~ CompleteStep(w)
  <2> SUFFICES ASSUME CompleteStep(w) PROVE FALSE
    OBVIOUS
  <2>1. run'.version = run.version + 1 /\ run.version \in Nat
    BY <1>0, <1>2 DEF CompleteStep, RunType
  <2> QED
    BY <2>1
<1>5. ~ GiveUp(w)
  BY <1>0, <1>2, <1>3 DEF GiveUp, FailStep
<1>6. ~ Retry(w)
  <2> SUFFICES ASSUME Retry(w) PROVE FALSE
    OBVIOUS
  <2>1. Retriable(w, run.cur)
    BY <1>0, <1>2 DEF Retry, Retriable
  <2> QED
    BY <1>0, <1>3, <2>1 DEF Retry, Repend
<1>10. CASE StoreRaises(w)
  <2>1. claims \in [Steps -> ClaimType]
    BY <1>0 DEF TypeOK
  <2>2. claims' = [claims EXCEPT ![run.cur].lost = TRUE]
    BY <1>0, <1>10 DEF StoreRaises, Claimed
  <2>3. claims'[run.cur] = [claims[run.cur] EXCEPT !.lost = TRUE]
    BY <1>1, <2>1, <2>2
  <2> QED
    BY <1>1, <2>1, <2>3 DEF ClaimType
<1>7. ~ StoreRaises(w) => Execute(w)
  BY <1>0, <1>4, <1>5, <1>6 DEF WorkerStep, ReadRun, Refuse, Recover, CheckStep, CheckApproval,
     RequestApproval, ClaimStep, Cancel, Start, ReadToCancel, Crash, Claimed
<1>8. CASE At(w, "returned") /\ local' = local
  <2>1. pc'[w] = "returned" /\ local'[w] = local[w]
    BY <1>0, <1>8, AtFacts DEF TypeOK, PCs
  <2> QED
    BY <1>0, <2>1 DEF HoldsAttempt, Holds, Claimed
<1>9. ASSUME NEW class \in Classes, Keep(w, "raised", [local[w] EXCEPT !.error = class])
      PROVE  HoldsAttempt(w)'
  <2>1. PICK l : l = [local[w] EXCEPT !.error = class]
    OBVIOUS
  <2>2. l \in LocalType /\ l.cur = local[w].cur /\ l.attempt = local[w].attempt
    BY <1>0, <2>1 DEF LocalType
  <2>3. pc'[w] = "raised" /\ local'[w] = l
    BY <1>0, <1>9, <2>1, <2>2, KeepFacts DEF TypeOK, PCs
  <2> QED
    BY <1>0, <2>2, <2>3 DEF HoldsAttempt, Holds, Claimed
<1> QED
  BY <1>7, <1>8, <1>9, <1>10 DEF Execute

(* The claimer of a step holds its attempt.                                  *)
LEMMA ClaimerHolds ==
  ASSUME IInv, NEW w \in Workers, ClaimStep(w), Claimable(local[w].cur)
  PROVE  HoldsAttempt(w)'
<1>0. PICK s : s = local[w].cur
  OBVIOUS
<1>1. /\ TypeOK /\ run \in RunType /\ s = run.cur
      /\ run.status \in Executable /\ step[s].status = "pending"
  BY <1>0 DEF IInv, TypeOK, Claimable
<1>2. s \in Steps
  BY <1>1, AtStep DEF Executable, Terminal, NoRun
<1>3. /\ step' = [step EXCEPT ![s].status = "running", ![s].due = TRUE, ![s].stale = FALSE]
      /\ RunTo("running")
      /\ Keep(w, "executing", [LocalOf(run') EXCEPT !.attempt = step[s].attempt])
  BY <1>0, <1>1 DEF ClaimStep
<1>4. step[s] \in StepType /\ step'[s].attempt = step[s].attempt /\ step[s].attempt \in Nat
  BY <1>1, <1>2, <1>3 DEF TypeOK, StepType
<1>5. run' \in RunType /\ run'.cur = s
  BY <1>1, <1>3, RunToFacts DEF Executable
<1>6. PICK l : l = [LocalOf(run') EXCEPT !.attempt = step[s].attempt]
  OBVIOUS
<1>7. l \in LocalType /\ l.cur = s /\ l.attempt = step[s].attempt
  BY <1>4, <1>5, <1>6 DEF LocalOf, LocalType, RunType
<1>8. pc'[w] = "executing" /\ local'[w] = l
  BY <1>1, <1>3, <1>6, <1>7, KeepFacts DEF TypeOK, PCs
<1> QED
  BY <1>4, <1>5, <1>7, <1>8 DEF HoldsAttempt, Holds, Claimed

(* The mark of a lost attempt stays until the step is claimed again.         *)
LEMMA LostStays ==
  ASSUME IInv, Next, NEW s \in Steps, claims[s].lost,
         ~ \E w \in Workers : ClaimStep(w) /\ Claimable(local[w].cur)
  PROVE  claims'[s].lost
<1>0. TypeOK
  BY DEF IInv
<1>1. ASSUME NEW w \in Workers, WorkerStep(w) PROVE claims' = claims
  <2>1. CASE ClaimStep(w)
    BY <2>1 DEF ClaimStep
  <2>2. CASE ReadRun(w) \/ Refuse(w) \/ Recover(w) \/ CheckStep(w) \/ CheckApproval(w)
    BY <2>2 DEF ReadRun, Refuse, Recover, CheckStep, CheckApproval
  <2>3. CASE RequestApproval(w) \/ Execute(w) \/ CompleteStep(w) \/ Retry(w) \/ GiveUp(w) \/ Cancel(w)
    BY <2>3 DEF RequestApproval, Execute, CompleteStep, Retry, GiveUp, Cancel
  <2> QED
    BY <1>1, <2>1, <2>2, <2>3 DEF WorkerStep
<1>2. ASSUME NEW w \in Workers, StoreRaises(w) PROVE claims'[s].lost
  <2>1. claims \in [Steps -> ClaimType]
    BY <1>0 DEF TypeOK
  <2>2. claims[s] \in ClaimType
    BY <2>1
  <2>3. ASSUME NEW q, claims' = [claims EXCEPT ![q].lost = TRUE] PROVE claims'[s].lost
    <3>1. claims'[s] = claims[s] \/ claims'[s] = [claims[s] EXCEPT !.lost = TRUE]
      BY <2>1, <2>3
    <3>2. [claims[s] EXCEPT !.lost = TRUE].lost = TRUE
      BY <2>2 DEF ClaimType
    <3> QED
      BY <3>1, <3>2, Zenon
  <2> QED
    BY <1>2, <2>3 DEF StoreRaises
<1>3. ASSUME NEW w \in Workers, Start(w) \/ ReadToCancel(w) \/ Crash(w) PROVE claims' = claims
  BY <1>3 DEF Start, ReadToCancel, Crash
<1>4. ASSUME NEW w \in Workers, NEW r \in Steps, NEW d, NEW level, Decide(w, r, d, level)
      PROVE  claims' = claims
  BY <1>4 DEF Decide
<1> QED
  BY <1>1, <1>2, <1>3, <1>4 DEF Next, Clear, LeaseExpires, BackoffEnds

(* Without faults the attempt under way is always held by somebody, or its   *)
(* thread left on an error its caller saw.                                   *)
THEOREM HeldTheorem == Spec => []AttemptsAreHeld
<1>1. Init => AttemptsAreHeld
  BY DEF Init, AttemptsAreHeld
<1>2. ASSUME IInv, AttemptsAreHeld, Next, ~ Faults, run'.status = "running"
      PROVE  (\E w \in Workers : HoldsAttempt(w)') \/ claims'[run'.cur].lost
  <2>1. CASE \E w \in Workers : ClaimStep(w) /\ Claimable(local[w].cur)
    BY <1>2, <2>1, ClaimerHolds
  <2>3. CASE run' = run /\ claims[run.cur].lost
    <3>1. run.cur \in Steps
      BY <1>2, <2>3, AtStep DEF Terminal, NoRun
    <3> QED
      BY <1>2, <2>1, <2>3, <3>1, LostStays
  <2>2. CASE run' = run /\ ~ claims[run.cur].lost
    <3>1. PICK w \in Workers : HoldsAttempt(w)
      BY <1>2, <2>2 DEF AttemptsAreHeld
    <3>2. run.cur \in Steps /\ run.status = "running" /\ TypeOK
      BY <1>2, <2>2, AtStep DEF Terminal, NoRun, IInv
    <3>3. step'[run.cur].attempt = step[run.cur].attempt
      BY <1>2, <3>2, AttemptsGrow
    <3>4. CASE pc'[w] = pc[w] /\ local'[w] = local[w]
      BY <2>2, <3>1, <3>3, <3>4 DEF HoldsAttempt, Holds
    <3>5. CASE ~ (pc'[w] = pc[w] /\ local'[w] = local[w])
      <4>1. \/ WorkerStep(w) \/ Start(w) \/ ReadToCancel(w) \/ StoreRaises(w) \/ Crash(w)
            \/ pc[w] = "idle"
        BY <1>2, <3>2, <3>5, OneThreadMoves DEF OthersUnmoved
      <4> QED
        BY <1>2, <2>2, <3>1, <3>2, <3>3, <4>1, HolderReports
    <3> QED
      BY <3>4, <3>5
  <2> QED
    BY <1>2, <2>1, <2>2, <2>3, RunningMoves
<1>3. IInv /\ AttemptsAreHeld /\ [Next]_vars => AttemptsAreHeld'
  <2>1. CASE UNCHANGED vars
    BY <2>1 DEF AttemptsAreHeld, HoldsAttempt, Holds, vars
  <2>2. IInv /\ AttemptsAreHeld /\ Next => AttemptsAreHeld'
    BY <1>2 DEF AttemptsAreHeld
  <2> QED
    BY <2>1, <2>2
<1> QED
  BY <1>1, <1>3, InductiveInvariant, PTL DEF Spec

(* A step of a thread advances it.                                           *)
LEMMA ThreadAdvances ==
  ASSUME IInv, Next, NEW w \in Workers, pc[w] # "idle",
         WorkerStep(w) \/ Start(w) \/ ReadToCancel(w) \/ StoreRaises(w) \/ Crash(w)
  PROVE  Advances(w)
<1>0. /\ TypeOK /\ run \in RunType /\ local[w] \in LocalType /\ WorkerInv(w)
      /\ pc \in [Workers -> PCs] /\ local \in [Workers -> LocalType]
  BY DEF IInv, TypeOK
<1>1. ASSUME Leave(w) PROVE Advances(w)
  BY <1>0, <1>1, LeaveFacts DEF Advances
<1>2. ASSUME NEW p \in PCs, At(w, p), local' = local, p # "reading",
             StepsLeft(p) < StepsLeft(pc[w])
      PROVE  Advances(w)
  BY <1>0, <1>2, AtFacts DEF Advances
<1>3. CASE ReadRun(w)
  <2>1. pc[w] = "reading" /\ pc'[w] # "reading"
    BY <1>0, <1>3 DEF ReadRun, Leave, Keep, At
  <2> QED
    BY <2>1 DEF Advances
<1>4. CASE \/ Refuse(w) \/ RequestApproval(w) \/ GiveUp(w) \/ Cancel(w)
           \/ StoreRaises(w) \/ Crash(w)
  BY <1>1, <1>4 DEF Refuse, RequestApproval, GiveUp, Cancel, StoreRaises, Crash
<1>5. CASE Recover(w)
  <2>1. CASE Leave(w)
    BY <1>1, <2>1
  <2>2. CASE /\ LeaseLost /\ Repend(run.cur, TRUE)
             /\ Keep(w, "checking", LocalOf(run'))
    <3>1. run.cur \in Steps
      BY <2>2, AtStep DEF LeaseLost, Terminal, NoRun
    <3>2. /\ run' \in RunType /\ run'.cur = run.cur
          /\ step'[run.cur].attempt = step[run.cur].attempt + 1
      BY <1>0, <2>2, <3>1, RependFacts DEF TypeOK
    <3>3. PICK l : l = LocalOf(run')
      OBVIOUS
    <3>4. l \in LocalType /\ l.cur = run.cur
      BY <3>2, <3>3, LocalOfFacts
    <3>5. pc'[w] = "checking" /\ local'[w] = l
      BY <1>0, <2>2, <3>3, <3>4, KeepFacts DEF PCs
    <3>6. /\ local[w].cur <= run.cur /\ local[w].cur \in Int /\ run.cur \in Int
          /\ step[run.cur].attempt \in Nat
      BY <1>0, <3>1 DEF WorkerInv, Fits, LocalType, RunType, TypeOK, StepType
    <3>7. CASE local[w].cur < run.cur
      BY <3>4, <3>5, <3>7 DEF Advances
    <3>8. CASE local[w].cur = run.cur
      <4>1. step[local[w].cur].attempt < step'[local[w].cur].attempt
        BY <3>2, <3>6, <3>8
      <4> QED
        BY <3>4, <3>5, <3>8, <4>1 DEF Advances
    <3> QED
      BY <3>6, <3>7, <3>8
  <2> QED
    BY <1>5, <2>1, <2>2 DEF Recover
<1>6. CASE CheckStep(w)
  <2>1. pc[w] = "checking"
    BY <1>6 DEF CheckStep
  <2>2. \/ Leave(w)
        \/ \E p \in {"unresolved", "asking", "claiming"} : At(w, p) /\ local' = local
    BY <1>6 DEF CheckStep
  <2> QED
    BY <1>1, <1>2, <2>1, <2>2 DEF StepsLeft, PCs
<1>7. CASE CheckApproval(w)
  <2>1. pc[w] = "asking"
    BY <1>7 DEF CheckApproval
  <2>2. \/ Leave(w)
        \/ \E p \in {"requesting", "claiming"} : At(w, p) /\ local' = local
    BY <1>7 DEF CheckApproval
  <2> QED
    BY <1>1, <1>2, <2>1, <2>2 DEF StepsLeft, PCs
<1>8. CASE ClaimStep(w)
  <2>1. CASE Leave(w)
    BY <1>1, <2>1
  <2>2. CASE Claimable(local[w].cur)
    <3>0. PICK s : s = local[w].cur
      OBVIOUS
    <3>1. /\ pc[w] = "claiming" /\ RunTo("running") /\ s = run.cur
          /\ run.status \in Executable
          /\ Keep(w, "executing", [LocalOf(run') EXCEPT !.attempt = step[s].attempt])
      BY <1>8, <2>2, <3>0 DEF ClaimStep, Claimable
    <3>2. s \in Steps /\ step[s].attempt \in Nat
      BY <1>0, <3>1, AtStep DEF Executable, Terminal, NoRun, TypeOK, StepType
    <3>3. run' \in RunType /\ run'.cur = s
      BY <1>0, <3>1, RunToFacts DEF Executable
    <3>4. PICK l : l = [LocalOf(run') EXCEPT !.attempt = step[s].attempt]
      OBVIOUS
    <3>5. l \in LocalType /\ l.cur = s
      BY <3>2, <3>3, <3>4 DEF LocalOf, LocalType, RunType
    <3>6. pc'[w] = "executing" /\ local'[w] = l
      BY <1>0, <3>1, <3>4, <3>5, KeepFacts DEF PCs
    <3> QED
      BY <3>0, <3>1, <3>5, <3>6 DEF Advances, StepsLeft
  <2> QED
    BY <1>8, <2>1, <2>2 DEF ClaimStep
<1>9. CASE Execute(w)
  <2>1. pc[w] = "executing"
    BY <1>9 DEF Execute
  <2>2. CASE At(w, "returned") /\ local' = local
    BY <1>2, <2>1, <2>2 DEF StepsLeft, PCs
  <2>3. ASSUME NEW class \in Classes, Keep(w, "raised", [local[w] EXCEPT !.error = class])
        PROVE  Advances(w)
    <3>1. PICK l : l = [local[w] EXCEPT !.error = class]
      OBVIOUS
    <3>2. l \in LocalType /\ l.cur = local[w].cur
      BY <1>0, <3>1 DEF LocalType
    <3>3. pc'[w] = "raised" /\ local'[w] = l
      BY <1>0, <2>3, <3>1, <3>2, KeepFacts DEF PCs
    <3> QED
      BY <2>1, <3>2, <3>3 DEF Advances, StepsLeft
  <2> QED
    BY <1>9, <2>2, <2>3 DEF Execute
<1>10. CASE CompleteStep(w)
  <2>0. PICK s : s = local[w].cur
    OBVIOUS
  <2>1. CASE Leave(w)
    BY <1>1, <2>1
  <2>2. CASE /\ Completable(s) /\ Keep(w, "checking", LocalOf(run'))
             /\ run' = [status |-> IF s + 1 = N THEN "succeeded" ELSE "pending",
                        cur |-> s + 1, version |-> run.version + 1]
    <3>1. pc[w] \notin Outside
      BY <1>10, Places DEF CompleteStep
    <3>2. s \in Steps
      BY <1>0, <2>0, <3>1 DEF WorkerInv, Fits
    <3>3. s \in Nat /\ s < N /\ N \in Nat /\ run.version \in Nat
      BY <1>0, <3>2, DefinitionAssumption DEF Steps, RunType
    <3>4. run' \in RunType /\ run'.cur = s + 1
      BY <2>2, <3>3 DEF RunType, Executable, Terminal
    <3>5. PICK l : l = LocalOf(run')
      OBVIOUS
    <3>6. l \in LocalType /\ l.cur = s + 1
      BY <3>4, <3>5, LocalOfFacts
    <3>7. pc'[w] = "checking" /\ local'[w] = l
      BY <1>0, <2>2, <3>5, <3>6, KeepFacts DEF PCs
    <3>8. local[w].cur < local'[w].cur
      BY <2>0, <3>3, <3>6, <3>7
    <3> QED
      BY <3>7, <3>8 DEF Advances
  <2> QED
    BY <1>10, <2>0, <2>1, <2>2 DEF CompleteStep
<1>11. CASE Retry(w)
  <2>0. PICK s : s = local[w].cur
    OBVIOUS
  <2>1. CASE Leave(w)
    BY <1>1, <2>1
  <2>2. CASE /\ Retriable(w, s) /\ Repend(s, s \notin Backoff)
             /\ Keep(w, "checking", LocalOf(run'))
    <3>1. pc[w] \notin Outside
      BY <1>11, Places DEF Retry
    <3>2. run.status = "running" /\ step[s].status = "running"
      BY <2>2 DEF Retriable, Completable
    <3>3. s \in Steps /\ s = run.cur
      BY <2>0, <3>1, <3>2, WritesCurrent DEF Executable
    <3>4. PICK due \in BOOLEAN : due = (s \notin Backoff)
      OBVIOUS
    <3>5. Repend(s, due)
      BY <2>2, <3>4
    <3>6. /\ run' \in RunType /\ run'.cur = s
          /\ step'[s].attempt = step[s].attempt + 1
      BY <1>0, <3>3, <3>5, RependFacts DEF TypeOK
    <3>7. PICK l : l = LocalOf(run')
      OBVIOUS
    <3>8. l \in LocalType /\ l.cur = s
      BY <3>6, <3>7, LocalOfFacts
    <3>9. pc'[w] = "checking" /\ local'[w] = l
      BY <1>0, <2>2, <3>7, <3>8, KeepFacts DEF PCs
    <3>10. step[s].attempt \in Nat
      BY <1>0, <3>3 DEF TypeOK, StepType
    <3>11. step[s].attempt < step'[s].attempt
      BY <3>6, <3>10
    <3> QED
      BY <2>0, <3>8, <3>9, <3>11 DEF Advances
  <2> QED
    BY <1>11, <2>0, <2>1, <2>2 DEF Retry
<1>12. CASE Start(w) \/ ReadToCancel(w)
  BY <1>12 DEF Start, ReadToCancel
<1> QED
  BY <1>3, <1>4, <1>5, <1>6, <1>7, <1>8, <1>9, <1>10, <1>11, <1>12 DEF WorkerStep

(* No thread goes round the loop for ever: each of its steps advances.       *)
THEOREM CallsAdvanceTheorem == Spec => CallsAdvance
<1>1. ASSUME IInv, Next, NEW w \in Workers, pc[w] # "idle"
      PROVE  (pc'[w] = pc[w] /\ local'[w] = local[w]) \/ Advances(w)
  BY <1>1, OneThreadMoves, ThreadAdvances DEF OthersUnmoved, IInv
<1>2. IInv /\ [Next]_vars =>
        [/\ \A s \in Steps : step[s].attempt <= step'[s].attempt
         /\ \A w \in Workers : pc[w] # "idle" =>
              \/ pc'[w] = pc[w] /\ local'[w] = local[w]
              \/ Advances(w)]_vars
  BY <1>1, AttemptsGrow
<1> QED
  BY <1>2, InductiveInvariant, PTL DEF Spec, CallsAdvance
=============================================================================
