----------------------------- MODULE AgentSession -----------------------------
(* One model-driven turn of a conversation: the agent loop asks the model,   *)
(* checks and runs the tools it calls, on worker threads, and asks again;    *)
(* the session appends every event of the loop to the log of the             *)
(* conversation before its consumer gets it.  The loop is a generator: it    *)
(* moves only when the consumer asks for the next event, and the consumer    *)
(* may close it.  The start, update and end of one message are one event.    *)
EXTENDS Naturals, Sequences, FiniteSets, Selection

CONSTANTS
  Tools,     \* what a model may name
  Known,     \* the tools that are registered
  Writers,   \* registered tools that run alone and need approval
  Chatty,    \* registered tools that report progress from a thread of their own
  MaxCalls,  \* max_tool_calls_per_turn
  MaxTurns,  \* max_turns
  Faults     \* BOOLEAN: appends fail, the process dies

ASSUME SessionAssumption ==
  /\ Known \subseteq Tools /\ Writers \subseteq Known /\ Chatty \subseteq Known
  /\ MaxCalls \in Nat \ {0} /\ MaxTurns \in Nat \ {0} /\ Faults \in BOOLEAN

VARIABLES
  pc,       \* where the loop is
  side,     \* who is to move: the loop, the session's append, the consumer
  pending,  \* the event the loop just yielded
  turn,     \* the turns begun
  calls,    \* the tools of the current answer
  at,       \* the call being announced, prepared, drained or recorded
  result,   \* what each call came to
  work,     \* the worker of each call
  report,   \* a chatty tool's progress report: none yet, on its way, queued
  queue,    \* the updates queue of the batch
  aborted,  \* the abort event
  log       \* the entries of the conversation: [turn, type, call]

loopVars == <<pc, side, pending, turn, calls, at>>
workVars == <<result, work, report, queue>>
vars == <<loopVars, workVars, aborted, log>>

Calls == 1..MaxCalls
Event(type, i) == [turn |-> turn, type |-> type, call |-> i]
NoEvent == [turn |-> 0, type |-> "none", call |-> 0]
Over == {"done", "failed", "closed", "crashed"}
Busy(i) == work[i] \in {"submitted", "running"}
Pooled == \E i \in Calls : Busy(i)

NoBatch ==
  /\ result' = [i \in Calls |-> "none"]
  /\ work' = [i \in Calls |-> "none"]
  /\ report' = [i \in Calls |-> "none"]
  /\ queue' = <<>>

Init ==
  /\ pc = "start" /\ side = "loop" /\ pending = NoEvent
  /\ turn = 0 /\ calls = <<>> /\ at = 0
  /\ result = [i \in Calls |-> "none"]
  /\ work = [i \in Calls |-> "none"]
  /\ report = [i \in Calls |-> "none"]
  /\ queue = <<>>
  /\ aborted = FALSE /\ log = <<>>

-----------------------------------------------------------------------------
(* The loop: the consumer asked for the next event, and gets it or not yet *)

At(place) == pc = place /\ side # "append"
Yield(e) == side' = "append" /\ pending' = e
Silent == side' = "loop" /\ UNCHANGED pending

Start ==
  /\ At("start")
  /\ Yield(Event("agent_start", 0)) /\ pc' = "turn"
  /\ UNCHANGED <<turn, calls, at, workVars, aborted, log>>

(* a run that was aborted, or has no turn left, raises *)
BeginTurn ==
  /\ At("turn")
  /\ IF aborted \/ turn = MaxTurns
     THEN pc' = "error" /\ Silent /\ UNCHANGED turn
     ELSE pc' = "ask" /\ turn' = turn + 1 /\ Yield([turn |-> turn', type |-> "turn_start", call |-> 0])
  /\ UNCHANGED <<calls, at, workVars, aborted, log>>

(* the entry of an answer remembers how many tools it calls *)
Ask ==
  /\ At("ask")
  /\ \E n \in 0..MaxCalls : \E cs \in [1..n -> Tools] :
       /\ calls' = cs /\ Yield(Event("answer", n))
       /\ pc' = IF n = 0 THEN "turn_end" ELSE "announce"
  /\ at' = 1
  /\ UNCHANGED <<turn, workVars, aborted, log>>

(* the provider fails, or answers what is no answer or calls too many tools *)
AskFails ==
  /\ At("ask")
  /\ pc' = "error" /\ Silent
  /\ UNCHANGED <<turn, calls, at, workVars, aborted, log>>

Announce ==
  /\ At("announce")
  /\ Yield(Event("tool_start", at)) /\ pc' = "prepare"
  /\ UNCHANGED <<turn, calls, at, workVars, aborted, log>>

(* _prepare: an unknown tool, invalid arguments, a refused preflight and an  *)
(* abort are results; anything else is left to the workers                   *)
Prepare ==
  /\ At("prepare")
  /\ \/ /\ result' = [result EXCEPT ![at] = "plain"]
        /\ Yield(Event("tool_end", at)) /\ UNCHANGED work
     \/ /\ calls[at] \in Known /\ ~aborted
        /\ work' = [work EXCEPT ![at] = "ready"]
        /\ Silent /\ UNCHANGED result
  /\ IF at = Len(calls) THEN pc' = "dispatch" /\ at' = 1 ELSE pc' = "announce" /\ at' = at + 1
  /\ UNCHANGED <<turn, calls, report, queue, aborted, log>>

Executable == {i \in 1..Len(calls) : work[i] # "none"}
Ready == {i \in Executable : work[i] = "ready"}

(* a variant that runs a batch in order only when all its tools ask for it *)
SequentialIfAll == \A i \in Executable : calls[i] \in Writers

(* one tool that must run alone makes the whole batch sequential *)
Sequential == \E i \in Executable : calls[i] \in Writers

(* the whole batch is submitted, or its next call *)
Dispatch ==
  /\ At("dispatch") /\ Ready # {}
  /\ \E i \in Ready :
       /\ \A j \in Ready : i <= j
       /\ at' = i
       /\ work' = [j \in Calls |-> IF j = i \/ (j \in Ready /\ ~Sequential) THEN "submitted" ELSE work[j]]
  /\ pc' = IF Sequential THEN "drain" ELSE "collect"
  /\ Silent
  /\ UNCHANGED <<turn, calls, result, report, queue, aborted, log>>

Dispatched ==
  /\ At("dispatch") /\ Ready = {}
  /\ pc' = "record" /\ at' = 1 /\ Silent
  /\ UNCHANGED <<turn, calls, workVars, aborted, log>>

Take == queue' = Tail(queue)

(* a variant that stops at the first result *)
CollectFirst ==
  /\ At("collect") /\ queue # <<>> /\ Take
  /\ LET m == Head(queue) IN
       /\ result' = IF m.kind = "done" THEN [result EXCEPT ![m.call] = m.value] ELSE result
       /\ Yield(Event(IF m.kind = "done" THEN "tool_end" ELSE "tool_update", m.call))
       /\ pc' = IF m.kind = "done" THEN "record" ELSE "collect"
  /\ at' = 1
  /\ UNCHANGED <<turn, calls, work, report, aborted, log>>

(* results in the order in which the workers conclude *)
Collect ==
  /\ At("collect") /\ queue # <<>> /\ Take
  /\ LET m == Head(queue) IN
       /\ result' = IF m.kind = "done" THEN [result EXCEPT ![m.call] = m.value] ELSE result
       /\ Yield(Event(IF m.kind = "done" THEN "tool_end" ELSE "tool_update", m.call))
  /\ pc' = IF \E i \in Executable : result'[i] = "none" THEN "collect" ELSE "record"
  /\ at' = 1
  /\ UNCHANGED <<turn, calls, work, report, aborted, log>>

(* _drain_one: a report of an earlier call is taken for a corrupted order *)
Drain ==
  /\ At("drain") /\ queue # <<>> /\ Take
  /\ LET m == Head(queue) IN
       \/ /\ m.call # at
          /\ pc' = "raise" /\ Silent /\ UNCHANGED result
       \/ /\ m.call = at /\ m.kind = "update"
          /\ Yield(Event("tool_update", at)) /\ UNCHANGED <<pc, result>>
       \/ /\ m.call = at /\ m.kind = "done"
          /\ result' = [result EXCEPT ![at] = m.value]
          /\ Yield(Event("tool_end", at)) /\ pc' = "dispatch"
  /\ UNCHANGED <<turn, calls, at, work, report, aborted, log>>

(* the transcript gets the results in the order of the calls *)
Record ==
  /\ At("record")
  /\ Yield(Event("result", at))
  /\ IF at = Len(calls) THEN pc' = "turn_end" /\ UNCHANGED at ELSE at' = at + 1 /\ UNCHANGED pc
  /\ UNCHANGED <<turn, calls, workVars, aborted, log>>

EndTurn ==
  /\ At("turn_end")
  /\ Yield(Event("turn_end", 0)) /\ pc' = "decide"
  /\ UNCHANGED <<turn, calls, at, workVars, aborted, log>>

(* a turn without tools, or all of whose results say so, is the last *)
Terminates == \A i \in 1..Len(calls) : result[i] = "stop"

(* the hook should_stop_after_turn may make any other turn the last, or fail *)
Conclude ==
  /\ At("decide")
  /\ Yield(Event("agent_end", 0)) /\ pc' = "finish"
  /\ UNCHANGED <<turn, calls, at, workVars, aborted, log>>

HookFails ==
  /\ At("decide")
  /\ pc' = "error" /\ Silent
  /\ UNCHANGED <<turn, calls, at, workVars, aborted, log>>

GoOn ==
  /\ At("decide") /\ ~Terminates
  /\ pc' = "turn" /\ Silent /\ calls' = <<>> /\ at' = 0 /\ NoBatch
  /\ UNCHANGED <<turn, aborted, log>>

(* the error is told by two events, then raised *)
Report ==
  /\ \/ At("error") /\ Yield(Event("error", 0)) /\ pc' = "give_up"
     \/ At("give_up") /\ Yield(Event("agent_end", 0)) /\ pc' = "fail"
  /\ UNCHANGED <<turn, calls, at, workVars, aborted, log>>

Return ==
  /\ \/ At("finish") /\ pc' = "done"
     \/ At("fail") /\ pc' = "failed"
  /\ UNCHANGED <<side, pending, turn, calls, at, workVars, aborted, log>>

(* a variant that leaves the workers to themselves *)
NoWait == TRUE

(* leaving the pool waits for what was submitted *)
PoolIsQuiet == ~Pooled

LeavePool ==
  /\ \/ At("raise") /\ pc' = "error"
     \/ At("closing") /\ pc' = "closed"
  /\ PoolIsQuiet /\ Silent
  /\ UNCHANGED <<turn, calls, at, workVars, aborted, log>>

-----------------------------------------------------------------------------
(* The session: an event is delivered once it is in the log *)

AppendEvent ==
  /\ side = "append"
  /\ log' = Append(log, pending)
  /\ side' = "consumer" /\ pending' = NoEvent
  /\ UNCHANGED <<pc, turn, calls, at, workVars, aborted>>

(* a variant that delivers what it could not write *)
AppendFailsUnheeded ==
  /\ Faults /\ side = "append"
  /\ side' = "consumer" /\ pending' = NoEvent
  /\ UNCHANGED <<pc, turn, calls, at, workVars, aborted, log>>

(* a busy database, a deleted conversation: the loop is closed *)
AppendFails ==
  /\ Faults /\ side = "append"
  /\ pc' = "closing" /\ side' = "loop" /\ pending' = NoEvent
  /\ UNCHANGED <<turn, calls, at, workVars, aborted, log>>

(* the consumer closes the generator *)
Abandon ==
  /\ side = "consumer" /\ pc \notin Over \cup {"closing"}
  /\ pc' = "closing" /\ side' = "loop"
  /\ UNCHANGED <<pending, turn, calls, at, workVars, aborted, log>>

Abort ==
  /\ ~aborted /\ pc \notin Over \cup {"start"}
  /\ aborted' = TRUE
  /\ UNCHANGED <<loopVars, workVars, log>>

Crash ==
  /\ Faults /\ pc \notin Over
  /\ pc' = "crashed" /\ side' = "loop" /\ pending' = NoEvent /\ NoBatch
  /\ UNCHANGED <<turn, calls, at, aborted, log>>

-----------------------------------------------------------------------------
(* _execute_worker, one thread per submitted call *)

Put(i, kind, v) == queue' = Append(queue, [call |-> i, kind |-> kind, value |-> v])

BeginTool(i) ==
  /\ work[i] = "submitted" /\ ~aborted
  /\ work' = [work EXCEPT ![i] = "running"]
  /\ UNCHANGED <<loopVars, result, report, queue, aborted, log>>

(* a variant whose worker ends without a word *)
SkipToolSilently(i) ==
  /\ work[i] = "submitted" /\ aborted
  /\ work' = [work EXCEPT ![i] = "finished"]
  /\ UNCHANGED <<loopVars, result, report, queue, aborted, log>>

SkipTool(i) ==
  /\ work[i] = "submitted" /\ aborted
  /\ work' = [work EXCEPT ![i] = "finished"] /\ Put(i, "done", "plain")
  /\ UNCHANGED <<loopVars, result, report, aborted, log>>

(* on_update looks at accepting_updates and then puts: the tool may end in   *)
(* between; one report for each call is a bound, a tool may send any number  *)
Accept(i) ==
  /\ work[i] = "running" /\ calls[i] \in Chatty /\ report[i] = "none"
  /\ report' = [report EXCEPT ![i] = "sent"]
  /\ UNCHANGED <<loopVars, result, work, queue, aborted, log>>

PutUpdate(i) ==
  /\ report[i] = "sent"
  /\ report' = [report EXCEPT ![i] = "queued"] /\ Put(i, "update", "none")
  /\ UNCHANGED <<loopVars, result, work, aborted, log>>

(* whatever the tool does, its worker hands in a result *)
FinishTool(i) ==
  /\ work[i] = "running"
  /\ work' = [work EXCEPT ![i] = "finished"]
  /\ \E v \in {"plain", "stop"} : Put(i, "done", v)
  /\ UNCHANGED <<loopVars, result, report, aborted, log>>

Loop ==
  \/ Start \/ BeginTurn \/ Ask \/ AskFails \/ Announce \/ Prepare \/ Dispatch \/ Dispatched
  \/ Collect \/ Drain \/ Record \/ EndTurn \/ Conclude \/ HookFails \/ GoOn \/ Report \/ Return \/ LeavePool

Session == AppendEvent \/ AppendFails
Worker(i) == BeginTool(i) \/ SkipTool(i) \/ FinishTool(i)

Next ==
  \/ Loop \/ Session \/ Abandon \/ Abort \/ Crash
  \/ \E i \in Calls : Worker(i) \/ Accept(i) \/ PutUpdate(i)

Spec == Init /\ [][Next]_vars

(* the consumer asks for the next event or closes, providers and tools       *)
(* return, worker threads are scheduled                                      *)
FairSpec == Spec /\ WF_vars(Loop) /\ WF_vars(Session) /\ \A i \in Calls : WF_vars(Worker(i))

-----------------------------------------------------------------------------
Logged(t, type, i) == \E k \in 1..Len(log) : log[k] = [turn |-> t, type |-> type, call |-> i]

(* No tool runs that the log does not announce: whatever dies afterwards, a  *)
(* reader of the log learns that the tool may have had its effect.           *)
RunsAreAnnounced ==
  \A i \in Calls : work[i] \in {"running", "finished"} => Logged(turn, "tool_start", i)

(* A tool that must run alone does: nothing else of its batch runs with it.  *)
WritersRunAlone ==
  \A i, j \in Calls :
    i # j /\ work[i] = "running" /\ work[j] = "running" => calls[i] \notin Writers

(* A run that ended, failed or was closed leaves no tool running behind it.  *)
NothingRunsOn == pc \in Over => ~Pooled

Count(t, type, i) == Cardinality({k \in 1..Len(log) : log[k] = [turn |-> t, type |-> type, call |-> i]})
Results(t) == Selected(log, {[turn |-> t, type |-> "result", call |-> i] : i \in Calls})

(* A turn that the log ends is whole: each call of its answer was announced  *)
(* once and ended once, and the transcript has one result for each, in the   *)
(* order of the calls and not in that of the workers.                        *)
EndedTurnsAreWhole ==
  \A t \in 1..turn : \A n \in 0..MaxCalls :
    Logged(t, "turn_end", 0) /\ Logged(t, "answer", n) =>
      /\ \A i \in 1..n : Count(t, "tool_start", i) = 1 /\ Count(t, "tool_end", i) = 1
      /\ Results(t) = [i \in 1..n |-> [turn |-> t, type |-> "result", call |-> i]]

(* Every run comes to an end, aborted or not, however its tools fail and     *)
(* whenever its consumer leaves.                                             *)
RunEnds == <>(pc \in Over)
=============================================================================
