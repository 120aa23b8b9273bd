------------------------- MODULE AgentSessionProofs -------------------------
(***************************************************************************)
(* Proofs about AgentSession for every set of tools, every bound of calls  *)
(* and turns, with and without faults.                                     *)
(*                                                                         *)
(* The inductive invariant follows a batch through the loop: it is fresh   *)
(* until it is announced (Fresh, Ahead), nothing is left to a worker the   *)
(* log does not announce (Telling, Told), a result is handed in by a       *)
(* worker that ended (Messages, HandedIn), and workers are busy only where *)
(* the loop waits for them (Pool), a writer alone (Alone).                 *)
(*                                                                         *)
(* Story adds what the loop told so far: the log of a turn counts one start *)
(* and one end for each call it has passed, and the results of the batch   *)
(* are those of the transcript.  It makes ended turns whole; and from both *)
(* follow the safety halves of RunEnds: the loop never waits for a word    *)
(* nobody will say, and each of its steps brings it nearer to its end.     *)
(***************************************************************************)
EXTENDS AgentSession, SelectionProofs

Waiting == {"collect", "drain", "raise", "closing"}
Places == {"start", "turn", "ask", "announce", "prepare", "dispatch", "record", "turn_end", "decide",
           "finish", "error", "give_up", "fail"} \cup Waiting \cup Over
Types == {"none", "agent_start", "turn_start", "answer", "tool_start", "tool_update", "tool_end", "result",
          "turn_end", "error", "agent_end"}
Entry == [turn : Nat, type : Types, call : Nat]
Message == [call : Calls, kind : {"update", "done"}, value : {"none", "plain", "stop"}]

Shapes ==
  /\ pc \in Places
  /\ side \in {"loop", "append", "consumer"}
  /\ pending \in Entry /\ log \in Seq(Entry)
  /\ turn \in Nat /\ at \in Nat
  /\ calls \in Seq(Tools) /\ Len(calls) <= MaxCalls
  /\ result \in [Calls -> {"none", "plain", "stop"}]
  /\ work \in [Calls -> {"none", "ready", "submitted", "running", "finished"}]
  /\ queue \in Seq(Message)

Untouched(i) == work[i] = "none" /\ result[i] = "none"
Fresh == pc \in {"start", "turn", "ask"} => \A i \in Calls : Untouched(i)
Ahead ==
  pc \in {"announce", "prepare"} =>
    at \in 1..Len(calls) /\ \A i \in Calls : i >= at => Untouched(i)

Told ==
  \A i \in Calls : work[i] # "none" => i <= Len(calls) /\ Logged(turn, "tool_start", i)
Telling ==
  pc = "prepare" =>
    IF side = "append" THEN pending = Event("tool_start", at) ELSE Logged(turn, "tool_start", at)

Messages == \A k \in 1..Len(queue) : queue[k].kind = "done" => work[queue[k].call] = "finished"
HandedIn == \A i \in Calls : result[i] # "none" => work[i] \in {"none", "finished"}

Pool ==
  /\ pc \notin Waiting => \A i \in Calls : ~Busy(i)
  /\ pc = "drain" => \A i \in Calls : Busy(i) => i = at
Alone == \A i, j \in Calls : i # j /\ Busy(i) /\ Busy(j) => calls[i] \notin Writers

IInv == Shapes /\ Fresh /\ Ahead /\ Told /\ Telling /\ Messages /\ HandedIn /\ Pool /\ Alone

-----------------------------------------------------------------------------
LEMMA InitInv == Init => IInv
<1> SUFFICES ASSUME Init PROVE IInv OBVIOUS
<1>1. Shapes
  <2>1. <<>> \in Seq(Entry) /\ <<>> \in Seq(Tools) /\ <<>> \in Seq(Message) OBVIOUS
  <2> QED BY <2>1, SessionAssumption DEF Init, Shapes, Places, NoEvent, Types, Entry, Waiting, Over
<1>2. Fresh /\ Ahead /\ Told /\ Telling /\ HandedIn /\ Alone
  BY DEF Init, Fresh, Ahead, Told, Telling, HandedIn, Alone, Untouched, Busy
<1>3. Messages BY DEF Init, Messages
<1>4. Pool BY DEF Init, Pool, Busy
<1> QED BY <1>1, <1>2, <1>3, <1>4 DEF IInv

(* a step that moves the loop and leaves the batch and the log alone *)
LEMMA MoveInv ==
  ASSUME IInv, UNCHANGED <<turn, calls, workVars, log>>,
         pc' \in Places, side' \in {"loop", "append", "consumer"}, pending' \in Entry, at' \in Nat,
         pc' \notin {"announce", "prepare"},
         pc' \in {"start", "turn", "ask"} => pc \in {"start", "turn", "ask"},
         pc' \notin Waiting => \A i \in Calls : ~Busy(i),
         pc' = "drain" => pc = "drain" /\ at' = at
  PROVE  IInv'
<1>1. UNCHANGED <<result, work, queue>> BY DEF workVars
<1>2. Shapes' BY <1>1 DEF IInv, Shapes
<1>3. Fresh' /\ Ahead' /\ Telling' BY <1>1 DEF IInv, Fresh, Ahead, Telling, Untouched
<1>4. Told' BY <1>1 DEF IInv, Told, Logged
<1>5. Messages' /\ HandedIn' /\ Alone' BY <1>1 DEF IInv, Messages, HandedIn, Alone, Busy
<1>6. Pool' BY <1>1 DEF IInv, Pool, Busy
<1> QED BY <1>2, <1>3, <1>4, <1>5, <1>6 DEF IInv

LEMMA Yields ==
  ASSUME IInv, NEW type \in Types, NEW i \in Nat
  PROVE  Event(type, i) \in Entry
BY DEF IInv, Shapes, Event, Entry

LEMMA Yielded ==
  ASSUME IInv
  PROVE  /\ Event("agent_start", 0) \in Entry /\ Event("result", at) \in Entry
         /\ Event("turn_end", 0) \in Entry /\ Event("agent_end", 0) \in Entry
         /\ Event("error", 0) \in Entry /\ Event("tool_start", at) \in Entry
         /\ Event("tool_end", at) \in Entry
BY DEF IInv, Shapes, Event, Entry, Types

LEMMA MovingInv ==
  ASSUME IInv, Start \/ AskFails \/ HookFails \/ Dispatched \/ Record \/ EndTurn \/ Conclude \/ Report
                     \/ Return \/ LeavePool
  PROVE  IInv'
<1> USE DEF At, Silent, Yield
<1>0. /\ pending \in Entry /\ at \in Nat /\ pc \in Places
      /\ side \in {"loop", "append", "consumer"}
      /\ pc \notin Waiting => \A i \in Calls : ~Busy(i)
  BY DEF IInv, Shapes, Pool
<1>1. CASE Start
  BY <1>0, <1>1, MoveInv, Yielded DEF Start, Places, Waiting
<1>2. CASE AskFails \/ HookFails
  BY <1>0, <1>2, MoveInv DEF AskFails, HookFails, Places, Waiting
<1>3. CASE Dispatched
  BY <1>0, <1>3, MoveInv DEF Dispatched, Places, Waiting
<1>4. CASE Record
  BY <1>0, <1>4, MoveInv, Yielded DEF Record, Places, Waiting
<1>5. CASE EndTurn
  BY <1>0, <1>5, MoveInv, Yielded DEF EndTurn, Places, Waiting
<1>6. CASE Conclude
  BY <1>0, <1>6, MoveInv, Yielded DEF Conclude, Places, Waiting
<1>7. CASE Report
  BY <1>0, <1>7, MoveInv, Yielded DEF Report, Places, Waiting
<1>8. CASE Return
  BY <1>0, <1>8, MoveInv DEF Return, Places, Waiting, Over
<1>9. CASE LeavePool
  <2>1. \A i \in Calls : ~Busy(i) BY <1>9 DEF LeavePool, PoolIsQuiet, Pooled
  <2> QED BY <1>0, <1>9, <2>1, MoveInv DEF LeavePool, Places, Waiting, Over
<1> QED BY <1>1, <1>2, <1>3, <1>4, <1>5, <1>6, <1>7, <1>8, <1>9

LEMMA LeavingInv == ASSUME IInv, AppendFails \/ Abandon PROVE IInv'
<1>1. NoEvent \in Entry BY DEF NoEvent, Types, Entry
<1>2. pending \in Entry /\ at \in Nat BY DEF IInv, Shapes
<1> QED BY <1>1, <1>2, MoveInv DEF AppendFails, Abandon, Places, Waiting, Over

LEMMA AbortInv == ASSUME IInv, Abort PROVE IInv'
BY DEF IInv, Abort, loopVars, workVars, Shapes, Fresh, Ahead, Told, Telling, Messages, HandedIn, Pool,
       Alone, Untouched, Busy, Logged, Event

-----------------------------------------------------------------------------
(* The turn and its answer *)

LEMMA BeginTurnInv == ASSUME IInv, BeginTurn PROVE IInv'
<1>0. pending \in Entry /\ at \in Nat /\ pc = "turn" /\ turn \in Nat
  BY DEF IInv, Shapes, BeginTurn, At
<1>1. CASE aborted \/ turn = MaxTurns
  <2>1. pc \notin Waiting => \A i \in Calls : ~Busy(i) BY DEF IInv, Pool
  <2> QED BY <1>0, <1>1, <2>1, MoveInv DEF BeginTurn, Silent, Places, Waiting
<1>2. CASE ~(aborted \/ turn = MaxTurns)
  <2>1. /\ pc' = "ask" /\ turn' = turn + 1 /\ side' = "append"
        /\ pending' = [turn |-> turn', type |-> "turn_start", call |-> 0]
        /\ UNCHANGED <<calls, at, result, work, queue, log>>
    BY <1>2 DEF BeginTurn, Yield, workVars
  <2>2. pending' \in Entry BY <1>0, <2>1 DEF Entry, Types
  <2>3. Shapes' BY <1>0, <2>1, <2>2 DEF IInv, Shapes, Places
  <2>4. \A j \in Calls : Untouched(j) BY <1>0 DEF IInv, Fresh
  <2>5. /\ Fresh' /\ Ahead' /\ Told' /\ Telling' /\ Messages' /\ HandedIn' /\ Pool' /\ Alone'
    BY <2>1, <2>4 DEF IInv, Fresh, Ahead, Told, Telling, Messages, HandedIn, Pool, Alone, Untouched, Busy
  <2> QED BY <2>3, <2>5 DEF IInv
<1> QED BY <1>1, <1>2

LEMMA AskInv == ASSUME IInv, Ask PROVE IInv'
<1>0. /\ pending \in Entry /\ pc = "ask" /\ turn \in Nat /\ at' = 1 /\ side' = "append"
      /\ UNCHANGED <<turn, result, work, queue, log>>
  BY DEF IInv, Shapes, Ask, At, Yield, workVars
<1>1. PICK n \in 0..MaxCalls : \E cs \in [1..n -> Tools] :
        /\ calls' = cs /\ pending' = Event("answer", n)
        /\ pc' = IF n = 0 THEN "turn_end" ELSE "announce"
  BY DEF Ask, Yield
<1>2. calls' \in [1..n -> Tools] BY <1>1
<1>3. n \in Nat /\ n <= MaxCalls BY SessionAssumption
<1>4. calls' \in Seq(Tools) /\ Len(calls') = n BY <1>2, <1>3
<1>5. pending' \in Entry BY <1>0, <1>1, <1>3 DEF Event, Entry, Types
<1>6. Shapes' BY <1>0, <1>1, <1>3, <1>4, <1>5 DEF IInv, Shapes, Places
<1>7. \A j \in Calls : Untouched(j) BY <1>0 DEF IInv, Fresh
<1>8. pc' \in {"turn_end", "announce"} BY <1>1
<1>9. Ahead' BY <1>0, <1>1, <1>3, <1>4, <1>7 DEF Ahead, Untouched
<1>10. Fresh' /\ Told' /\ Telling' /\ Messages' /\ HandedIn' /\ Pool' /\ Alone'
  BY <1>0, <1>7, <1>8 DEF IInv, Fresh, Told, Telling, Messages, HandedIn, Pool, Alone, Untouched, Busy
<1> QED BY <1>6, <1>9, <1>10 DEF IInv

LEMMA AnnounceInv == ASSUME IInv, Announce PROVE IInv'
<1>0. /\ pc = "announce" /\ pc' = "prepare" /\ side' = "append" /\ pending' = Event("tool_start", at)
      /\ UNCHANGED <<turn, calls, at, result, work, queue, log>>
  BY DEF Announce, At, Yield, workVars
<1>1. pending' \in Entry BY <1>0, Yielded
<1>2. Shapes' BY <1>0, <1>1 DEF IInv, Shapes, Places
<1>3. Fresh' /\ Ahead' /\ Told' /\ Messages' /\ HandedIn' /\ Alone'
  BY <1>0 DEF IInv, Fresh, Ahead, Told, Messages, HandedIn, Alone, Untouched, Busy, Logged
<1>4. Telling' BY <1>0 DEF Telling, Event
<1>5. Pool' BY <1>0 DEF IInv, Pool, Busy, Waiting
<1> QED BY <1>2, <1>3, <1>4, <1>5 DEF IInv

LEMMA QueuedCalls == ASSUME IInv PROVE \A k \in 1..Len(queue) : queue[k].call \in Calls
<1>1. queue \in Seq(Message) BY DEF IInv, Shapes
<1>2. \A k \in 1..Len(queue) : queue[k] \in Message BY <1>1
<1> QED BY <1>2 DEF Message

LEMMA PrepareInv == ASSUME IInv, Prepare PROVE IInv'
<1>0. /\ pc = "prepare" /\ side # "append" /\ UNCHANGED <<turn, calls, queue, log>>
      /\ pc' \in {"dispatch", "announce"}
  BY DEF Prepare, At
<1>1. /\ at \in 1..Len(calls) /\ \A i \in Calls : i >= at => Untouched(i)
  BY <1>0 DEF IInv, Ahead
<1>2. at \in Nat /\ Len(calls) \in Nat /\ Len(calls) <= MaxCalls /\ MaxCalls \in Nat
  BY SessionAssumption DEF IInv, Shapes
<1>3. at \in Calls BY <1>1, <1>2 DEF Calls
<1>4. Logged(turn, "tool_start", at) BY <1>0 DEF IInv, Telling
<1>5. \/ /\ result' = [result EXCEPT ![at] = "plain"] /\ UNCHANGED work
         /\ side' = "append" /\ pending' = Event("tool_end", at)
      \/ /\ work' = [work EXCEPT ![at] = "ready"] /\ UNCHANGED <<result, pending>> /\ side' = "loop"
  BY DEF Prepare, Yield, Silent
<1>6. /\ result' \in [Calls -> {"none", "plain", "stop"}]
      /\ work' \in [Calls -> {"none", "ready", "submitted", "running", "finished"}]
      /\ \A i \in Calls : i # at => work'[i] = work[i] /\ result'[i] = result[i]
      /\ work'[at] \in {"none", "ready"} /\ (work'[at] = "ready" => result'[at] = "none")
  BY <1>1, <1>3, <1>5 DEF IInv, Shapes, Untouched
<1>7. pending' \in Entry /\ side' \in {"loop", "append"}
  BY <1>5, Yielded DEF IInv, Shapes
<1>8. \/ pc' = "dispatch" /\ at' = 1
      \/ pc' = "announce" /\ at' = at + 1 /\ at # Len(calls)
  BY DEF Prepare
<1>9. Shapes' BY <1>0, <1>2, <1>6, <1>7, <1>8 DEF IInv, Shapes, Places
<1>10. Ahead'
  <2> SUFFICES ASSUME pc' = "announce"
               PROVE  at' \in 1..Len(calls) /\ \A i \in Calls : i >= at' => Untouched(i)'
    BY <1>0 DEF Ahead
  <2>1. at' = at + 1 /\ at # Len(calls) BY <1>8
  <2>2. at' \in 1..Len(calls) BY <1>1, <1>2, <2>1
  <2>3. ASSUME NEW i \in Calls, i >= at' PROVE i # at /\ i >= at BY <1>2, <2>1, <2>3 DEF Calls
  <2> QED BY <1>1, <1>6, <2>2, <2>3 DEF Untouched
<1>11. Told' BY <1>0, <1>1, <1>2, <1>4, <1>6 DEF IInv, Told, Logged
<1>12. \A k \in 1..Len(queue) : queue[k].call \in Calls BY QueuedCalls
<1>13. work[at] = "none" BY <1>1, <1>2, <1>3 DEF Untouched, Calls
<1>14. Messages' BY <1>0, <1>6, <1>12, <1>13 DEF IInv, Messages
<1>15. Fresh' /\ Telling' BY <1>0 DEF Fresh, Telling
<1>16. HandedIn' BY <1>6 DEF IInv, HandedIn
<1>17. \A i \in Calls : ~Busy(i)' BY <1>0, <1>6 DEF IInv, Pool, Waiting, Busy
<1>18. Pool' /\ Alone' BY <1>17, <1>0 DEF Pool, Alone, Waiting
<1> QED BY <1>9, <1>10, <1>11, <1>14, <1>15, <1>16, <1>18 DEF IInv

-----------------------------------------------------------------------------
(* The batch *)

LEMMA DispatchInv == ASSUME IInv, Dispatch PROVE IInv'
<1>0. /\ pc = "dispatch" /\ side' = "loop" /\ UNCHANGED <<pending, turn, calls, result, queue, log>>
      /\ pc' = (IF Sequential THEN "drain" ELSE "collect")
  BY DEF Dispatch, At, Silent
<1>1. PICK i \in Ready :
        /\ at' = i
        /\ work' = [j \in Calls |-> IF j = i \/ (j \in Ready /\ ~Sequential) THEN "submitted" ELSE work[j]]
  BY DEF Dispatch
<1>2. Ready \subseteq 1..Len(calls) /\ Len(calls) \in Nat /\ Len(calls) <= MaxCalls /\ MaxCalls \in Nat
  BY SessionAssumption DEF Ready, Executable, IInv, Shapes
<1>3. Ready \subseteq Calls /\ at' \in Nat BY <1>1, <1>2 DEF Calls
<1>4. /\ work' \in [Calls -> {"none", "ready", "submitted", "running", "finished"}]
      /\ \A j \in Calls : work'[j] = work[j] \/ (work[j] = "ready" /\ work'[j] = "submitted")
  BY <1>1, <1>3 DEF IInv, Shapes, Ready
<1>5. Shapes' BY <1>0, <1>3, <1>4 DEF IInv, Shapes, Places, Waiting
<1>6. Told' BY <1>0, <1>4 DEF IInv, Told, Logged
<1>7. Messages' /\ HandedIn' BY <1>0, <1>4, QueuedCalls DEF IInv, Messages, HandedIn
<1>8. Fresh' /\ Ahead' /\ Telling' BY <1>0 DEF Fresh, Ahead, Telling
<1>9. \A j \in Calls : Busy(j)' => j = i \/ (j \in Ready /\ ~Sequential)
  BY <1>0, <1>1 DEF IInv, Pool, Waiting, Busy
<1>10. Pool' BY <1>0, <1>1, <1>9 DEF Pool, Waiting
<1>11. Alone'
  <2>1. \A j \in Ready : j \in Executable BY DEF Ready
  <2>2. \A j \in Executable : ~Sequential => calls[j] \notin Writers BY DEF Sequential
  <2> QED BY <1>0, <1>1, <1>9, <2>1, <2>2 DEF Alone
<1> QED BY <1>5, <1>6, <1>7, <1>8, <1>10, <1>11 DEF IInv

(* what is left of the queue once its head is taken *)
LEMMA TakeFacts ==
  ASSUME IInv, queue # <<>>, Take, UNCHANGED work
  PROVE  /\ queue' \in Seq(Message) /\ Messages'
         /\ Head(queue) \in Message
         /\ Head(queue).kind = "done" => work[Head(queue).call] = "finished"
<1>1. PICK q : q = queue OBVIOUS
<1>2. PICK t : t = Tail(q) OBVIOUS
<1>3. q \in Seq(Message) /\ q # <<>> BY <1>1 DEF IInv, Shapes
<1>4. /\ t \in Seq(Message) /\ Len(t) = Len(q) - 1 /\ Len(q) \in Nat /\ Len(q) >= 1
      /\ Head(q) = q[1] /\ \A k \in 1..Len(t) : t[k] = q[k + 1]
  BY <1>2, <1>3
<1>5. \A k \in 1..Len(q) : q[k].kind = "done" => work[q[k].call] = "finished"
  BY <1>1 DEF IInv, Messages
<1>6. \A k \in 1..Len(t) : k + 1 \in 1..Len(q) BY <1>4
<1>7. \A k \in 1..Len(t) : t[k].kind = "done" => work[t[k].call] = "finished"
  BY <1>4, <1>5, <1>6
<1>8. queue' = t BY <1>1, <1>2 DEF Take
<1>9. 1 \in 1..Len(q) /\ q[1] \in Message BY <1>3, <1>4
<1> QED BY <1>1, <1>4, <1>5, <1>7, <1>8, <1>9 DEF Messages

(* a step that takes a message and stores its result *)
LEMMA TakeInv ==
  ASSUME IInv, queue # <<>>, Take, UNCHANGED <<turn, calls, work, log>>,
         pc' \in Places, pc' \notin {"start", "turn", "ask", "announce", "prepare"},
         side' \in {"loop", "append"}, pending' \in Entry, at' \in Nat,
         \/ UNCHANGED result
         \/ Head(queue).kind = "done" /\ result' = [result EXCEPT ![Head(queue).call] = Head(queue).value],
         pc' \notin Waiting => \A i \in Calls : ~Busy(i),
         pc' = "drain" => pc = "drain" /\ at' = at
  PROVE  IInv'
<1>1. PICK m : m = Head(queue) OBVIOUS
<1>2. /\ queue' \in Seq(Message) /\ Messages' /\ m \in Message
      /\ m.kind = "done" => work[m.call] = "finished"
  BY <1>1, TakeFacts
<1>3. m.call \in Calls /\ m.value \in {"none", "plain", "stop"} BY <1>2 DEF Message
<1>4. /\ result' \in [Calls -> {"none", "plain", "stop"}]
      /\ \A i \in Calls : result'[i] = result[i] \/ work[i] = "finished"
  BY <1>1, <1>2, <1>3 DEF IInv, Shapes
<1>5. Shapes' BY <1>2, <1>4 DEF IInv, Shapes
<1>6. HandedIn' BY <1>4 DEF IInv, HandedIn
<1>7. Told' BY DEF IInv, Told, Logged
<1>8. Fresh' /\ Ahead' /\ Telling' BY DEF Fresh, Ahead, Telling
<1>9. Pool' /\ Alone' BY DEF IInv, Pool, Alone, Busy
<1> QED BY <1>2, <1>5, <1>6, <1>7, <1>8, <1>9 DEF IInv

LEMMA CollectInv == ASSUME IInv, Collect PROVE IInv'
<1>1. PICK m : m = Head(queue) OBVIOUS
<1>2. /\ pc = "collect" /\ queue # <<>> /\ Take /\ at' = 1 /\ side' = "append"
      /\ UNCHANGED <<turn, calls, work, log>>
      /\ result' = (IF m.kind = "done" THEN [result EXCEPT ![m.call] = m.value] ELSE result)
      /\ pending' = Event(IF m.kind = "done" THEN "tool_end" ELSE "tool_update", m.call)
      /\ pc' = (IF \E i \in Executable : result'[i] = "none" THEN "collect" ELSE "record")
  BY <1>1 DEF Collect, At, Yield
<1>3. m \in Message /\ (m.kind = "done" => work[m.call] = "finished") BY <1>1, <1>2, TakeFacts
<1>4. m.call \in Nat /\ m.call \in Calls BY <1>3, SessionAssumption DEF Message, Calls
<1>5. pending' \in Entry
  <2>1. turn \in Nat BY DEF IInv, Shapes
  <2> QED BY <1>2, <1>4, <2>1 DEF Event, Entry, Types
<1>6. pc' = "record" => \A i \in Calls : ~Busy(i)
  <2> SUFFICES ASSUME NEW i \in Calls, Busy(i) PROVE i \in Executable /\ result'[i] = "none"
    BY <1>2
  <2>1. work[i] # "none" /\ i \in 1..Len(calls)
    <3>1. work[i] # "none" BY DEF Busy
    <3>2. i <= Len(calls) BY <3>1 DEF IInv, Told
    <3> QED BY <3>1, <3>2, SessionAssumption DEF Calls, IInv, Shapes
  <2>2. result[i] = "none" /\ work[i] # "finished" BY DEF Busy, IInv, HandedIn
  <2>3. result'[i] = "none" BY <1>2, <1>3, <1>4, <2>2 DEF IInv, Shapes
  <2> QED BY <2>1, <2>3 DEF Executable
<1>7. pc' \in {"collect", "record"} BY <1>2
<1>8. \/ UNCHANGED result
      \/ m.kind = "done" /\ result' = [result EXCEPT ![m.call] = m.value]
  BY <1>2
<1> QED BY <1>1, <1>2, <1>5, <1>6, <1>7, <1>8, TakeInv DEF Places, Waiting

LEMMA DrainInv == ASSUME IInv, Drain PROVE IInv'
<1>1. PICK m : m = Head(queue) OBVIOUS
<1>2. /\ pc = "drain" /\ queue # <<>> /\ Take /\ UNCHANGED <<turn, calls, at, work, log>>
      /\ \/ m.call # at /\ pc' = "raise" /\ side' = "loop" /\ UNCHANGED <<pending, result>>
         \/ side' = "append" /\ pending' = Event("tool_update", at) /\ UNCHANGED <<pc, result>>
         \/ /\ m.call = at /\ m.kind = "done" /\ result' = [result EXCEPT ![at] = m.value]
            /\ side' = "append" /\ pending' = Event("tool_end", at) /\ pc' = "dispatch"
  BY <1>1 DEF Drain, At, Yield, Silent
<1>3. m.kind = "done" => work[m.call] = "finished" BY <1>1, <1>2, TakeFacts
<1>4. pending \in Entry /\ at \in Nat /\ turn \in Nat BY DEF IInv, Shapes
<1>5. Event("tool_update", at) \in Entry /\ Event("tool_end", at) \in Entry
  BY <1>4 DEF Event, Entry, Types
<1>6. \A i \in Calls : Busy(i) => i = at BY <1>2 DEF IInv, Pool
<1>7. pc' = "dispatch" => \A i \in Calls : ~Busy(i) BY <1>2, <1>3, <1>6 DEF Busy
<1>8. pc' \in {"raise", "drain", "dispatch"} /\ pending' \in Entry /\ side' \in {"loop", "append"}
  BY <1>2, <1>4, <1>5
<1> QED BY <1>1, <1>2, <1>4, <1>7, <1>8, TakeInv DEF Places, Waiting

(* the next turn, and the death of the process, leave no batch *)
LEMMA NoBatchInv == ASSUME IInv, GoOn \/ Crash PROVE IInv'
<1>1. /\ \A i \in Calls : work'[i] = "none" /\ result'[i] = "none"
      /\ result' \in [Calls -> {"none", "plain", "stop"}]
      /\ work' \in [Calls -> {"none", "ready", "submitted", "running", "finished"}]
      /\ queue' = <<>> /\ UNCHANGED <<turn, log>>
      /\ pc' \in {"turn", "crashed"} /\ side' = "loop"
  BY DEF GoOn, Crash, NoBatch, Silent
<1>2. NoEvent \in Entry BY DEF NoEvent, Entry, Types
<1>3. pending' \in Entry /\ at' \in Nat
  BY <1>2 DEF IInv, Shapes, GoOn, Crash, Silent
<1>4. calls' \in Seq(Tools) /\ Len(calls') <= MaxCalls
  <2>1. calls' = calls \/ calls' = <<>> BY DEF GoOn, Crash
  <2>2. <<>> \in Seq(Tools) /\ Len(<<>>) = 0 OBVIOUS
  <2>3. calls \in Seq(Tools) /\ Len(calls) <= MaxCalls BY DEF IInv, Shapes
  <2>4. 0 <= MaxCalls BY SessionAssumption
  <2>5. CASE calls' = calls BY <2>3, <2>5
  <2>6. CASE calls' = <<>> BY <2>2, <2>4, <2>6
  <2> QED BY <2>1, <2>5, <2>6
<1>5. queue' \in Seq(Message) /\ Messages' BY <1>1 DEF Messages
<1>6. Shapes' BY <1>1, <1>3, <1>4, <1>5 DEF IInv, Shapes, Places, Over
<1>7. Fresh' /\ Ahead' /\ Told' /\ Telling' /\ HandedIn' /\ Pool' /\ Alone'
  BY <1>1 DEF Fresh, Ahead, Told, Telling, HandedIn, Pool, Alone, Untouched, Busy, Waiting
<1> QED BY <1>5, <1>6, <1>7 DEF IInv

LEMMA AppendEventInv == ASSUME IInv, AppendEvent PROVE IInv'
<1>1. PICK old : old = log OBVIOUS
<1>2. PICK e : e = pending OBVIOUS
<1>3. PICK new : new = Append(old, e) OBVIOUS
<1>4. old \in Seq(Entry) /\ e \in Entry BY <1>1, <1>2 DEF IInv, Shapes
<1>5. /\ new \in Seq(Entry) /\ Len(new) = Len(old) + 1 /\ Len(old) \in Nat
      /\ \A k \in 1..Len(old) : new[k] = old[k]
      /\ new[Len(new)] = e
  BY <1>3, <1>4
<1>6. /\ log' = new /\ side' = "consumer" /\ pending' = NoEvent /\ side = "append"
      /\ UNCHANGED <<pc, turn, calls, at, result, work, queue>>
  BY <1>1, <1>2, <1>3 DEF AppendEvent, workVars
<1>7. \A t, type, i : Logged(t, type, i) => Logged(t, type, i)'
  <2> SUFFICES ASSUME NEW t, NEW type, NEW i, Logged(t, type, i) PROVE Logged(t, type, i)' OBVIOUS
  <2>1. PICK k \in 1..Len(old) : old[k] = [turn |-> t, type |-> type, call |-> i]
    BY <1>1 DEF Logged
  <2>2. k \in 1..Len(new) /\ new[k] = old[k] BY <1>5
  <2> QED BY <1>6, <2>1, <2>2 DEF Logged
<1>8. pending = Event("tool_start", at) => Logged(turn, "tool_start", at)'
  <2>1. Len(new) \in 1..Len(new) BY <1>5
  <2> QED BY <1>2, <1>5, <1>6, <2>1 DEF Logged, Event
<1>9. NoEvent \in Entry BY DEF NoEvent, Entry, Types
<1>10. Shapes' BY <1>5, <1>6, <1>9 DEF IInv, Shapes
<1>11. Told' /\ Telling' BY <1>6, <1>7, <1>8 DEF IInv, Told, Telling
<1>12. Fresh' /\ Ahead' /\ Messages' /\ HandedIn' /\ Pool' /\ Alone'
  BY <1>6 DEF IInv, Fresh, Ahead, Messages, HandedIn, Pool, Alone, Untouched, Busy
<1> QED BY <1>10, <1>11, <1>12 DEF IInv

-----------------------------------------------------------------------------
(* The workers *)

(* the queue once a message is put into it *)
LEMMA PutFacts ==
  ASSUME IInv, NEW m \in Message, queue' = Append(queue, m),
         \A i \in Calls : work[i] = "finished" => work'[i] = "finished",
         m.kind = "done" => work'[m.call] = "finished"
  PROVE  queue' \in Seq(Message) /\ Messages'
<1>1. PICK q : q = queue OBVIOUS
<1>2. PICK new : new = Append(q, m) OBVIOUS
<1>3. q \in Seq(Message) BY <1>1 DEF IInv, Shapes
<1>4. /\ new \in Seq(Message) /\ Len(new) = Len(q) + 1 /\ Len(q) \in Nat
      /\ \A k \in 1..Len(q) : new[k] = q[k]
      /\ new[Len(q) + 1] = m
  BY <1>2, <1>3
<1>5. \A k \in 1..Len(q) : q[k].call \in Calls /\ (q[k].kind = "done" => work[q[k].call] = "finished")
  BY <1>1, QueuedCalls DEF IInv, Messages
<1>6. \A k \in 1..Len(new) : k \in 1..Len(q) \/ k = Len(q) + 1 BY <1>4
<1>7. \A k \in 1..Len(new) : new[k].kind = "done" => work'[new[k].call] = "finished"
  BY <1>4, <1>5, <1>6
<1>8. queue' = new BY <1>1, <1>2
<1> QED BY <1>4, <1>7, <1>8 DEF Messages

(* a worker that goes on from submitted to running to finished *)
LEMMA WorkInv ==
  ASSUME IInv, UNCHANGED <<loopVars, result, log>>, NEW i \in Calls,
         Busy(i) \/ work' = work,
         work' = work \/ \E w \in {"running", "finished"} : work' = [work EXCEPT ![i] = w],
         queue' \in Seq(Message), Messages'
  PROVE  IInv'
<1>1. UNCHANGED <<pc, side, pending, turn, calls, at, result, log>> BY DEF loopVars
<1>2. /\ work' \in [Calls -> {"none", "ready", "submitted", "running", "finished"}]
      /\ \A j \in Calls : work'[j] = work[j] \/ (Busy(j) /\ work'[j] \in {"running", "finished"})
  BY DEF IInv, Shapes
<1>3. \A j \in Calls : Busy(j)' => Busy(j) BY <1>2 DEF Busy
<1>4. Shapes' BY <1>1, <1>2 DEF IInv, Shapes
<1>5. Fresh' /\ Ahead' BY <1>1, <1>2 DEF IInv, Fresh, Ahead, Untouched, Busy
<1>6. Told' /\ Telling' BY <1>1, <1>2 DEF IInv, Told, Telling, Busy, Logged, Event
<1>7. HandedIn' BY <1>1, <1>2 DEF IInv, HandedIn, Busy
<1>8. Pool' /\ Alone' BY <1>1, <1>3 DEF IInv, Pool, Alone
<1> QED BY <1>4, <1>5, <1>6, <1>7, <1>8 DEF IInv

LEMMA WorkerInv ==
  ASSUME IInv, NEW i \in Calls, Worker(i) \/ Accept(i) \/ PutUpdate(i) PROVE IInv'
<1>0. queue \in Seq(Message) /\ work \in [Calls -> {"none", "ready", "submitted", "running", "finished"}]
  BY DEF IInv, Shapes
<1>1. CASE BeginTool(i)
  <2>1. /\ UNCHANGED <<loopVars, result, queue, log>> /\ Busy(i) /\ work[i] = "submitted"
        /\ work' = [work EXCEPT ![i] = "running"]
    BY <1>1 DEF BeginTool, Busy
  <2>2. Messages' BY <1>0, <2>1, QueuedCalls DEF IInv, Messages
  <2> QED BY <1>0, <2>1, <2>2, WorkInv
<1>2. CASE SkipTool(i) \/ FinishTool(i)
  <2>1. /\ UNCHANGED <<loopVars, result, log>> /\ Busy(i) /\ work' = [work EXCEPT ![i] = "finished"]
    BY <1>2 DEF SkipTool, FinishTool, Busy
  <2>2. PICK v \in {"plain", "stop"} : queue' = Append(queue, [call |-> i, kind |-> "done", value |-> v])
    BY <1>2 DEF SkipTool, FinishTool, Put
  <2>3. PICK m : m = [call |-> i, kind |-> "done", value |-> v] OBVIOUS
  <2>4. m \in Message /\ m.call = i BY <2>3 DEF Message
  <2>5. queue' \in Seq(Message) /\ Messages' BY <1>0, <2>1, <2>2, <2>3, <2>4, PutFacts
  <2> QED BY <2>1, <2>5, WorkInv
<1>3. CASE Accept(i)
  <2>1. UNCHANGED <<loopVars, result, work, queue, log>> BY <1>3 DEF Accept
  <2>2. Messages' BY <2>1 DEF IInv, Messages
  <2> QED BY <1>0, <2>1, <2>2, WorkInv
<1>4. CASE PutUpdate(i)
  <2>1. UNCHANGED <<loopVars, result, work, log>> BY <1>4 DEF PutUpdate
  <2>2. PICK m : m = [call |-> i, kind |-> "update", value |-> "none"] OBVIOUS
  <2>3. m \in Message /\ m.kind = "update" BY <2>2 DEF Message
  <2>4. queue' = Append(queue, m) BY <1>4, <2>2 DEF PutUpdate, Put
  <2>5. queue' \in Seq(Message) /\ Messages' BY <2>1, <2>3, <2>4, PutFacts
  <2> QED BY <2>1, <2>5, WorkInv
<1> QED BY <1>1, <1>2, <1>3, <1>4 DEF Worker

LEMMA NextInv == ASSUME IInv, [Next]_vars PROVE IInv'
<1>1. CASE Loop
  BY <1>1, MovingInv, BeginTurnInv, AskInv, AnnounceInv, PrepareInv, DispatchInv, CollectInv, DrainInv,
     NoBatchInv DEF Loop
<1>2. CASE Session \/ Abandon BY <1>2, AppendEventInv, LeavingInv DEF Session
<1>3. CASE Abort BY <1>3, AbortInv
<1>4. CASE Crash BY <1>4, NoBatchInv
<1>5. ASSUME NEW i \in Calls, Worker(i) \/ Accept(i) \/ PutUpdate(i) PROVE IInv'
  BY <1>5, WorkerInv
<1>6. CASE UNCHANGED vars
  BY <1>6 DEF vars, loopVars, workVars, IInv, Shapes, Fresh, Ahead, Told, Telling, Messages, HandedIn, Pool,
              Alone, Untouched, Busy, Logged, Event
<1> QED BY <1>1, <1>2, <1>3, <1>4, <1>5, <1>6 DEF Next

-----------------------------------------------------------------------------
(* Every reachable state has its batch where the loop is. *)
THEOREM InductiveInvariant == Spec => []IInv
<1>1. Init => IInv BY InitInv
<1>2. IInv /\ [Next]_vars => IInv' BY NextInv
<1> QED BY <1>1, <1>2, PTL DEF Spec

(* No tool begins before its announcement is in the log of the conversation  *)
(* (the session appends tool_execution_start before the loop is resumed).    *)
THEOREM AnnouncedTheorem == Spec => []RunsAreAnnounced
<1>1. IInv => RunsAreAnnounced BY DEF IInv, Told, RunsAreAnnounced
<1> QED BY <1>1, InductiveInvariant, PTL

(* A tool whose execution mode is sequential runs while no other tool of its *)
(* batch does (_execute_batch).                                              *)
THEOREM AloneTheorem == Spec => []WritersRunAlone
<1>1. IInv => WritersRunAlone BY DEF IInv, Alone, Busy, WritersRunAlone
<1> QED BY <1>1, InductiveInvariant, PTL

(* When the run is over, however it ended, no worker is left (the executor   *)
(* is left by a with statement, which waits).                                *)
THEOREM NothingRunsOnTheorem == Spec => []NothingRunsOn
<1>1. IInv => NothingRunsOn
  BY DEF IInv, Pool, Waiting, Over, NothingRunsOn, Pooled
<1> QED BY <1>1, InductiveInvariant, PTL

-----------------------------------------------------------------------------
(* The story of a turn.  What the log will hold once the event on its way is *)
(* in it tells of the current turn exactly what the loop has done: the       *)
(* announcements made (Starts), the results there are (Ends), the results    *)
(* recorded, in the order of the calls (Listed).  So a turn is whole when    *)
(* the loop ends it, and later events of other turns leave it so.            *)

(* the log once the event on its way is in it *)
Tale == IF side = "append" THEN Append(log, pending) ELSE log

Ev(t, type, i) == [turn |-> t, type |-> type, call |-> i]
Kinds == {"answer", "tool_start", "tool_end", "result", "turn_end"}
In(s, e) == \E k \in 1..Len(s) : s[k] = e
Unique(s, e) == \E k \in 1..Len(s) : s[k] = e /\ \A j \in 1..Len(s) : s[j] = e => j = k
ResultsOf(t) == {[turn |-> t, type |-> "result", call |-> i] : i \in Calls}

(* turn t, whose answer has n calls, is whole in s *)
ResultsUpTo(s, t, n) ==
  /\ Len(Selected(s, ResultsOf(t))) = n
  /\ \A i \in 1..n : Selected(s, ResultsOf(t))[i] = Ev(t, "result", i)
Entire(s, t, n) ==
  /\ \A i \in 1..n : Unique(s, Ev(t, "tool_start", i)) /\ Unique(s, Ev(t, "tool_end", i))
  /\ ResultsUpTo(s, t, n)
EndedWhole(s) ==
  \A t \in Nat, n \in 0..MaxCalls :
    In(s, Ev(t, "turn_end", 0)) /\ In(s, Ev(t, "answer", n)) => Entire(s, t, n)
Bounded(s, last) == \A k \in 1..Len(s) : s[k].turn <= last

InTurn == {"announce", "prepare", "dispatch", "collect", "drain", "record", "turn_end"}
NothingYet == pc = "ask" => \A type \in Kinds, i \in Nat : ~In(Tale, Ev(turn, type, i))
Open ==
  pc \in InTurn =>
    /\ ~In(Tale, Ev(turn, "turn_end", 0))
    /\ \A n \in Nat : In(Tale, Ev(turn, "answer", n)) => n = Len(calls)
Announced(i) ==
  IF pc = "announce" THEN i < at ELSE IF pc = "prepare" THEN i <= at ELSE i <= Len(calls)
Starts ==
  pc \in InTurn => \A i \in Calls :
    IF Announced(i) THEN Unique(Tale, Ev(turn, "tool_start", i)) ELSE ~In(Tale, Ev(turn, "tool_start", i))
Ends ==
  pc \in InTurn => \A i \in Calls :
    IF result[i] # "none" THEN Unique(Tale, Ev(turn, "tool_end", i)) ELSE ~In(Tale, Ev(turn, "tool_end", i))
Recorded == IF pc = "record" THEN at - 1 ELSE IF pc = "turn_end" THEN Len(calls) ELSE 0
Listed == pc \in InTurn => ResultsUpTo(Tale, turn, Recorded)
Done(i) == result[i] # "none"
Handled ==
  /\ pc \in {"announce", "prepare"} => \A i \in 1..(at - 1) : work[i] = "ready" \/ Done(i)
  /\ pc \in {"dispatch", "collect", "drain", "record"} => Len(calls) >= 1
  /\ pc = "dispatch" => \A i \in 1..Len(calls) : work[i] = "ready" \/ Done(i)
  /\ pc = "drain" => \A i \in 1..Len(calls) : i = at \/ work[i] = "ready" \/ Done(i)
  /\ pc = "collect" => \A i \in 1..Len(calls) : work[i] # "none" \/ Done(i)
  /\ pc \in {"record", "turn_end"} => \A i \in 1..Len(calls) : Done(i)
  /\ pc = "record" => at \in 1..Len(calls)
Tidings ==
  /\ \A k \in 1..Len(queue) : queue[k].kind = "done" => queue[k].value # "none" /\ ~Done(queue[k].call)
  /\ \A j, k \in 1..Len(queue) :
       queue[j].kind = "done" /\ queue[k].kind = "done" /\ queue[j].call = queue[k].call => j = k

Story ==
  /\ EndedWhole(log) /\ EndedWhole(Tale) /\ Bounded(Tale, turn)
  /\ NothingYet /\ Open /\ Starts /\ Ends /\ Listed /\ Handled /\ Tidings

(* one more event, for what is asked of a log *)
LEMMA AppendTells ==
  ASSUME NEW s \in Seq(Entry), NEW e \in Entry
  PROVE  /\ Append(s, e) \in Seq(Entry)
         /\ \A x : In(Append(s, e), x) <=> (In(s, x) \/ x = e)
         /\ \A x : x # e => (Unique(Append(s, e), x) <=> Unique(s, x))
         /\ ~In(s, e) => Unique(Append(s, e), e)
         /\ \A T : Selected(Append(s, e), T) = IF e \in T THEN Append(Selected(s, T), e) ELSE Selected(s, T)
<1>1. PICK w : w = Append(s, e) OBVIOUS
<1>2. /\ w \in Seq(Entry) /\ Len(s) \in Nat /\ Len(w) = Len(s) + 1 /\ w[Len(w)] = e
      /\ \A k \in 1..Len(s) : w[k] = s[k]
  BY <1>1
<1>3. /\ Len(w) \in 1..Len(w) /\ \A k \in 1..Len(s) : k \in 1..Len(w)
      /\ \A k \in 1..Len(w) : k = Len(w) \/ k \in 1..Len(s)
  BY <1>2
<1>4. \A x : In(w, x) <=> (In(s, x) \/ x = e) BY <1>2, <1>3 DEF In
<1>5. ASSUME NEW x, x # e PROVE Unique(w, x) <=> Unique(s, x)
  <2>1. ASSUME Unique(w, x) PROVE Unique(s, x)
    <3>1. PICK k \in 1..Len(w) : w[k] = x /\ \A j \in 1..Len(w) : w[j] = x => j = k BY <2>1 DEF Unique
    <3>2. k \in 1..Len(s) /\ s[k] = x BY <1>2, <1>3, <1>5, <3>1
    <3>3. \A j \in 1..Len(s) : s[j] = x => j = k BY <1>2, <1>3, <3>1
    <3> QED BY <3>2, <3>3 DEF Unique
  <2>2. ASSUME Unique(s, x) PROVE Unique(w, x)
    <3>1. PICK k \in 1..Len(s) : s[k] = x /\ \A j \in 1..Len(s) : s[j] = x => j = k BY <2>2 DEF Unique
    <3>2. k \in 1..Len(w) /\ w[k] = x BY <1>2, <1>3, <3>1
    <3>3. \A j \in 1..Len(w) : w[j] = x => j = k BY <1>2, <1>3, <1>5, <3>1
    <3> QED BY <3>2, <3>3 DEF Unique
  <2> QED BY <2>1, <2>2
<1>6. ASSUME ~In(s, e) PROVE Unique(w, e)
  <2>1. \A j \in 1..Len(s) : w[j] # e BY <1>2, <1>6 DEF In
  <2>2. \A j \in 1..Len(w) : w[j] = e => j = Len(w) BY <1>3, <2>1
  <2> QED BY <1>2, <1>3, <2>2 DEF Unique
<1>7. \A T : Selected(Append(s, e), T) = IF e \in T THEN Append(Selected(s, T), e) ELSE Selected(s, T)
  BY SelectedAppend
<1> QED BY <1>1, <1>2, <1>4, <1>5, <1>6, <1>7

(* s and w tell the same of every turn *)
Same(s, w) ==
  \A t \in Nat :
    /\ \A type \in Kinds, i \in Nat :
         /\ In(w, Ev(t, type, i)) <=> In(s, Ev(t, type, i))
         /\ Unique(w, Ev(t, type, i)) <=> Unique(s, Ev(t, type, i))
    /\ Selected(w, ResultsOf(t)) = Selected(s, ResultsOf(t))

LEMMA KindsAre == Kinds = {"answer", "tool_start", "tool_end", "result", "turn_end"} /\ Kinds \subseteq Types
BY DEF Kinds, Types

LEMMA SameSelf == ASSUME NEW s PROVE Same(s, s)
BY DEF Same

LEMMA CallsAreNat == Calls \subseteq Nat /\ MaxCalls \in Nat /\ 0..MaxCalls \subseteq Nat
BY SessionAssumption DEF Calls

(* an event that is no part of a turn *)
LEMMA AsideSame ==
  ASSUME NEW s \in Seq(Entry), NEW e \in Entry, e.type \notin Kinds
  PROVE  Same(s, Append(s, e))
<1> SUFFICES ASSUME NEW t \in Nat
             PROVE  /\ \A type \in Kinds, i \in Nat :
                         /\ In(Append(s, e), Ev(t, type, i)) <=> In(s, Ev(t, type, i))
                         /\ Unique(Append(s, e), Ev(t, type, i)) <=> Unique(s, Ev(t, type, i))
                    /\ Selected(Append(s, e), ResultsOf(t)) = Selected(s, ResultsOf(t))
  BY DEF Same
<1>1. \A type \in Kinds, i \in Nat : Ev(t, type, i) # e BY DEF Ev
<1>2. e \notin ResultsOf(t) BY DEF ResultsOf, Kinds
<1> QED BY <1>1, <1>2, AppendTells

LEMMA SameEntire ==
  ASSUME NEW s, NEW w, Same(s, w), NEW t \in Nat, NEW n \in 0..MaxCalls
  PROVE  Entire(s, t, n) => Entire(w, t, n)
<1>1. \A i \in 1..n : i \in Nat BY CallsAreNat
<1>2. \A type \in Kinds, i \in Nat : Unique(w, Ev(t, type, i)) <=> Unique(s, Ev(t, type, i))
  BY DEF Same
<1>3. Selected(w, ResultsOf(t)) = Selected(s, ResultsOf(t)) BY DEF Same
<1>4. "tool_start" \in Kinds /\ "tool_end" \in Kinds BY DEF Kinds
<1> QED BY <1>1, <1>2, <1>3, <1>4 DEF Entire, ResultsUpTo

LEMMA SameWhole ==
  ASSUME NEW s, NEW w, Same(s, w), EndedWhole(s) PROVE EndedWhole(w)
<1> SUFFICES ASSUME NEW t \in Nat, NEW n \in 0..MaxCalls,
                    In(w, Ev(t, "turn_end", 0)), In(w, Ev(t, "answer", n))
             PROVE  Entire(w, t, n)
  BY DEF EndedWhole
<1>1. n \in Nat /\ 0 \in Nat /\ "turn_end" \in Kinds /\ "answer" \in Kinds BY CallsAreNat DEF Kinds
<1>2. In(s, Ev(t, "turn_end", 0)) /\ In(s, Ev(t, "answer", n)) BY <1>1 DEF Same
<1>3. Entire(s, t, n) BY <1>2 DEF EndedWhole
<1> QED BY <1>3, SameEntire

(* an event of one turn leaves the others as they were *)
LEMMA OtherTurns ==
  ASSUME NEW s \in Seq(Entry), NEW e \in Entry, EndedWhole(s),
         \A n \in 0..MaxCalls :
           In(Append(s, e), Ev(e.turn, "turn_end", 0)) /\ In(Append(s, e), Ev(e.turn, "answer", n))
             => Entire(Append(s, e), e.turn, n)
  PROVE  EndedWhole(Append(s, e))
<1> SUFFICES ASSUME NEW t \in Nat, t # e.turn, NEW n \in 0..MaxCalls,
                    In(Append(s, e), Ev(t, "turn_end", 0)), In(Append(s, e), Ev(t, "answer", n))
             PROVE  Entire(Append(s, e), t, n)
  BY DEF EndedWhole
<1>1. \A type, i : Ev(t, type, i) # e BY DEF Ev
<1>2. e \notin ResultsOf(t) BY DEF ResultsOf
<1>3. In(s, Ev(t, "turn_end", 0)) /\ In(s, Ev(t, "answer", n)) BY <1>1, AppendTells
<1>4. Entire(s, t, n) BY <1>3 DEF EndedWhole
<1>5. \A i \in 1..n : /\ Unique(Append(s, e), Ev(t, "tool_start", i))
                      /\ Unique(Append(s, e), Ev(t, "tool_end", i))
  BY <1>1, <1>4, AppendTells DEF Entire
<1>6. Selected(Append(s, e), ResultsOf(t)) = Selected(s, ResultsOf(t)) BY <1>2, AppendTells
<1> QED BY <1>4, <1>5, <1>6 DEF Entire, ResultsUpTo

(* an event of a turn that is not ended *)
LEMMA OpenTurn ==
  ASSUME NEW s \in Seq(Entry), NEW e \in Entry, EndedWhole(s),
         ~In(s, Ev(e.turn, "turn_end", 0)), e.type # "turn_end"
  PROVE  EndedWhole(Append(s, e))
<1>1. Ev(e.turn, "turn_end", 0) # e BY DEF Ev
<1>2. ~In(Append(s, e), Ev(e.turn, "turn_end", 0)) BY <1>1, AppendTells
<1> QED BY <1>2, OtherTurns

(* no result event, no result *)
LEMMA NoResults ==
  ASSUME NEW s \in Seq(Entry), NEW t, \A i \in Nat : ~In(s, Ev(t, "result", i))
  PROVE  Len(Selected(s, ResultsOf(t))) = 0
<1>1. PICK T : T = ResultsOf(t) OBVIOUS
<1>2. /\ Selected(s, T) \in Seq(Entry)
      /\ \A i \in 1..Len(Selected(s, T)) : Selected(s, T)[i] \in T
      /\ \A i \in 1..Len(Selected(s, T)) : \E j \in 1..Len(s) : Selected(s, T)[i] = s[j]
  BY SelectedElements
<1>3. PICK w : w = Selected(s, T) OBVIOUS
<1>4. /\ w \in Seq(Entry) /\ \A i \in 1..Len(w) : w[i] \in T
      /\ \A i \in 1..Len(w) : \E j \in 1..Len(s) : w[i] = s[j]
  BY <1>2, <1>3
<1>5. ASSUME Len(w) # 0 PROVE FALSE
  <2>1. 1 \in 1..Len(w) BY <1>4, <1>5
  <2>2. w[1] \in T BY <1>4, <2>1
  <2>3. PICK i \in Calls : w[1] = Ev(t, "result", i) BY <1>1, <2>2 DEF ResultsOf, Ev
  <2>4. PICK j \in 1..Len(s) : w[1] = s[j] BY <1>4, <2>1
  <2>5. i \in Nat BY CallsAreNat
  <2> QED BY <2>3, <2>4, <2>5 DEF In
<1> QED BY <1>1, <1>3, <1>5

(* w is s and one more event of turn t *)
Grown(s, w, t, type, c) ==
  /\ Ev(t, type, c) \in Entry /\ w \in Seq(Entry) /\ In(w, Ev(t, type, c))
  /\ \A other \in Kinds, i \in Nat :
       other # type \/ i # c =>
         /\ In(w, Ev(t, other, i)) <=> In(s, Ev(t, other, i))
         /\ Unique(w, Ev(t, other, i)) <=> Unique(s, Ev(t, other, i))
  /\ ~In(s, Ev(t, type, c)) => Unique(w, Ev(t, type, c))
  /\ type # "result" => Selected(w, ResultsOf(t)) = Selected(s, ResultsOf(t))
  /\ type = "result" /\ c \in Calls =>
       Selected(w, ResultsOf(t)) = Append(Selected(s, ResultsOf(t)), Ev(t, type, c))

LEMMA OneMore ==
  ASSUME NEW s \in Seq(Entry), NEW t \in Nat, NEW type \in Kinds, NEW c \in Nat
  PROVE  Grown(s, Append(s, Ev(t, type, c)), t, type, c)
<1>0. PICK e, w : e = Ev(t, type, c) /\ w = Append(s, e) OBVIOUS
<1>1. e \in Entry BY <1>0, KindsAre DEF Ev, Entry
<1>2. \A other \in Kinds, i \in Nat : other # type \/ i # c => Ev(t, other, i) # e BY <1>0 DEF Ev
<1>3. type # "result" => e \notin ResultsOf(t) BY <1>0 DEF ResultsOf, Ev
<1>4. type = "result" /\ c \in Calls => e \in ResultsOf(t) BY <1>0 DEF ResultsOf, Ev
<1>5. /\ w \in Seq(Entry)
      /\ \A x : In(w, x) <=> (In(s, x) \/ x = e)
      /\ \A x : x # e => (Unique(w, x) <=> Unique(s, x))
      /\ ~In(s, e) => Unique(w, e)
      /\ \A T : Selected(w, T) = IF e \in T THEN Append(Selected(s, T), e) ELSE Selected(s, T)
  BY <1>0, <1>1, AppendTells
<1>6. Grown(s, w, t, type, c)
  <2>1. \A other \in Kinds, i \in Nat :
          other # type \/ i # c =>
            /\ In(w, Ev(t, other, i)) <=> In(s, Ev(t, other, i))
            /\ Unique(w, Ev(t, other, i)) <=> Unique(s, Ev(t, other, i))
    BY <1>2, <1>5
  <2>2. type # "result" => Selected(w, ResultsOf(t)) = Selected(s, ResultsOf(t)) BY <1>3, <1>5
  <2>3. type = "result" /\ c \in Calls => Selected(w, ResultsOf(t)) = Append(Selected(s, ResultsOf(t)), e)
    BY <1>4, <1>5
  <2> QED BY <1>0, <1>1, <1>5, <2>1, <2>2, <2>3 DEF Grown
<1> QED BY <1>0, <1>6

LEMMA BoundedMore ==
  ASSUME NEW s \in Seq(Entry), NEW e \in Entry, NEW last \in Nat, NEW bound \in Nat,
         Bounded(s, last), last <= bound, e.turn <= bound
  PROVE  Bounded(Append(s, e), bound)
<1>1. PICK w : w = Append(s, e) OBVIOUS
<1>2. /\ Len(s) \in Nat /\ Len(w) = Len(s) + 1 /\ w[Len(w)] = e
      /\ \A k \in 1..Len(s) : w[k] = s[k] /\ s[k] \in Entry
  BY <1>1
<1>3. \A k \in 1..Len(w) : k = Len(w) \/ k \in 1..Len(s) BY <1>2
<1>4. \A k \in 1..Len(s) : s[k].turn <= bound BY <1>2 DEF Bounded, Entry
<1> QED BY <1>1, <1>2, <1>3, <1>4 DEF Bounded

-----------------------------------------------------------------------------
(* The tale of a step *)

LEMMA TaleIs == ASSUME IInv PROVE Tale \in Seq(Entry) /\ log \in Seq(Entry) /\ pending \in Entry /\ turn \in Nat
<1>1. log \in Seq(Entry) /\ pending \in Entry /\ turn \in Nat BY DEF IInv, Shapes
<1> QED BY <1>1 DEF Tale

LEMMA TaleGrows ==
  ASSUME IInv, side # "append", NEW e, Yield(e), UNCHANGED log
  PROVE  Tale = log /\ Tale' = Append(Tale, e) /\ pending' = e
BY DEF Yield, Tale

LEMMA TaleStays ==
  ASSUME IInv, UNCHANGED <<side, pending, log>> \/ (side # "append" /\ side' # "append" /\ log' = log)
  PROVE  Tale' = Tale
BY DEF Tale

(* an event that is no part of a turn changes no turn *)
LEMMA AsideTale ==
  ASSUME IInv, Story, side # "append", NEW e \in Entry, e.type \notin Kinds, Yield(e), UNCHANGED log,
         turn' \in Nat, turn <= turn', e.turn <= turn'
  PROVE  /\ Same(Tale, Tale') /\ EndedWhole(log') /\ EndedWhole(Tale') /\ Bounded(Tale', turn')
         /\ Tale' = Append(Tale, e)
<1>1. Tale' = Append(Tale, e) BY TaleGrows
<1>2. Tale \in Seq(Entry) /\ turn \in Nat BY TaleIs
<1>3. Same(Tale, Tale') BY <1>1, <1>2, AsideSame
<1>4. EndedWhole(Tale') BY <1>3, SameWhole DEF Story
<1>5. Bounded(Tale', turn') BY <1>1, <1>2, BoundedMore DEF Story
<1>6. EndedWhole(log') BY DEF Story
<1> QED BY <1>1, <1>3, <1>4, <1>5, <1>6

LEMMA QuietTale ==
  ASSUME IInv, Story, UNCHANGED turn,
         UNCHANGED <<side, pending, log>> \/ (side # "append" /\ side' # "append" /\ log' = log)
  PROVE  Same(Tale, Tale') /\ EndedWhole(log') /\ EndedWhole(Tale') /\ Bounded(Tale', turn')
<1>1. Tale' = Tale BY TaleStays
<1>2. log' = log OBVIOUS
<1>3. EndedWhole(log') BY <1>2 DEF Story
<1> QED BY <1>1, <1>3, SameSelf DEF Story

-----------------------------------------------------------------------------
(* What the queue holds *)

LEMMA KeptTidings == ASSUME Tidings, UNCHANGED <<queue, result>> PROVE Tidings'
BY DEF Tidings, Done

LEMMA NoTidings == ASSUME queue' = <<>> PROVE Tidings'
BY DEF Tidings

LEMMA TakeTidings ==
  ASSUME IInv, Tidings, queue # <<>>, Take,
         \/ UNCHANGED result
         \/ /\ Head(queue).kind = "done"
            /\ result' = [result EXCEPT ![Head(queue).call] = Head(queue).value]
  PROVE  /\ Tidings'
         /\ Head(queue) \in Message
         /\ Head(queue).kind = "done" => Head(queue).value \in {"plain", "stop"} /\ result[Head(queue).call] = "none"
<1>1. PICK q : q = queue OBVIOUS
<1>2. PICK t : t = Tail(q) OBVIOUS
<1>3. q \in Seq(Message) /\ q # <<>> BY <1>1 DEF IInv, Shapes
<1>4. /\ Len(t) = Len(q) - 1 /\ Len(q) \in Nat /\ Len(q) >= 1
      /\ Head(q) = q[1] /\ \A k \in 1..Len(t) : t[k] = q[k + 1]
  BY <1>2, <1>3
<1>5. /\ 1 \in 1..Len(q) /\ \A k \in 1..Len(t) : k + 1 \in 1..Len(q) /\ k + 1 # 1
      /\ \A j, k \in 1..Len(t) : j + 1 = k + 1 => j = k
  BY <1>4
<1>6. \A k \in 1..Len(q) : q[k].kind = "done" => q[k].value # "none" /\ ~Done(q[k].call)
  BY <1>1 DEF Tidings
<1>7. \A j, k \in 1..Len(q) : q[j].kind = "done" /\ q[k].kind = "done" /\ q[j].call = q[k].call => j = k
  BY <1>1 DEF Tidings
<1>8. Head(q) \in Message BY <1>3, <1>4, <1>5
<1>9. Head(q).kind = "done" => Head(q).value \in {"plain", "stop"} /\ result[Head(q).call] = "none"
  BY <1>4, <1>5, <1>6, <1>8 DEF Message, Done
<1>10. result \in [Calls -> {"none", "plain", "stop"}] BY DEF IInv, Shapes
<1>11. ASSUME NEW k \in 1..Len(t), t[k].kind = "done" PROVE t[k].value # "none" /\ ~Done(t[k].call)'
  <2>1. k + 1 \in 1..Len(q) /\ k + 1 # 1 /\ t[k] = q[k + 1] BY <1>4, <1>5
  <2>2. t[k].value # "none" /\ ~Done(t[k].call) BY <1>6, <1>11, <2>1
  <2>3. CASE UNCHANGED result BY <2>2, <2>3 DEF Done
  <2>4. CASE /\ Head(queue).kind = "done"
             /\ result' = [result EXCEPT ![Head(queue).call] = Head(queue).value]
    <3>1. t[k].call # Head(q).call BY <1>1, <1>4, <1>5, <1>7, <1>11, <2>1, <2>4
    <3> QED BY <1>1, <1>10, <2>2, <2>4, <3>1 DEF Done
  <2> QED BY <2>3, <2>4
<1>12. \A j, k \in 1..Len(t) : t[j].kind = "done" /\ t[k].kind = "done" /\ t[j].call = t[k].call => j = k
  BY <1>4, <1>5, <1>7
<1>13. queue' = t BY <1>1, <1>2 DEF Take
<1>14. Tidings' BY <1>11, <1>12, <1>13 DEF Tidings
<1> QED BY <1>1, <1>8, <1>9, <1>14

LEMMA PutTidings ==
  ASSUME IInv, Tidings, UNCHANGED result, NEW m \in Message, queue' = Append(queue, m),
         m.kind = "done" => Busy(m.call) /\ m.value # "none"
  PROVE  Tidings'
<1>1. PICK q : q = queue OBVIOUS
<1>2. PICK new : new = Append(q, m) OBVIOUS
<1>3. q \in Seq(Message) BY <1>1 DEF IInv, Shapes
<1>4. /\ Len(q) \in Nat /\ Len(new) = Len(q) + 1 /\ new[Len(new)] = m /\ \A k \in 1..Len(q) : new[k] = q[k]
  BY <1>2, <1>3
<1>5. \A k \in 1..Len(new) : k = Len(new) \/ k \in 1..Len(q) BY <1>4
<1>6. /\ \A k \in 1..Len(q) : q[k].kind = "done" => q[k].value # "none" /\ ~Done(q[k].call)
      /\ \A j, k \in 1..Len(q) : q[j].kind = "done" /\ q[k].kind = "done" /\ q[j].call = q[k].call => j = k
      /\ \A k \in 1..Len(q) : q[k].kind = "done" => work[q[k].call] = "finished"
  BY <1>1 DEF IInv, Messages, Tidings
<1>7. m.kind = "done" => ~Done(m.call) /\ work[m.call] # "finished"
  <2>1. m.call \in Calls BY DEF Message
  <2> QED BY <2>1 DEF IInv, HandedIn, Busy, Done
<1>8. \A k \in 1..Len(new) : new[k].kind = "done" => new[k].value # "none" /\ ~Done(new[k].call)
  BY <1>4, <1>5, <1>6, <1>7
<1>9. ASSUME NEW j \in 1..Len(new), NEW k \in 1..Len(new),
             new[j].kind = "done", new[k].kind = "done", new[j].call = new[k].call
      PROVE  j = k
  BY <1>4, <1>5, <1>6, <1>7, <1>9
<1>10. queue' = new BY <1>1, <1>2
<1> QED BY <1>8, <1>9, <1>10 DEF Tidings, Done

-----------------------------------------------------------------------------
(* The kinds of steps *)

(* a step after which the loop is between turns *)
LEMMA OutsideStory ==
  ASSUME pc' \notin InTurn \cup {"ask"}, EndedWhole(log'), EndedWhole(Tale'), Bounded(Tale', turn'), Tidings'
  PROVE  Story'
<1>1. NothingYet' /\ Open' /\ Starts' /\ Ends' /\ Listed'
  BY DEF NothingYet, Open, Starts, Ends, Listed
<1>2. Handled' BY DEF Handled, InTurn
<1> QED BY <1>1, <1>2 DEF Story

(* a step that tells nothing of the turn *)
LEMMA MovesStory ==
  ASSUME IInv, Story, UNCHANGED <<turn, calls>>, Same(Tale, Tale'), EndedWhole(log'), Bounded(Tale', turn'),
         pc' = "ask" => pc = "ask",
         pc' \in InTurn =>
           /\ pc \in InTurn /\ UNCHANGED result /\ Recorded' = Recorded
           /\ \A i \in Calls : Announced(i)' <=> Announced(i),
         Handled', Tidings'
  PROVE  Story'
<1>1. turn \in Nat BY TaleIs
<1>2. EndedWhole(Tale') BY SameWhole DEF Story
<1>3. PICK s, w : s = Tale /\ w = Tale' OBVIOUS
<1>4. /\ \A type \in Kinds, i \in Nat :
           /\ In(w, Ev(turn, type, i)) <=> In(s, Ev(turn, type, i))
           /\ Unique(w, Ev(turn, type, i)) <=> Unique(s, Ev(turn, type, i))
      /\ Selected(w, ResultsOf(turn)) = Selected(s, ResultsOf(turn))
  BY <1>1, <1>3 DEF Same
<1>5. NothingYet'
  <2>1. pc' = "ask" => \A type \in Kinds, i \in Nat : ~In(w, Ev(turn, type, i))
    BY <1>3, <1>4 DEF Story, NothingYet
  <2> QED BY <1>3, <2>1 DEF NothingYet
<1>6. ASSUME pc' \in InTurn
      PROVE  /\ ~In(w, Ev(turn, "turn_end", 0))
             /\ \A n \in Nat : In(w, Ev(turn, "answer", n)) => n = Len(calls)
             /\ \A i \in Calls :
                  /\ IF Announced(i)' THEN Unique(w, Ev(turn, "tool_start", i))
                     ELSE ~In(w, Ev(turn, "tool_start", i))
                  /\ IF result'[i] # "none" THEN Unique(w, Ev(turn, "tool_end", i))
                     ELSE ~In(w, Ev(turn, "tool_end", i))
             /\ ResultsUpTo(w, turn, Recorded')
  <2>1. /\ ~In(s, Ev(turn, "turn_end", 0))
        /\ \A n \in Nat : In(s, Ev(turn, "answer", n)) => n = Len(calls)
        /\ \A i \in Calls :
             /\ IF Announced(i) THEN Unique(s, Ev(turn, "tool_start", i))
                ELSE ~In(s, Ev(turn, "tool_start", i))
             /\ IF result[i] # "none" THEN Unique(s, Ev(turn, "tool_end", i))
                ELSE ~In(s, Ev(turn, "tool_end", i))
        /\ ResultsUpTo(s, turn, Recorded)
    BY <1>3, <1>6 DEF Story, Open, Starts, Ends, Listed
  <2>2. ResultsUpTo(w, turn, Recorded') BY <1>4, <1>6, <2>1 DEF ResultsUpTo
  <2>3. /\ \A i \in Calls : i \in Nat
        /\ "tool_start" \in Kinds /\ "tool_end" \in Kinds /\ "answer" \in Kinds /\ "turn_end" \in Kinds
    BY CallsAreNat, KindsAre
  <2>4. ~In(w, Ev(turn, "turn_end", 0)) /\ \A n \in Nat : In(w, Ev(turn, "answer", n)) => n = Len(calls)
    BY <1>4, <2>1, <2>3
  <2>5. \A i \in Calls :
          /\ IF Announced(i)' THEN Unique(w, Ev(turn, "tool_start", i))
             ELSE ~In(w, Ev(turn, "tool_start", i))
          /\ IF result'[i] # "none" THEN Unique(w, Ev(turn, "tool_end", i))
             ELSE ~In(w, Ev(turn, "tool_end", i))
    BY <1>4, <1>6, <2>1, <2>3
  <2> QED BY <2>2, <2>4, <2>5
<1>7. Open' /\ Starts' /\ Ends' /\ Listed' BY <1>3, <1>6 DEF Open, Starts, Ends, Listed
<1> QED BY <1>2, <1>5, <1>7 DEF Story

(* a result comes in and is told *)
LEMMA EndedStory ==
  ASSUME IInv, Story, side # "append", NEW c \in Calls, Yield(Event("tool_end", c)),
         UNCHANGED <<turn, calls, log>>,
         result[c] = "none", NEW v \in {"plain", "stop"}, result' = [result EXCEPT ![c] = v],
         pc \in InTurn, pc' \in InTurn, Recorded' = Recorded,
         \A i \in Calls : Announced(i)' <=> Announced(i),
         Handled', Tidings'
  PROVE  Story'
<1>1. PICK e : e = Event("tool_end", c) OBVIOUS
<1>2. PICK s, w : s = Tale /\ w = Tale' OBVIOUS
<1>3. /\ \A i \in Calls : i \in Nat
      /\ "tool_start" \in Kinds /\ "tool_end" \in Kinds /\ "answer" \in Kinds /\ "turn_end" \in Kinds
  BY CallsAreNat, KindsAre
<1>4. s \in Seq(Entry) /\ turn \in Nat /\ e = Ev(turn, "tool_end", c) /\ w = Append(s, e)
  BY <1>1, <1>2, TaleIs, TaleGrows DEF Event, Ev
<1>5. /\ ~In(s, Ev(turn, "turn_end", 0))
      /\ \A n \in Nat : In(s, Ev(turn, "answer", n)) => n = Len(calls)
      /\ \A i \in Calls :
           /\ IF Announced(i) THEN Unique(s, Ev(turn, "tool_start", i))
              ELSE ~In(s, Ev(turn, "tool_start", i))
           /\ IF result[i] # "none" THEN Unique(s, Ev(turn, "tool_end", i))
              ELSE ~In(s, Ev(turn, "tool_end", i))
      /\ ResultsUpTo(s, turn, Recorded)
  BY <1>2 DEF Story, Open, Starts, Ends, Listed
<1>6. /\ e \in Entry
      /\ \A other \in Kinds, i \in Nat :
           other # "tool_end" \/ i # c =>
             /\ In(w, Ev(turn, other, i)) <=> In(s, Ev(turn, other, i))
             /\ Unique(w, Ev(turn, other, i)) <=> Unique(s, Ev(turn, other, i))
      /\ ~In(s, e) => Unique(w, e)
      /\ Selected(w, ResultsOf(turn)) = Selected(s, ResultsOf(turn))
  <2>1. c \in Nat /\ "tool_end" \in Kinds BY <1>3
  <2>2. Grown(s, Append(s, Ev(turn, "tool_end", c)), turn, "tool_end", c) BY <1>4, <2>1, OneMore
  <2>3. Grown(s, w, turn, "tool_end", c) BY <1>4, <2>2
  <2> QED BY <1>4, <2>3 DEF Grown
<1>7. result \in [Calls -> {"none", "plain", "stop"}] BY DEF IInv, Shapes
<1>8. \A i \in Calls : IF result'[i] # "none" THEN Unique(w, Ev(turn, "tool_end", i))
                       ELSE ~In(w, Ev(turn, "tool_end", i))
  <2>1. \A i \in Calls : i # c => result'[i] = result[i] BY <1>7
  <2>2. result'[c] # "none" BY <1>7
  <2>3. Unique(w, Ev(turn, "tool_end", c)) BY <1>4, <1>5, <1>6
  <2> QED BY <1>3, <1>5, <1>6, <2>1, <2>2, <2>3
<1>9. \A i \in Calls : IF Announced(i)' THEN Unique(w, Ev(turn, "tool_start", i))
                       ELSE ~In(w, Ev(turn, "tool_start", i))
  BY <1>3, <1>5, <1>6
<1>10. ~In(w, Ev(turn, "turn_end", 0)) /\ \A n \in Nat : In(w, Ev(turn, "answer", n)) => n = Len(calls)
  BY <1>3, <1>5, <1>6
<1>11. ResultsUpTo(w, turn, Recorded') BY <1>5, <1>6 DEF ResultsUpTo
<1>12. pc' # "ask" BY DEF InTurn
<1>13. NothingYet' /\ Open' /\ Starts' /\ Ends' /\ Listed'
  BY <1>2, <1>8, <1>9, <1>10, <1>11, <1>12 DEF NothingYet, Open, Starts, Ends, Listed
<1>14. e.turn = turn /\ e.type # "turn_end" BY <1>4 DEF Ev
<1>15. EndedWhole(s) /\ Bounded(s, turn) /\ EndedWhole(log') BY <1>2 DEF Story
<1>16. EndedWhole(w) BY <1>4, <1>5, <1>6, <1>14, <1>15, OpenTurn
<1>17. Bounded(w, turn) BY <1>4, <1>6, <1>14, <1>15, BoundedMore
<1>18. EndedWhole(Tale') /\ Bounded(Tale', turn') BY <1>2, <1>16, <1>17
<1> QED BY <1>13, <1>15, <1>18 DEF Story

-----------------------------------------------------------------------------
(* The steps that tell of the turn *)

LEMMA InitStory == Init => Story
<1> SUFFICES ASSUME Init PROVE Story OBVIOUS
<1>1. Tale = <<>> /\ log = <<>> /\ Len(<<>>) = 0 BY DEF Init, Tale
<1>2. \A e : ~In(<<>>, e) BY <1>1 DEF In
<1>3. EndedWhole(<<>>) BY <1>2 DEF EndedWhole
<1>4. Bounded(<<>>, turn) BY <1>1 DEF Bounded
<1>5. pc = "start" /\ queue = <<>> BY DEF Init
<1>6. NothingYet /\ Open /\ Starts /\ Ends /\ Listed /\ Handled
  BY <1>5 DEF NothingYet, Open, Starts, Ends, Listed, Handled, InTurn
<1>7. Tidings BY <1>1, <1>5 DEF Tidings
<1> QED BY <1>1, <1>3, <1>4, <1>6, <1>7 DEF Story

LEMMA BeginTurnStory == ASSUME IInv, Story, BeginTurn PROVE Story'
<1>0. side # "append" /\ UNCHANGED <<queue, result, log>> /\ turn \in Nat
  BY DEF BeginTurn, At, workVars, IInv, Shapes
<1>1. Tidings' BY <1>0, KeptTidings DEF Story
<1>2. CASE aborted \/ turn = MaxTurns
  <2>1. pc' = "error" /\ side' = "loop" /\ UNCHANGED <<pending, turn>> BY <1>2 DEF BeginTurn, Silent
  <2>2. EndedWhole(log') /\ EndedWhole(Tale') /\ Bounded(Tale', turn') BY <1>0, <2>1, QuietTale
  <2> QED BY <1>1, <2>1, <2>2, OutsideStory DEF InTurn
<1>3. CASE ~(aborted \/ turn = MaxTurns)
  <2>1. pc' = "ask" /\ turn' = turn + 1 /\ Yield([turn |-> turn + 1, type |-> "turn_start", call |-> 0])
    BY <1>3 DEF BeginTurn, Yield
  <2>2. PICK e : e = [turn |-> turn + 1, type |-> "turn_start", call |-> 0] OBVIOUS
  <2>3. e \in Entry /\ e.type \notin Kinds /\ e.turn = turn + 1 BY <1>0, <2>2 DEF Entry, Types, Kinds
  <2>4. turn' \in Nat /\ turn <= turn' /\ e.turn <= turn' BY <1>0, <2>1, <2>3
  <2>5. EndedWhole(log') /\ EndedWhole(Tale') /\ Bounded(Tale', turn') /\ Tale' = Append(Tale, e)
    BY <1>0, <2>1, <2>2, <2>3, <2>4, AsideTale
  <2>6. Tale \in Seq(Entry) BY TaleIs
  <2>7. ASSUME NEW type \in Kinds, NEW i \in Nat PROVE ~In(Tale', Ev(turn', type, i))
    <3>1. \A k \in 1..Len(Tale) : Tale[k].turn <= turn /\ Tale[k] \in Entry BY <2>6 DEF Story, Bounded
    <3>2. ~In(Tale, Ev(turn', type, i)) BY <1>0, <2>1, <3>1 DEF In, Ev
    <3>3. Ev(turn', type, i) # e BY <2>3 DEF Ev
    <3> QED BY <2>3, <2>5, <2>6, <3>2, <3>3, AppendTells
  <2>8. NothingYet' BY <2>7 DEF NothingYet
  <2>9. Open' /\ Starts' /\ Ends' /\ Listed' BY <2>1 DEF Open, Starts, Ends, Listed, InTurn
  <2>10. Handled' BY <2>1 DEF Handled
  <2> QED BY <1>1, <2>5, <2>8, <2>9, <2>10 DEF Story
<1> QED BY <1>2, <1>3

LEMMA AskStory == ASSUME IInv, Story, Ask PROVE Story'
<1>0. /\ pc = "ask" /\ side # "append" /\ at' = 1 /\ UNCHANGED <<turn, result, work, queue, log>>
  BY DEF Ask, At, workVars
<1>1. PICK n \in 0..MaxCalls : \E cs \in [1..n -> Tools] :
        /\ calls' = cs /\ Yield(Event("answer", n))
        /\ pc' = IF n = 0 THEN "turn_end" ELSE "announce"
  BY DEF Ask
<1>2. n \in Nat /\ calls' \in [1..n -> Tools] BY <1>1, SessionAssumption
<1>3. Len(calls') = n BY <1>2
<1>4. PICK e : e = Event("answer", n) OBVIOUS
<1>5. PICK s, w : s = Tale /\ w = Tale' OBVIOUS
<1>6. s \in Seq(Entry) /\ turn \in Nat /\ e = Ev(turn, "answer", n) /\ w = Append(s, e)
  BY <1>0, <1>1, <1>4, <1>5, TaleIs, TaleGrows DEF Event, Ev
<1>7. Grown(s, w, turn, "answer", n)
  <2>1. Grown(s, Append(s, Ev(turn, "answer", n)), turn, "answer", n) BY <1>2, <1>6, KindsAre, OneMore
  <2> QED BY <1>6, <2>1
<1>8. \A type \in Kinds, i \in Nat : ~In(s, Ev(turn, type, i)) BY <1>0, <1>5 DEF Story, NothingYet
<1>9. /\ \A i \in Calls : i \in Nat
      /\ \A i \in Nat : ~In(w, Ev(turn, "tool_start", i)) /\ ~In(w, Ev(turn, "tool_end", i))
      /\ ~In(w, Ev(turn, "turn_end", 0))
      /\ \A i \in Nat : In(w, Ev(turn, "answer", i)) => i = n
      /\ Selected(w, ResultsOf(turn)) = Selected(s, ResultsOf(turn))
  BY <1>7, <1>8, CallsAreNat, KindsAre DEF Grown
<1>10. ResultsUpTo(w, turn, 0)
  <2>1. Len(Selected(s, ResultsOf(turn))) = 0 BY <1>6, <1>8, KindsAre, NoResults
  <2>2. \A i \in 1..0 : FALSE OBVIOUS
  <2> QED BY <1>9, <2>1, <2>2 DEF ResultsUpTo
<1>11. \A i \in Calls : result[i] = "none" BY <1>0 DEF IInv, Fresh, Untouched
<1>12. pc' \in {"turn_end", "announce"} /\ (pc' = "turn_end" => n = 0) /\ (pc' = "announce" => n # 0) BY <1>1
<1>13. \A i \in Calls : i >= 1 BY DEF Calls
<1>14. NothingYet' BY <1>12 DEF NothingYet
<1>15. Open' BY <1>0, <1>3, <1>5, <1>9 DEF Open
<1>16. Starts'
  <2>1. \A i \in Calls : ~Announced(i)' BY <1>0, <1>3, <1>9, <1>12, <1>13 DEF Announced
  <2> QED BY <1>0, <1>5, <1>9, <2>1 DEF Starts
<1>17. Ends' BY <1>0, <1>5, <1>9, <1>11 DEF Ends
<1>18. Listed'
  <2>1. Recorded' = 0 BY <1>3, <1>12 DEF Recorded
  <2> QED BY <1>0, <1>5, <1>10, <2>1 DEF Listed
<1>19. Handled' BY <1>0, <1>2, <1>3, <1>12 DEF Handled
<1>20. Tidings' BY <1>0, KeptTidings DEF Story
<1>21. EndedWhole(s) /\ Bounded(s, turn) /\ EndedWhole(log') BY <1>0, <1>5 DEF Story
<1>22. e \in Entry /\ e.turn = turn /\ e.type # "turn_end" BY <1>6, <1>7 DEF Grown, Ev
<1>23. EndedWhole(w) BY <1>6, <1>8, <1>21, <1>22, KindsAre, OpenTurn
<1>24. Bounded(w, turn) BY <1>6, <1>21, <1>22, BoundedMore
<1>25. EndedWhole(Tale') /\ Bounded(Tale', turn') BY <1>0, <1>5, <1>23, <1>24
<1> QED BY <1>14, <1>15, <1>16, <1>17, <1>18, <1>19, <1>20, <1>21, <1>25 DEF Story

(* what the tale told of a turn under way, in names of its own *)
LEMMA StoryTold ==
  ASSUME Story, pc \in InTurn, NEW s, s = Tale
  PROVE  /\ ~In(s, Ev(turn, "turn_end", 0))
         /\ \A n \in Nat : In(s, Ev(turn, "answer", n)) => n = Len(calls)
         /\ \A i \in Calls :
              /\ IF Announced(i) THEN Unique(s, Ev(turn, "tool_start", i))
                 ELSE ~In(s, Ev(turn, "tool_start", i))
              /\ IF result[i] # "none" THEN Unique(s, Ev(turn, "tool_end", i))
                 ELSE ~In(s, Ev(turn, "tool_end", i))
         /\ ResultsUpTo(s, turn, Recorded)
         /\ EndedWhole(s) /\ Bounded(s, turn) /\ EndedWhole(log)
BY DEF Story, Open, Starts, Ends, Listed

LEMMA AnnounceStory == ASSUME IInv, Story, Announce PROVE Story'
<1>0. /\ pc = "announce" /\ pc' = "prepare" /\ side # "append" /\ Yield(Event("tool_start", at))
      /\ UNCHANGED <<turn, calls, at, result, work, queue, log>>
  BY DEF Announce, At, workVars
<1>1. at \in 1..Len(calls) /\ at \in Nat /\ Len(calls) \in Nat /\ Len(calls) <= MaxCalls
  BY <1>0 DEF IInv, Shapes, Ahead
<1>2. at \in Calls /\ MaxCalls \in Nat BY <1>1, SessionAssumption DEF Calls
<1>3. PICK e : e = Event("tool_start", at) OBVIOUS
<1>4. PICK s, w : s = Tale /\ w = Tale' OBVIOUS
<1>5. s \in Seq(Entry) /\ turn \in Nat /\ e = Ev(turn, "tool_start", at) /\ w = Append(s, e)
  BY <1>0, <1>3, <1>4, TaleIs, TaleGrows DEF Event, Ev
<1>6. Grown(s, w, turn, "tool_start", at)
  <2>1. Grown(s, Append(s, Ev(turn, "tool_start", at)), turn, "tool_start", at)
    BY <1>1, <1>5, KindsAre, OneMore
  <2> QED BY <1>5, <2>1
<1>7. pc \in InTurn BY <1>0 DEF InTurn
<1>8. /\ ~In(s, Ev(turn, "turn_end", 0))
      /\ \A n \in Nat : In(s, Ev(turn, "answer", n)) => n = Len(calls)
      /\ \A i \in Calls :
           /\ IF Announced(i) THEN Unique(s, Ev(turn, "tool_start", i))
              ELSE ~In(s, Ev(turn, "tool_start", i))
           /\ IF result[i] # "none" THEN Unique(s, Ev(turn, "tool_end", i))
              ELSE ~In(s, Ev(turn, "tool_end", i))
      /\ ResultsUpTo(s, turn, Recorded)
      /\ EndedWhole(s) /\ Bounded(s, turn) /\ EndedWhole(log)
  BY <1>4, <1>7, StoryTold
<1>9. Open'
  <2>1. ~In(w, Ev(turn, "turn_end", 0)) /\ \A n \in Nat : In(w, Ev(turn, "answer", n)) => n = Len(calls)
    BY <1>6, <1>8, KindsAre DEF Grown
  <2> QED BY <1>0, <1>4, <2>1 DEF Open
<1>10. Starts'
  <2>1. /\ \A i \in Calls : i # at => (Announced(i)' <=> Announced(i))
        /\ \A i \in Calls : i = at => ~Announced(i) /\ Announced(i)'
    BY <1>0, <1>1, <1>2 DEF Announced, Calls
  <2>2. \A i \in Calls : i \in Nat /\ i # at =>
          /\ In(w, Ev(turn, "tool_start", i)) <=> In(s, Ev(turn, "tool_start", i))
          /\ Unique(w, Ev(turn, "tool_start", i)) <=> Unique(s, Ev(turn, "tool_start", i))
    BY <1>6, KindsAre DEF Grown
  <2>3. Unique(w, Ev(turn, "tool_start", at))
    <3>1. ~In(s, Ev(turn, "tool_start", at)) BY <1>2, <1>8, <2>1
    <3> QED BY <1>6, <3>1 DEF Grown
  <2>4. \A i \in Calls : IF Announced(i)' THEN Unique(w, Ev(turn, "tool_start", i))
                         ELSE ~In(w, Ev(turn, "tool_start", i))
    <3> SUFFICES ASSUME NEW i \in Calls
                 PROVE  IF Announced(i)' THEN Unique(w, Ev(turn, "tool_start", i))
                        ELSE ~In(w, Ev(turn, "tool_start", i))
      OBVIOUS
    <3>1. CASE i = at BY <2>1, <2>3, <3>1
    <3>2. CASE i # at
      <4>1. IF Announced(i) THEN Unique(s, Ev(turn, "tool_start", i)) ELSE ~In(s, Ev(turn, "tool_start", i))
        BY <1>8
      <4>2. Announced(i)' <=> Announced(i) BY <2>1, <3>2
      <4>3. /\ In(w, Ev(turn, "tool_start", i)) <=> In(s, Ev(turn, "tool_start", i))
            /\ Unique(w, Ev(turn, "tool_start", i)) <=> Unique(s, Ev(turn, "tool_start", i))
        BY <2>2, <3>2, CallsAreNat
      <4> QED BY <4>1, <4>2, <4>3
    <3> QED BY <3>1, <3>2
  <2> QED BY <1>0, <1>4, <2>4 DEF Starts
<1>11. Ends'
  <2>1. \A i \in Calls : i \in Nat =>
          /\ In(w, Ev(turn, "tool_end", i)) <=> In(s, Ev(turn, "tool_end", i))
          /\ Unique(w, Ev(turn, "tool_end", i)) <=> Unique(s, Ev(turn, "tool_end", i))
    BY <1>6, KindsAre DEF Grown
  <2>2. \A i \in Calls : IF result[i] # "none" THEN Unique(w, Ev(turn, "tool_end", i))
                         ELSE ~In(w, Ev(turn, "tool_end", i))
    BY <1>8, <2>1, CallsAreNat
  <2> QED BY <1>0, <1>4, <2>2 DEF Ends
<1>12. Listed'
  <2>1. Recorded = 0 /\ Recorded' = 0 BY <1>0 DEF Recorded
  <2>2. Selected(w, ResultsOf(turn)) = Selected(s, ResultsOf(turn)) BY <1>6 DEF Grown
  <2>3. ResultsUpTo(w, turn, 0) BY <1>8, <2>1, <2>2 DEF ResultsUpTo
  <2> QED BY <1>0, <1>4, <2>1, <2>3 DEF Listed
<1>13. NothingYet' BY <1>0 DEF NothingYet
<1>14. Handled' BY <1>0 DEF Story, Handled, Done
<1>15. Tidings' BY <1>0, KeptTidings DEF Story
<1>16. e \in Entry /\ e.turn = turn /\ e.type # "turn_end" BY <1>5, <1>6 DEF Grown, Ev
<1>17. EndedWhole(w) BY <1>5, <1>8, <1>16, OpenTurn
<1>18. Bounded(w, turn) BY <1>5, <1>8, <1>16, BoundedMore
<1>19. EndedWhole(Tale') /\ Bounded(Tale', turn') /\ EndedWhole(log') BY <1>0, <1>4, <1>8, <1>17, <1>18
<1> QED BY <1>9, <1>10, <1>11, <1>12, <1>13, <1>14, <1>15, <1>19 DEF Story

LEMMA RecordStory == ASSUME IInv, Story, Record PROVE Story'
<1>0. /\ pc = "record" /\ side # "append" /\ Yield(Event("result", at))
      /\ UNCHANGED <<turn, calls, result, work, queue, log>>
      /\ \/ at = Len(calls) /\ pc' = "turn_end"
         \/ at # Len(calls) /\ at' = at + 1 /\ pc' = "record"
  BY DEF Record, At, workVars
<1>1. at \in 1..Len(calls) /\ at \in Nat /\ Len(calls) \in Nat /\ Len(calls) <= MaxCalls
  BY <1>0 DEF IInv, Shapes, Story, Handled
<1>2. at \in Calls /\ MaxCalls \in Nat BY <1>1, SessionAssumption DEF Calls
<1>3. PICK e : e = Event("result", at) OBVIOUS
<1>4. PICK s, w : s = Tale /\ w = Tale' OBVIOUS
<1>5. s \in Seq(Entry) /\ turn \in Nat /\ e = Ev(turn, "result", at) /\ w = Append(s, e)
  BY <1>0, <1>3, <1>4, TaleIs, TaleGrows DEF Event, Ev
<1>6. Grown(s, w, turn, "result", at)
  <2>1. Grown(s, Append(s, Ev(turn, "result", at)), turn, "result", at)
    BY <1>1, <1>5, KindsAre, OneMore
  <2> QED BY <1>5, <2>1
<1>7. pc \in InTurn BY <1>0 DEF InTurn
<1>8. /\ ~In(s, Ev(turn, "turn_end", 0))
      /\ \A n \in Nat : In(s, Ev(turn, "answer", n)) => n = Len(calls)
      /\ \A i \in Calls :
           /\ IF Announced(i) THEN Unique(s, Ev(turn, "tool_start", i))
              ELSE ~In(s, Ev(turn, "tool_start", i))
           /\ IF result[i] # "none" THEN Unique(s, Ev(turn, "tool_end", i))
              ELSE ~In(s, Ev(turn, "tool_end", i))
      /\ ResultsUpTo(s, turn, Recorded)
      /\ EndedWhole(s) /\ Bounded(s, turn) /\ EndedWhole(log)
  BY <1>4, <1>7, StoryTold
<1>9. Open'
  <2>1. ~In(w, Ev(turn, "turn_end", 0)) /\ \A n \in Nat : In(w, Ev(turn, "answer", n)) => n = Len(calls)
    BY <1>6, <1>8, KindsAre DEF Grown
  <2> QED BY <1>0, <1>4, <2>1 DEF Open
<1>10. Starts' /\ Ends'
  <2>1. \A i \in Calls : Announced(i)' <=> Announced(i) BY <1>0 DEF Announced
  <2>2. \A i \in Calls : i \in Nat =>
          /\ In(w, Ev(turn, "tool_start", i)) <=> In(s, Ev(turn, "tool_start", i))
          /\ Unique(w, Ev(turn, "tool_start", i)) <=> Unique(s, Ev(turn, "tool_start", i))
          /\ In(w, Ev(turn, "tool_end", i)) <=> In(s, Ev(turn, "tool_end", i))
          /\ Unique(w, Ev(turn, "tool_end", i)) <=> Unique(s, Ev(turn, "tool_end", i))
    BY <1>6, KindsAre DEF Grown
  <2>3. \A i \in Calls :
          /\ IF Announced(i)' THEN Unique(w, Ev(turn, "tool_start", i))
             ELSE ~In(w, Ev(turn, "tool_start", i))
          /\ IF result[i] # "none" THEN Unique(w, Ev(turn, "tool_end", i))
             ELSE ~In(w, Ev(turn, "tool_end", i))
    BY <1>8, <2>1, <2>2, CallsAreNat
  <2> QED BY <1>0, <1>4, <2>3 DEF Starts, Ends
<1>11. Listed'
  <2>1. Recorded = at - 1 /\ Recorded' = at BY <1>0, <1>1 DEF Recorded
  <2>2. PICK old : old = Selected(s, ResultsOf(turn)) OBVIOUS
  <2>3. PICK new : new = Append(old, e) OBVIOUS
  <2>4. Selected(w, ResultsOf(turn)) = new BY <1>2, <1>5, <1>6, <2>2, <2>3 DEF Grown
  <2>5. old \in Seq(Entry) BY <1>5, <2>2, SelectedElements
  <2>6. Len(old) = at - 1 /\ \A i \in 1..(at - 1) : old[i] = Ev(turn, "result", i)
    BY <1>8, <2>1, <2>2 DEF ResultsUpTo
  <2>7. Len(new) = at /\ new[at] = e /\ \A i \in 1..(at - 1) : new[i] = old[i]
    BY <1>1, <2>3, <2>5, <2>6
  <2>8. \A i \in 1..at : i = at \/ i \in 1..(at - 1) BY <1>1
  <2>9. \A i \in 1..at : new[i] = Ev(turn, "result", i) BY <1>5, <2>6, <2>7, <2>8
  <2>10. ResultsUpTo(w, turn, at) BY <2>4, <2>7, <2>9 DEF ResultsUpTo
  <2> QED BY <1>0, <1>4, <2>1, <2>10 DEF Listed
<1>12. NothingYet' BY <1>0 DEF NothingYet
<1>13. Handled' BY <1>0, <1>1 DEF Story, Handled, Done
<1>14. Tidings' BY <1>0, KeptTidings DEF Story
<1>15. e \in Entry /\ e.turn = turn /\ e.type # "turn_end" BY <1>5, <1>6 DEF Grown, Ev
<1>16. EndedWhole(w) BY <1>5, <1>8, <1>15, OpenTurn
<1>17. Bounded(w, turn) BY <1>5, <1>8, <1>15, BoundedMore
<1>18. EndedWhole(Tale') /\ Bounded(Tale', turn') /\ EndedWhole(log') BY <1>0, <1>4, <1>8, <1>16, <1>17
<1> QED BY <1>9, <1>10, <1>11, <1>12, <1>13, <1>14, <1>18 DEF Story

(* when the loop ends the turn, the turn is whole *)
LEMMA EndTurnStory == ASSUME IInv, Story, EndTurn PROVE Story'
<1>0. /\ pc = "turn_end" /\ pc' = "decide" /\ side # "append" /\ Yield(Event("turn_end", 0))
      /\ UNCHANGED <<turn, calls, result, work, queue, log>>
  BY DEF EndTurn, At, workVars
<1>1. PICK e : e = Event("turn_end", 0) OBVIOUS
<1>2. PICK s, w : s = Tale /\ w = Tale' OBVIOUS
<1>3. s \in Seq(Entry) /\ turn \in Nat /\ e = Ev(turn, "turn_end", 0) /\ w = Append(s, e)
  BY <1>0, <1>1, <1>2, TaleIs, TaleGrows DEF Event, Ev
<1>4. Grown(s, w, turn, "turn_end", 0)
  <2>1. Grown(s, Append(s, Ev(turn, "turn_end", 0)), turn, "turn_end", 0)
    BY <1>3, KindsAre, OneMore
  <2> QED BY <1>3, <2>1
<1>5. pc \in InTurn BY <1>0 DEF InTurn
<1>6. /\ \A n \in Nat : In(s, Ev(turn, "answer", n)) => n = Len(calls)
      /\ \A i \in Calls :
           /\ IF Announced(i) THEN Unique(s, Ev(turn, "tool_start", i))
              ELSE ~In(s, Ev(turn, "tool_start", i))
           /\ IF result[i] # "none" THEN Unique(s, Ev(turn, "tool_end", i))
              ELSE ~In(s, Ev(turn, "tool_end", i))
      /\ ResultsUpTo(s, turn, Recorded)
      /\ EndedWhole(s) /\ Bounded(s, turn) /\ EndedWhole(log)
  BY <1>2, <1>5, StoryTold
<1>7. /\ Len(calls) \in Nat /\ Len(calls) <= MaxCalls /\ MaxCalls \in Nat
      /\ \A i \in 1..Len(calls) : Done(i)
  BY <1>0, SessionAssumption DEF IInv, Shapes, Story, Handled
<1>8. \A i \in 1..Len(calls) : i \in Calls /\ Announced(i) /\ result[i] # "none"
  BY <1>0, <1>7 DEF Announced, Done, Calls
<1>9. Recorded = Len(calls) BY <1>0 DEF Recorded
<1>10. ASSUME NEW n \in 0..MaxCalls, In(w, Ev(turn, "answer", n)) PROVE Entire(w, turn, n)
  <2>1. n \in Nat BY <1>7
  <2>2. In(s, Ev(turn, "answer", n)) BY <1>4, <1>10, <2>1, KindsAre DEF Grown
  <2>3. n = Len(calls) BY <1>6, <2>1, <2>2
  <2>4. \A i \in 1..n : Unique(s, Ev(turn, "tool_start", i)) /\ Unique(s, Ev(turn, "tool_end", i))
    BY <1>6, <1>8, <2>3
  <2>5. \A i \in 1..n : i \in Nat BY <2>1
  <2>6. \A i \in 1..n : Unique(w, Ev(turn, "tool_start", i)) /\ Unique(w, Ev(turn, "tool_end", i))
    BY <1>4, <2>4, <2>5, KindsAre DEF Grown
  <2>7. Selected(w, ResultsOf(turn)) = Selected(s, ResultsOf(turn)) BY <1>4 DEF Grown
  <2>8. ResultsUpTo(w, turn, n) BY <1>6, <1>9, <2>3, <2>7 DEF ResultsUpTo
  <2> QED BY <2>6, <2>8 DEF Entire
<1>11. e \in Entry /\ e.turn = turn BY <1>3, <1>4 DEF Grown, Ev
<1>12. EndedWhole(w) BY <1>3, <1>6, <1>10, <1>11, OtherTurns
<1>13. Bounded(w, turn) BY <1>3, <1>6, <1>11, BoundedMore
<1>14. EndedWhole(Tale') /\ Bounded(Tale', turn') /\ EndedWhole(log') BY <1>0, <1>2, <1>6, <1>12, <1>13
<1>15. Tidings' BY <1>0, KeptTidings DEF Story
<1> QED BY <1>0, <1>14, <1>15, OutsideStory DEF InTurn

(* a call is prepared: refused, which is its result, or left to a worker *)
LEMMA PrepareStory == ASSUME IInv, Story, Prepare PROVE Story'
<1>0. /\ pc = "prepare" /\ side # "append" /\ UNCHANGED <<turn, calls, queue, log>>
      /\ \/ pc' = "dispatch" /\ at' = 1 /\ at = Len(calls)
         \/ pc' = "announce" /\ at' = at + 1
  BY DEF Prepare, At
<1>1. /\ at \in 1..Len(calls) /\ at \in Nat /\ Len(calls) \in Nat /\ Len(calls) <= MaxCalls
      /\ \A i \in Calls : i >= at => Untouched(i)
  BY <1>0 DEF IInv, Shapes, Ahead
<1>2. at \in Calls /\ MaxCalls \in Nat /\ \A i \in Calls : i \in Nat BY <1>1, SessionAssumption DEF Calls
<1>3. result[at] = "none" /\ work[at] = "none" BY <1>1, <1>2 DEF Untouched
<1>4. pc \in InTurn /\ pc' \in InTurn /\ pc' # "ask" BY <1>0 DEF InTurn
<1>5. Recorded' = Recorded BY <1>0 DEF Recorded
<1>6. \A i \in Calls : Announced(i)' <=> Announced(i) BY <1>0, <1>1, <1>2 DEF Announced
<1>7. \/ /\ result' = [result EXCEPT ![at] = "plain"] /\ UNCHANGED work
         /\ Yield(Event("tool_end", at))
      \/ /\ work' = [work EXCEPT ![at] = "ready"] /\ UNCHANGED result /\ Silent
  BY DEF Prepare
<1>8. /\ result \in [Calls -> {"none", "plain", "stop"}]
      /\ work \in [Calls -> {"none", "ready", "submitted", "running", "finished"}]
  BY DEF IInv, Shapes
<1>9. /\ \A i \in Calls : i # at => work'[i] = work[i] /\ result'[i] = result[i]
      /\ work'[at] = "ready" \/ result'[at] # "none"
  BY <1>2, <1>7, <1>8
<1>10. Handled'
  <2>1. \A i \in 1..(at - 1) : work[i] = "ready" \/ result[i] # "none" BY <1>0 DEF Story, Handled, Done
  <2>2. \A i \in 1..at : i \in Calls /\ (i = at \/ i \in 1..(at - 1)) BY <1>1, <1>2 DEF Calls
  <2>3. \A i \in 1..at : work'[i] = "ready" \/ result'[i] # "none" BY <1>9, <2>1, <2>2
  <2>4. pc' = "announce" => (at' - 1) = at BY <1>0, <1>1
  <2>5. pc' = "announce" => \A i \in 1..(at' - 1) : work'[i] = "ready" \/ result'[i] # "none" BY <2>3, <2>4
  <2>6. pc' = "dispatch" => Len(calls) >= 1 /\ \A i \in 1..Len(calls) : work'[i] = "ready" \/ result'[i] # "none"
    BY <1>0, <1>1, <2>3
  <2> QED BY <1>0, <2>5, <2>6 DEF Handled, Done
<1>11. CASE /\ result' = [result EXCEPT ![at] = "plain"] /\ UNCHANGED work
            /\ Yield(Event("tool_end", at))
  <2>1. Tidings'
    <3>1. /\ \A k \in 1..Len(queue) : queue[k].kind = "done" => work[queue[k].call] = "finished"
          /\ \A k \in 1..Len(queue) : queue[k].call \in Calls
      BY QueuedCalls DEF IInv, Messages
    <3>2. \A k \in 1..Len(queue) : queue[k].kind = "done" => result'[queue[k].call] = result[queue[k].call]
      BY <1>3, <1>9, <3>1
    <3>3. /\ \A k \in 1..Len(queue) :
               queue[k].kind = "done" => queue[k].value # "none" /\ result[queue[k].call] = "none"
          /\ \A j, k \in 1..Len(queue) :
               queue[j].kind = "done" /\ queue[k].kind = "done" /\ queue[j].call = queue[k].call => j = k
      BY DEF Story, Tidings, Done
    <3>4. \A k \in 1..Len(queue) :
            queue[k].kind = "done" => queue[k].value # "none" /\ result'[queue[k].call] = "none"
      BY <3>2, <3>3
    <3> QED BY <1>0, <3>3, <3>4 DEF Tidings, Done
  <2>2. PICK v \in {"plain", "stop"} : v = "plain" OBVIOUS
  <2>3. result' = [result EXCEPT ![at] = v] BY <1>11, <2>2
  <2> QED BY <1>0, <1>2, <1>3, <1>4, <1>5, <1>6, <1>10, <1>11, <2>1, <2>3, EndedStory
<1>12. CASE work' = [work EXCEPT ![at] = "ready"] /\ UNCHANGED result /\ Silent
  <2>1. side' = "loop" BY <1>12 DEF Silent
  <2>2. Same(Tale, Tale') /\ EndedWhole(log') /\ Bounded(Tale', turn') BY <1>0, <2>1, QuietTale
  <2>3. Tidings' BY <1>0, <1>12, KeptTidings DEF Story
  <2> QED BY <1>0, <1>4, <1>5, <1>6, <1>10, <1>12, <2>2, <2>3, MovesStory
<1> QED BY <1>7, <1>11, <1>12

LEMMA DispatchStory == ASSUME IInv, Story, Dispatch \/ Dispatched PROVE Story'
<1>0. /\ pc = "dispatch" /\ side # "append" /\ side' = "loop"
      /\ UNCHANGED <<turn, calls, result, queue, log>>
      /\ pc' \in {"drain", "collect", "record"}
  BY DEF Dispatch, Dispatched, At, Silent, workVars
<1>1. /\ Len(calls) >= 1 /\ Len(calls) \in Nat /\ \A i \in 1..Len(calls) : work[i] = "ready" \/ Done(i)
      /\ \A i \in 1..Len(calls) : i \in Calls
  BY <1>0, SessionAssumption DEF Story, Handled, IInv, Shapes, Calls
<1>2. \A i \in 1..Len(calls) : work[i] = "ready" => i \in Ready BY DEF Ready, Executable
<1>3. Handled'
  <2>1. CASE Dispatched
    <3>1. Ready = {} /\ pc' = "record" /\ at' = 1 BY <2>1 DEF Dispatched
    <3>2. \A i \in 1..Len(calls) : Done(i) BY <1>1, <1>2, <3>1
    <3>3. at' \in 1..Len(calls) BY <1>1, <3>1
    <3> QED BY <1>0, <1>1, <3>1, <3>2, <3>3 DEF Handled, Done
  <2>2. CASE Dispatch
    <3>1. PICK i \in Ready :
            /\ at' = i
            /\ work' = [j \in Calls |-> IF j = i \/ (j \in Ready /\ ~Sequential) THEN "submitted" ELSE work[j]]
      BY <2>2 DEF Dispatch
    <3>2. pc' = IF Sequential THEN "drain" ELSE "collect" BY <2>2 DEF Dispatch
    <3>3. CASE Sequential
      <4>1. \A j \in 1..Len(calls) : j = at' \/ work'[j] = "ready" \/ result[j] # "none"
        BY <1>1, <3>1, <3>3 DEF Done
      <4> QED BY <1>0, <1>1, <3>2, <3>3, <4>1 DEF Handled, Done
    <3>4. CASE ~Sequential
      <4>1. \A j \in 1..Len(calls) : work'[j] # "none" \/ result[j] # "none"
        BY <1>1, <1>2, <3>1, <3>4 DEF Done
      <4> QED BY <1>0, <1>1, <3>2, <3>4, <4>1 DEF Handled, Done
    <3> QED BY <3>3, <3>4
  <2> QED BY <2>1, <2>2
<1>4. pc \in InTurn /\ pc' # "ask" BY <1>0 DEF InTurn
<1>5. Recorded' = Recorded
  <2>1. pc' = "record" => at' = 1
    <3>1. CASE Dispatched BY <3>1 DEF Dispatched
    <3>2. CASE Dispatch BY <3>2 DEF Dispatch
    <3> QED BY <3>1, <3>2
  <2> QED BY <1>0, <2>1 DEF Recorded
<1>6. \A i \in Calls : Announced(i)' <=> Announced(i) BY <1>0 DEF Announced
<1>7. Same(Tale, Tale') /\ EndedWhole(log') /\ Bounded(Tale', turn') BY <1>0, QuietTale
<1>8. Tidings' BY <1>0, KeptTidings DEF Story
<1> QED BY <1>0, <1>3, <1>4, <1>5, <1>6, <1>7, <1>8, MovesStory

(* what a step that takes the head of the queue finds there *)
LEMMA HeadIs ==
  ASSUME IInv, Story, queue # <<>>, Take, NEW m, m = Head(queue),
         \/ UNCHANGED result
         \/ m.kind = "done" /\ result' = [result EXCEPT ![m.call] = m.value]
  PROVE  /\ Tidings' /\ m \in Message /\ m.call \in Calls /\ m.call \in Nat
         /\ m.kind = "done" => m.value \in {"plain", "stop"} /\ result[m.call] = "none"
<1>1. /\ Tidings' /\ Head(queue) \in Message
      /\ Head(queue).kind = "done" =>
           Head(queue).value \in {"plain", "stop"} /\ result[Head(queue).call] = "none"
  BY TakeTidings DEF Story
<1>2. m.call \in Calls BY <1>1 DEF Message
<1> QED BY <1>1, <1>2, CallsAreNat

LEMMA UpdateIsAside ==
  ASSUME IInv, NEW i \in Nat
  PROVE  /\ Event("tool_update", i) \in Entry /\ Event("tool_update", i).type \notin Kinds
         /\ Event("tool_update", i).turn = turn
BY DEF IInv, Shapes, Event, Entry, Types, Kinds

(* a progress report is told *)
LEMMA UpdatedStory ==
  ASSUME IInv, Story, side # "append", NEW i \in Nat, Yield(Event("tool_update", i)),
         UNCHANGED <<turn, calls, log, result>>,
         pc \in InTurn, pc' \in InTurn, Recorded' = Recorded,
         \A j \in Calls : Announced(j)' <=> Announced(j),
         Handled', Tidings'
  PROVE  Story'
<1>1. PICK e : e = Event("tool_update", i) OBVIOUS
<1>2. e \in Entry /\ e.type \notin Kinds /\ e.turn = turn /\ turn \in Nat BY <1>1, UpdateIsAside, TaleIs
<1>3. turn' \in Nat /\ turn <= turn' /\ e.turn <= turn' BY <1>2
<1>4. Same(Tale, Tale') /\ EndedWhole(log') /\ Bounded(Tale', turn') BY <1>1, <1>2, <1>3, AsideTale
<1>5. pc' # "ask" BY DEF InTurn
<1> QED BY <1>4, <1>5, MovesStory

LEMMA CollectStory == ASSUME IInv, Story, Collect PROVE Story'
<1>0. /\ pc = "collect" /\ side # "append" /\ queue # <<>> /\ Take /\ at' = 1
      /\ UNCHANGED <<turn, calls, work, log>>
      /\ pc' = IF \E i \in Executable : result'[i] = "none" THEN "collect" ELSE "record"
  BY DEF Collect, At
<1>1. PICK m : m = Head(queue) OBVIOUS
<1>2. /\ result' = IF m.kind = "done" THEN [result EXCEPT ![m.call] = m.value] ELSE result
      /\ Yield(Event(IF m.kind = "done" THEN "tool_end" ELSE "tool_update", m.call))
  BY <1>1 DEF Collect
<1>3. /\ Tidings' /\ m \in Message /\ m.call \in Calls /\ m.call \in Nat
      /\ m.kind = "done" => m.value \in {"plain", "stop"} /\ result[m.call] = "none"
  BY <1>0, <1>1, <1>2, HeadIs
<1>4. pc \in InTurn /\ pc' \in InTurn BY <1>0 DEF InTurn
<1>5. Recorded' = Recorded BY <1>0 DEF Recorded
<1>6. \A i \in Calls : Announced(i)' <=> Announced(i) BY <1>0 DEF Announced
<1>7. result \in [Calls -> {"none", "plain", "stop"}] BY DEF IInv, Shapes
<1>8. \A i \in Calls : result'[i] = "none" => result[i] = "none" BY <1>2, <1>3, <1>7
<1>9. Handled'
  <2>1. /\ Len(calls) >= 1 /\ Len(calls) \in Nat
        /\ \A i \in 1..Len(calls) : work[i] # "none" \/ result[i] # "none"
        /\ \A i \in 1..Len(calls) : i \in Calls
    BY <1>0, SessionAssumption DEF Story, Handled, Done, IInv, Shapes, Calls
  <2>2. \A i \in 1..Len(calls) : work[i] # "none" \/ result'[i] # "none" BY <1>8, <2>1
  <2>3. pc' = "record" => \A i \in 1..Len(calls) : result'[i] # "none"
    <3>1. pc' = "record" => \A i \in Executable : result'[i] # "none" BY <1>0
    <3>2. \A i \in 1..Len(calls) : work[i] # "none" => i \in Executable BY DEF Executable
    <3> QED BY <2>2, <3>1, <3>2
  <2>4. at' \in 1..Len(calls) /\ pc' \in {"collect", "record"} BY <1>0, <2>1
  <2> QED BY <1>0, <2>1, <2>2, <2>3, <2>4 DEF Handled, Done
<1>10. CASE m.kind = "done"
  <2>1. /\ Yield(Event("tool_end", m.call)) /\ result' = [result EXCEPT ![m.call] = m.value]
        /\ m.value \in {"plain", "stop"} /\ result[m.call] = "none"
    BY <1>2, <1>3, <1>10
  <2>2. PICK c \in Calls, v \in {"plain", "stop"} : c = m.call /\ v = m.value BY <1>3, <2>1
  <2>3. Yield(Event("tool_end", c)) /\ result' = [result EXCEPT ![c] = v] /\ result[c] = "none"
    BY <2>1, <2>2
  <2> QED BY <1>0, <1>3, <1>4, <1>5, <1>6, <1>9, <2>3, EndedStory
<1>11. CASE m.kind # "done"
  <2>1. Yield(Event("tool_update", m.call)) /\ UNCHANGED result BY <1>2, <1>11
  <2> QED BY <1>0, <1>3, <1>4, <1>5, <1>6, <1>9, <2>1, UpdatedStory
<1> QED BY <1>10, <1>11

LEMMA DrainStory == ASSUME IInv, Story, Drain PROVE Story'
<1>0. /\ pc = "drain" /\ side # "append" /\ queue # <<>> /\ Take
      /\ UNCHANGED <<turn, calls, at, work, log>>
  BY DEF Drain, At
<1>1. PICK m : m = Head(queue) OBVIOUS
<1>2. \/ m.call # at /\ pc' = "raise" /\ Silent /\ UNCHANGED result
      \/ m.call = at /\ Yield(Event("tool_update", at)) /\ UNCHANGED <<pc, result>>
      \/ /\ m.call = at /\ m.kind = "done" /\ result' = [result EXCEPT ![at] = m.value]
         /\ Yield(Event("tool_end", at)) /\ pc' = "dispatch"
  BY <1>1 DEF Drain
<1>3. UNCHANGED result \/ (m.kind = "done" /\ result' = [result EXCEPT ![m.call] = m.value]) BY <1>2
<1>4. /\ Tidings' /\ m \in Message /\ m.call \in Calls /\ m.call \in Nat
      /\ m.kind = "done" => m.value \in {"plain", "stop"} /\ result[m.call] = "none"
  BY <1>0, <1>1, <1>3, HeadIs
<1>5. pc \in InTurn BY <1>0 DEF InTurn
<1>6. CASE m.call # at /\ pc' = "raise" /\ Silent /\ UNCHANGED result
  <2>1. side' = "loop" BY <1>6 DEF Silent
  <2>2. EndedWhole(log') /\ EndedWhole(Tale') /\ Bounded(Tale', turn') BY <1>0, <2>1, QuietTale
  <2> QED BY <1>4, <1>6, <2>2, OutsideStory DEF InTurn
<1>7. CASE m.call = at /\ Yield(Event("tool_update", at)) /\ UNCHANGED <<pc, result>>
  <2>1. pc' \in InTurn BY <1>5, <1>7
  <2>2. Recorded' = Recorded BY <1>0, <1>7 DEF Recorded
  <2>3. \A i \in Calls : Announced(i)' <=> Announced(i) BY <1>0, <1>7 DEF Announced
  <2>4. Handled' BY <1>0, <1>7 DEF Story, Handled, Done
  <2>5. at \in Nat BY <1>4, <1>7
  <2> QED BY <1>0, <1>4, <1>5, <1>7, <2>1, <2>2, <2>3, <2>4, <2>5, UpdatedStory
<1>8. CASE /\ m.call = at /\ m.kind = "done" /\ result' = [result EXCEPT ![at] = m.value]
           /\ Yield(Event("tool_end", at)) /\ pc' = "dispatch"
  <2>1. pc' \in InTurn BY <1>8 DEF InTurn
  <2>2. Recorded' = Recorded BY <1>0, <1>8 DEF Recorded
  <2>3. \A i \in Calls : Announced(i)' <=> Announced(i) BY <1>0, <1>8 DEF Announced
  <2>4. PICK c \in Calls, v \in {"plain", "stop"} : c = at /\ c = m.call /\ v = m.value BY <1>4, <1>8
  <2>5. Yield(Event("tool_end", c)) /\ result' = [result EXCEPT ![c] = v] /\ result[c] = "none"
    BY <1>4, <1>8, <2>4
  <2>6. result \in [Calls -> {"none", "plain", "stop"}] BY DEF IInv, Shapes
  <2>7. result'[c] # "none" /\ \A i \in Calls : i # c => result'[i] = result[i] BY <2>5, <2>6
  <2>8. Handled'
    <3>1. /\ Len(calls) >= 1 /\ \A i \in 1..Len(calls) : i \in Calls
          /\ \A i \in 1..Len(calls) : i = at \/ work[i] = "ready" \/ result[i] # "none"
      BY <1>0, SessionAssumption DEF Story, Handled, Done, IInv, Shapes, Calls
    <3>2. \A i \in 1..Len(calls) : work[i] = "ready" \/ result'[i] # "none" BY <2>4, <2>7, <3>1
    <3> QED BY <1>0, <1>8, <3>1, <3>2 DEF Handled, Done
  <2> QED BY <1>0, <1>4, <1>5, <2>1, <2>2, <2>3, <2>5, <2>8, EndedStory
<1> QED BY <1>2, <1>6, <1>7, <1>8

-----------------------------------------------------------------------------
(* The steps that tell nothing of the turn *)

LEMMA AsidesAre ==
  ASSUME IInv
  PROVE  \A type \in {"agent_start", "agent_end", "error"} :
           /\ Event(type, 0) \in Entry /\ Event(type, 0).type \notin Kinds /\ Event(type, 0).turn = turn
BY DEF IInv, Shapes, Event, Entry, Types, Kinds

LEMMA TellingAside ==
  ASSUME IInv, Story, side # "append", NEW type \in {"agent_start", "agent_end", "error"},
         Yield(Event(type, 0)), UNCHANGED <<turn, queue, result, log>>, pc' \notin InTurn \cup {"ask"}
  PROVE  Story'
<1>1. PICK e : e = Event(type, 0) OBVIOUS
<1>2. e \in Entry /\ e.type \notin Kinds /\ e.turn = turn /\ turn \in Nat BY <1>1, AsidesAre, TaleIs
<1>3. turn' \in Nat /\ turn <= turn' /\ e.turn <= turn' BY <1>2
<1>4. EndedWhole(log') /\ EndedWhole(Tale') /\ Bounded(Tale', turn') BY <1>1, <1>2, <1>3, AsideTale
<1>5. Tidings' BY KeptTidings DEF Story
<1> QED BY <1>4, <1>5, OutsideStory

LEMMA LeavingStory ==
  ASSUME IInv, Story, Start \/ AskFails \/ HookFails \/ Conclude \/ GoOn \/ Report \/ Return \/ LeavePool \/ Abandon
  PROVE  Story'
<1>1. CASE Start
  <2>1. /\ pc' = "turn" /\ side # "append" /\ Yield(Event("agent_start", 0))
        /\ UNCHANGED <<turn, queue, result, log>>
    BY <1>1 DEF Start, At, workVars
  <2> QED BY <2>1, TellingAside DEF InTurn
<1>2. CASE Conclude
  <2>1. /\ pc' = "finish" /\ side # "append" /\ Yield(Event("agent_end", 0))
        /\ UNCHANGED <<turn, queue, result, log>>
    BY <1>2 DEF Conclude, At, workVars
  <2> QED BY <2>1, TellingAside DEF InTurn
<1>3. CASE Report
  <2>1. /\ pc' \in {"give_up", "fail"} /\ side # "append"
        /\ Yield(Event("error", 0)) \/ Yield(Event("agent_end", 0))
        /\ UNCHANGED <<turn, queue, result, log>>
    BY <1>3 DEF Report, At, workVars
  <2> QED BY <2>1, TellingAside DEF InTurn
<1>4. CASE AskFails \/ HookFails \/ GoOn \/ Return \/ LeavePool \/ Abandon
  <2>1. /\ UNCHANGED <<turn, log>>
        /\ UNCHANGED <<side, pending, log>> \/ (side # "append" /\ side' # "append" /\ log' = log)
        /\ pc' \in {"error", "turn", "done", "failed", "closed", "closing"}
    BY <1>4 DEF AskFails, HookFails, GoOn, Return, LeavePool, Abandon, At, Silent, workVars
  <2>2. EndedWhole(log') /\ EndedWhole(Tale') /\ Bounded(Tale', turn') BY <2>1, QuietTale
  <2>3. UNCHANGED <<queue, result>> \/ queue' = <<>>
    BY <1>4 DEF AskFails, HookFails, GoOn, Return, LeavePool, Abandon, NoBatch, workVars
  <2>4. Tidings' BY <2>3, KeptTidings, NoTidings DEF Story
  <2> QED BY <2>1, <2>2, <2>4, OutsideStory DEF InTurn
<1> QED BY <1>1, <1>2, <1>3, <1>4

(* an event that is lost leaves the log as it was *)
LEMMA LosingStory == ASSUME IInv, Story, AppendFails \/ Crash PROVE Story'
<1>1. /\ pc' \in {"closing", "crashed"} /\ side' = "loop" /\ UNCHANGED <<turn, log>>
      /\ UNCHANGED <<queue, result>> \/ queue' = <<>>
  BY DEF AppendFails, Crash, NoBatch, workVars
<1>2. Tale' = log BY <1>1 DEF Tale
<1>3. Bounded(log, turn)
  <2>1. log \in Seq(Entry) /\ pending \in Entry BY TaleIs
  <2>2. CASE side = "append"
    <3>1. PICK w : w = Append(log, pending) OBVIOUS
    <3>2. Bounded(w, turn) BY <2>2, <3>1 DEF Story, Tale
    <3>3. Len(log) \in Nat /\ Len(w) = Len(log) + 1 /\ \A k \in 1..Len(log) : w[k] = log[k]
      BY <2>1, <3>1
    <3>4. \A k \in 1..Len(log) : k \in 1..Len(w) BY <3>3
    <3> QED BY <3>2, <3>3, <3>4 DEF Bounded
  <2>3. CASE side # "append" BY <2>3 DEF Story, Tale
  <2> QED BY <2>2, <2>3
<1>4. EndedWhole(log) BY DEF Story
<1>5. EndedWhole(log') /\ EndedWhole(Tale') /\ Bounded(Tale', turn') BY <1>1, <1>2, <1>3, <1>4
<1>6. Tidings' BY <1>1, KeptTidings, NoTidings DEF Story
<1> QED BY <1>1, <1>5, <1>6, OutsideStory DEF InTurn

(* a step that leaves the loop where it is *)
LEMMA StillStory ==
  ASSUME IInv, Story, UNCHANGED <<pc, turn, calls, at, result>>, Same(Tale, Tale'), EndedWhole(log'),
         Bounded(Tale', turn'), Tidings',
         \A i \in Calls :
           /\ work[i] = "ready" /\ pc # "collect" => work'[i] = "ready"
           /\ work[i] # "none" /\ pc = "collect" => work'[i] # "none"
  PROVE  Story'
<1>1. Recorded' = Recorded BY DEF Recorded
<1>2. \A i \in Calls : Announced(i)' <=> Announced(i) BY DEF Announced
<1>3. Handled'
  <2>1. /\ at \in Nat /\ Len(calls) \in Nat /\ Len(calls) <= MaxCalls /\ MaxCalls \in Nat
        /\ pc \in {"announce", "prepare"} => at \in 1..Len(calls)
    BY SessionAssumption DEF IInv, Shapes, Ahead
  <2>2. \A i \in 1..Len(calls) : i \in Calls BY <2>1 DEF Calls
  <2>3. pc \in {"announce", "prepare"} => \A i \in 1..(at - 1) : i \in Calls BY <2>1 DEF Calls
  <2>4. pc \in {"announce", "prepare"} => \A i \in 1..(at - 1) : work'[i] = "ready" \/ result[i] # "none"
    BY <2>3 DEF Story, Handled, Done
  <2>5. /\ pc = "dispatch" => \A i \in 1..Len(calls) : work'[i] = "ready" \/ result[i] # "none"
        /\ pc = "drain" => \A i \in 1..Len(calls) : i = at \/ work'[i] = "ready" \/ result[i] # "none"
        /\ pc = "collect" => \A i \in 1..Len(calls) : work'[i] # "none" \/ result[i] # "none"
    BY <2>2 DEF Story, Handled, Done
  <2> QED BY <2>4, <2>5 DEF Story, Handled, Done
<1>4. pc' \in InTurn => pc \in InTurn OBVIOUS
<1> QED BY <1>1, <1>2, <1>3, <1>4, MovesStory

LEMMA AppendStory == ASSUME IInv, Story, AppendEvent PROVE Story'
<1>1. /\ side = "append" /\ side' = "consumer" /\ log' = Append(log, pending)
      /\ UNCHANGED <<pc, turn, calls, at, result, work, queue>>
  BY DEF AppendEvent, workVars
<1>2. Tale' = Tale /\ log' = Tale BY <1>1 DEF Tale
<1>3. Same(Tale, Tale') /\ EndedWhole(log') /\ Bounded(Tale', turn') BY <1>1, <1>2, SameSelf DEF Story
<1>4. Tidings' BY <1>1, KeptTidings DEF Story
<1> QED BY <1>1, <1>3, <1>4, StillStory

LEMMA AbortStory == ASSUME IInv, Story, Abort \/ UNCHANGED vars PROVE Story'
<1>1. UNCHANGED <<pc, side, pending, turn, calls, at, result, work, queue, log>>
  BY DEF Abort, vars, loopVars, workVars
<1>2. Same(Tale, Tale') /\ EndedWhole(log') /\ Bounded(Tale', turn') BY <1>1, QuietTale
<1>3. Tidings' BY <1>1, KeptTidings DEF Story
<1> QED BY <1>1, <1>2, <1>3, StillStory

LEMMA WorkerStory ==
  ASSUME IInv, Story, NEW i \in Calls, Worker(i) \/ Accept(i) \/ PutUpdate(i) PROVE Story'
<1>1. UNCHANGED <<pc, side, pending, turn, calls, at, result, log>>
  BY DEF Worker, BeginTool, SkipTool, FinishTool, Accept, PutUpdate, loopVars
<1>2. Same(Tale, Tale') /\ EndedWhole(log') /\ Bounded(Tale', turn') BY <1>1, QuietTale
<1>3. UNCHANGED work \/ (Busy(i) /\ \E w \in {"running", "finished"} : work' = [work EXCEPT ![i] = w])
  BY DEF Worker, BeginTool, SkipTool, FinishTool, Accept, PutUpdate, Busy
<1>4. work \in [Calls -> {"none", "ready", "submitted", "running", "finished"}] BY DEF IInv, Shapes
<1>5. \A j \in Calls :
        /\ work[j] = "ready" => work'[j] = "ready"
        /\ work[j] # "none" => work'[j] # "none"
  BY <1>3, <1>4 DEF Busy
<1>6. \/ UNCHANGED queue
      \/ \E m \in Message : queue' = Append(queue, m) /\ (m.kind = "done" => Busy(m.call) /\ m.value # "none")
  <2>1. CASE SkipTool(i) \/ FinishTool(i)
    <3>1. PICK v \in {"plain", "stop"} : queue' = Append(queue, [call |-> i, kind |-> "done", value |-> v])
      BY <2>1 DEF SkipTool, FinishTool, Put
    <3>2. PICK m : m = [call |-> i, kind |-> "done", value |-> v] OBVIOUS
    <3>3. m \in Message /\ m.call = i /\ m.value # "none" BY <3>2 DEF Message
    <3>4. Busy(i) BY <2>1 DEF SkipTool, FinishTool, Busy
    <3> QED BY <3>1, <3>2, <3>3, <3>4
  <2>2. CASE PutUpdate(i)
    <3>1. PICK m : m = [call |-> i, kind |-> "update", value |-> "none"] OBVIOUS
    <3>2. m \in Message /\ m.kind = "update" BY <3>1 DEF Message
    <3>3. queue' = Append(queue, m) BY <2>2, <3>1 DEF PutUpdate, Put
    <3> QED BY <3>2, <3>3
  <2>3. CASE BeginTool(i) \/ Accept(i) BY <2>3 DEF BeginTool, Accept
  <2> QED BY <2>1, <2>2, <2>3 DEF Worker
<1>7. Tidings' BY <1>1, <1>6, KeptTidings, PutTidings DEF Story
<1> QED BY <1>1, <1>2, <1>5, <1>7, StillStory

LEMMA NextStory == ASSUME IInv, Story, [Next]_vars PROVE Story'
<1>1. CASE Loop
  BY <1>1, LeavingStory, BeginTurnStory, AskStory, AnnounceStory, PrepareStory, DispatchStory, CollectStory,
     DrainStory, RecordStory, EndTurnStory DEF Loop
<1>2. CASE Session BY <1>2, AppendStory, LosingStory DEF Session
<1>3. CASE Abandon \/ Crash BY <1>3, LeavingStory, LosingStory
<1>4. CASE Abort \/ UNCHANGED vars BY <1>4, AbortStory
<1>5. ASSUME NEW i \in Calls, Worker(i) \/ Accept(i) \/ PutUpdate(i) PROVE Story'
  BY <1>5, WorkerStory
<1> QED BY <1>1, <1>2, <1>3, <1>4, <1>5 DEF Next

THEOREM StoryHolds == Spec => [](IInv /\ Story)
<1>1. Init => IInv /\ Story BY InitInv, InitStory
<1>2. (IInv /\ Story) /\ [Next]_vars => (IInv /\ Story)' BY NextInv, NextStory
<1> QED BY <1>1, <1>2, PTL DEF Spec

(* an entry that is there once is counted once *)
LEMMA UniqueCounts ==
  ASSUME NEW t, NEW type, NEW i, Unique(log, Ev(t, type, i))
  PROVE  Count(t, type, i) = 1
<1>1. PICK k \in 1..Len(log) :
        log[k] = Ev(t, type, i) /\ \A j \in 1..Len(log) : log[j] = Ev(t, type, i) => j = k
  BY DEF Unique
<1>2. {j \in 1..Len(log) : log[j] = [turn |-> t, type |-> type, call |-> i]} = {k} BY <1>1 DEF Ev
<1>3. Cardinality({k}) = 1 BY FS_Singleton
<1> QED BY <1>2, <1>3 DEF Count

(* A turn that the log ends is whole, whatever its workers did, whoever      *)
(* aborted or left it and wherever it was interrupted: every call of its     *)
(* answer was announced once and ended once, and the transcript has its      *)
(* results, one for each call, in the order of the calls, which the workers  *)
(* did not keep (execute_batch of ToolExecutor, finalized[index] = result).  *)
THEOREM WholeTurnsTheorem == Spec => []EndedTurnsAreWhole
<1>1. ASSUME IInv, Story PROVE EndedTurnsAreWhole
  <2> SUFFICES ASSUME NEW t \in 1..turn, NEW n \in 0..MaxCalls,
                      Logged(t, "turn_end", 0), Logged(t, "answer", n)
               PROVE  /\ \A i \in 1..n : Count(t, "tool_start", i) = 1 /\ Count(t, "tool_end", i) = 1
                      /\ Results(t) = [i \in 1..n |-> [turn |-> t, type |-> "result", call |-> i]]
    BY DEF EndedTurnsAreWhole
  <2>1. t \in Nat /\ n \in Nat /\ log \in Seq(Entry) BY <1>1, CallsAreNat, TaleIs
  <2>2. In(log, Ev(t, "turn_end", 0)) /\ In(log, Ev(t, "answer", n)) BY DEF Logged, In, Ev
  <2>3. Entire(log, t, n) BY <1>1, <2>1, <2>2 DEF Story, EndedWhole
  <2>4. \A i \in 1..n : Count(t, "tool_start", i) = 1 /\ Count(t, "tool_end", i) = 1
    BY <2>3, UniqueCounts DEF Entire
  <2>5. PICK r : r = Results(t) OBVIOUS
  <2>6. r = Selected(log, ResultsOf(t)) BY <2>5 DEF Results, ResultsOf
  <2>7. r \in Seq(Entry) BY <2>1, <2>6, SelectedElements
  <2>8. Len(r) = n /\ \A i \in 1..n : r[i] = [turn |-> t, type |-> "result", call |-> i]
    BY <2>3, <2>6 DEF Entire, ResultsUpTo, Ev
  <2>9. r = [i \in 1..n |-> [turn |-> t, type |-> "result", call |-> i]]
    <3>1. DOMAIN r = 1..n /\ r = [i \in DOMAIN r |-> r[i]] BY <2>7, <2>8
    <3> QED BY <2>8, <3>1
  <2> QED BY <2>4, <2>5, <2>9
<1> QED BY <1>1, StoryHolds, PTL

-----------------------------------------------------------------------------
(* Nobody waits for nobody.  The loop blocks in two places for a message of  *)
(* its workers.  There it waits for a call that was submitted (Wanted), and  *)
(* a worker that ended without its result being taken has it in the queue    *)
(* (Owed); so an empty queue means that a worker is still to speak.          *)

Outstanding(i) == work[i] \in {"submitted", "running", "finished"} /\ result[i] = "none"
Wanted ==
  /\ pc = "collect" => (\E i \in Calls : Outstanding(i)) /\ \A i \in Calls : work[i] # "ready"
  /\ pc = "drain" => at \in Calls /\ Outstanding(at)
HasWord(s, i) == \E k \in 1..Len(s) : s[k].kind = "done" /\ s[k].call = i
Owed ==
  pc \in {"announce", "prepare", "dispatch", "collect", "drain"} =>
    \A i \in Calls : work[i] = "finished" /\ result[i] = "none" => HasWord(queue, i)
Spoken == Wanted /\ Owed

(* a step after which the loop does not wait, nor is about to *)
LEMMA ElsewhereSpoken == ASSUME pc' \notin {"announce", "prepare", "dispatch", "collect", "drain"} PROVE Spoken'
BY DEF Spoken, Wanted, Owed

LEMMA HasWordTail ==
  ASSUME NEW s \in Seq(Message), s # <<>>, NEW i,
         HasWord(s, i), Head(s).kind # "done" \/ Head(s).call # i
  PROVE  HasWord(Tail(s), i)
<1>1. PICK t : t = Tail(s) OBVIOUS
<1>2. /\ Len(s) \in Nat /\ Len(s) >= 1 /\ Len(t) = Len(s) - 1 /\ Head(s) = s[1]
      /\ \A k \in 1..Len(t) : t[k] = s[k + 1]
  BY <1>1
<1>3. PICK k \in 1..Len(s) : s[k].kind = "done" /\ s[k].call = i BY DEF HasWord
<1>4. k # 1 BY <1>2, <1>3
<1>5. k - 1 \in 1..Len(t) /\ t[k - 1] = s[k] BY <1>2, <1>3, <1>4
<1> QED BY <1>1, <1>3, <1>5 DEF HasWord

LEMMA HasWordAppend ==
  ASSUME NEW s \in Seq(Message), NEW m \in Message, NEW i
  PROVE  /\ HasWord(s, i) => HasWord(Append(s, m), i)
         /\ m.kind = "done" /\ m.call = i => HasWord(Append(s, m), i)
<1>1. PICK w : w = Append(s, m) OBVIOUS
<1>2. /\ Len(s) \in Nat /\ Len(w) = Len(s) + 1 /\ w[Len(w)] = m /\ Len(w) \in 1..Len(w)
      /\ \A k \in 1..Len(s) : w[k] = s[k] /\ k \in 1..Len(w)
  BY <1>1
<1>3. HasWord(s, i) => HasWord(w, i) BY <1>2 DEF HasWord
<1>4. m.kind = "done" /\ m.call = i => HasWord(w, i) BY <1>2 DEF HasWord
<1> QED BY <1>1, <1>3, <1>4

(* a step that takes a message and stays, or goes back to the next call *)
LEMMA TakeSpoken ==
  ASSUME IInv, Spoken, pc \in {"collect", "drain"}, queue # <<>>, Take, UNCHANGED work, NEW m, m = Head(queue),
         result' = IF m.kind = "done" THEN [result EXCEPT ![m.call] = m.value] ELSE result,
         m.kind = "done" => m.value # "none"
  PROVE  Owed'
<1>1. queue \in Seq(Message) /\ result \in [Calls -> {"none", "plain", "stop"}] BY DEF IInv, Shapes
<1>2. \A i \in Calls : work[i] = "finished" /\ result[i] = "none" => HasWord(queue, i)
  BY DEF Spoken, Owed
<1>3. ASSUME NEW i \in Calls, work[i] = "finished", result'[i] = "none" PROVE HasWord(queue', i)
  <2>1. result[i] = "none" /\ (m.kind # "done" \/ m.call # i) BY <1>1, <1>3
  <2>2. HasWord(queue, i) BY <1>2, <1>3, <2>1
  <2>3. HasWord(Tail(queue), i) BY <1>1, <2>1, <2>2, HasWordTail
  <2> QED BY <2>3 DEF Take
<1> QED BY <1>3 DEF Owed

LEMMA CollectSpoken == ASSUME IInv, Story, Spoken, Collect PROVE Spoken'
<1>0. /\ pc = "collect" /\ queue # <<>> /\ Take /\ UNCHANGED <<calls, work>>
      /\ pc' = IF \E i \in Executable : result'[i] = "none" THEN "collect" ELSE "record"
  BY DEF Collect, At
<1>1. PICK m : m = Head(queue) OBVIOUS
<1>2. result' = IF m.kind = "done" THEN [result EXCEPT ![m.call] = m.value] ELSE result
  BY <1>1 DEF Collect
<1>3. m.kind = "done" => m.value \in {"plain", "stop"} BY <1>0, <1>1, <1>2, HeadIs
<1>4. Owed' BY <1>0, <1>1, <1>2, <1>3, TakeSpoken
<1>5. ASSUME pc' = "collect" PROVE \E i \in Calls : Outstanding(i)'
  <2>1. PICK i \in Executable : result'[i] = "none" BY <1>0, <1>5
  <2>2. i \in Calls /\ i \in 1..Len(calls) /\ work[i] # "none"
    BY SessionAssumption DEF Executable, IInv, Shapes, Calls
  <2>3. work[i] # "ready" BY <1>0, <2>2 DEF Spoken, Wanted
  <2> QED BY <1>0, <2>1, <2>2, <2>3 DEF Outstanding, IInv, Shapes
<1>6. pc' # "drain" BY <1>0
<1>7. pc' = "collect" => \A i \in Calls : work'[i] # "ready" BY <1>0 DEF Spoken, Wanted
<1> QED BY <1>4, <1>5, <1>6, <1>7 DEF Spoken, Wanted

LEMMA DrainSpoken == ASSUME IInv, Story, Spoken, Drain PROVE Spoken'
<1>0. pc = "drain" /\ queue # <<>> /\ Take /\ UNCHANGED <<at, work>> BY DEF Drain, At
<1>1. PICK m : m = Head(queue) OBVIOUS
<1>2. \/ m.call # at /\ pc' = "raise"
      \/ m.call = at /\ m.kind = "update" /\ UNCHANGED <<pc, result>>
      \/ m.call = at /\ m.kind = "done" /\ result' = [result EXCEPT ![m.call] = m.value] /\ pc' = "dispatch"
  BY <1>1 DEF Drain
<1>3. CASE m.call # at /\ pc' = "raise" BY <1>3, ElsewhereSpoken
<1>4. CASE m.call = at /\ m.kind = "update" /\ UNCHANGED <<pc, result>>
  <2>1. Owed' BY <1>0, <1>1, <1>4, TakeSpoken
  <2>2. Wanted' BY <1>0, <1>4 DEF Spoken, Wanted, Outstanding
  <2> QED BY <2>1, <2>2 DEF Spoken
<1>5. CASE m.call = at /\ m.kind = "done" /\ result' = [result EXCEPT ![m.call] = m.value] /\ pc' = "dispatch"
  <2>1. m.value \in {"plain", "stop"} BY <1>0, <1>1, <1>5, HeadIs
  <2>2. Owed' BY <1>0, <1>1, <1>5, <2>1, TakeSpoken
  <2> QED BY <1>5, <2>2 DEF Spoken, Wanted
<1> QED BY <1>2, <1>3, <1>4, <1>5

LEMMA PrepareSpoken == ASSUME IInv, Spoken, Prepare PROVE Spoken'
<1>1. pc = "prepare" /\ pc' \in {"dispatch", "announce"} /\ UNCHANGED queue BY DEF Prepare, At
<1>2. \/ \E v \in {"plain"} : result' = [result EXCEPT ![at] = v] /\ UNCHANGED work
      \/ work' = [work EXCEPT ![at] = "ready"] /\ UNCHANGED result
  BY DEF Prepare
<1>3. /\ result \in [Calls -> {"none", "plain", "stop"}]
      /\ work \in [Calls -> {"none", "ready", "submitted", "running", "finished"}]
  BY DEF IInv, Shapes
<1>4. \A i \in Calls : work'[i] = "finished" /\ result'[i] = "none" =>
        work[i] = "finished" /\ result[i] = "none"
  BY <1>2, <1>3
<1>5. Owed' BY <1>1, <1>4 DEF Spoken, Owed
<1> QED BY <1>1, <1>5 DEF Spoken, Wanted

LEMMA DispatchSpoken == ASSUME IInv, Spoken, Dispatch PROVE Spoken'
<1>1. /\ pc = "dispatch" /\ UNCHANGED <<result, queue>>
      /\ pc' = IF Sequential THEN "drain" ELSE "collect"
  BY DEF Dispatch, At
<1>2. PICK i \in Ready :
        /\ at' = i
        /\ work' = [j \in Calls |-> IF j = i \/ (j \in Ready /\ ~Sequential) THEN "submitted" ELSE work[j]]
  BY DEF Dispatch
<1>3. Ready \subseteq Calls /\ \A j \in Calls : j \in Ready => work[j] = "ready"
  BY SessionAssumption DEF Ready, Executable, IInv, Shapes, Calls
<1>4. \A j \in Calls : work[j] = "ready" => j \in Ready BY DEF Ready, Executable, IInv, Told, Calls
<1>5. result[i] = "none" BY <1>3 DEF IInv, HandedIn
<1>6. work'[i] = "submitted" BY <1>2, <1>3
<1>7. ~Sequential => \A j \in Calls : work'[j] # "ready" BY <1>2, <1>4
<1>8. \A j \in Calls : work'[j] = "finished" => work[j] = "finished" BY <1>2
<1>9. Owed' BY <1>1, <1>8 DEF Spoken, Owed
<1>10. Wanted' BY <1>1, <1>2, <1>3, <1>5, <1>6, <1>7 DEF Wanted, Outstanding
<1> QED BY <1>9, <1>10 DEF Spoken

LEMMA AskSpoken == ASSUME IInv, Spoken, Ask \/ Announce PROVE Spoken'
<1>1. CASE Ask
  <2>1. pc = "ask" /\ pc' \in {"turn_end", "announce"} /\ UNCHANGED <<result, work, queue>>
    BY <1>1 DEF Ask, At, workVars
  <2>2. \A i \in Calls : work[i] = "none" BY <2>1 DEF IInv, Fresh, Untouched
  <2>3. Owed' BY <2>1, <2>2 DEF Owed
  <2> QED BY <2>1, <2>3 DEF Spoken, Wanted
<1>2. CASE Announce
  <2>1. pc = "announce" /\ pc' = "prepare" /\ UNCHANGED <<result, work, queue>>
    BY <1>2 DEF Announce, At, workVars
  <2>2. Owed' BY <2>1 DEF Spoken, Owed
  <2> QED BY <2>1, <2>2 DEF Spoken, Wanted
<1> QED BY <1>1, <1>2

LEMMA StillSpoken ==
  ASSUME IInv, Spoken, UNCHANGED <<pc, at, result, work, queue>> PROVE Spoken'
BY DEF Spoken, Wanted, Owed, Outstanding

LEMMA WorkerSpoken ==
  ASSUME IInv, Spoken, NEW i \in Calls, Worker(i) \/ Accept(i) \/ PutUpdate(i) PROVE Spoken'
<1>0. /\ UNCHANGED <<pc, at, result>> /\ queue \in Seq(Message)
      /\ work \in [Calls -> {"none", "ready", "submitted", "running", "finished"}]
  BY DEF Worker, BeginTool, SkipTool, FinishTool, Accept, PutUpdate, loopVars, IInv, Shapes
<1>1. CASE SkipTool(i) \/ FinishTool(i)
  <2>1. Busy(i) /\ work' = [work EXCEPT ![i] = "finished"] BY <1>1 DEF SkipTool, FinishTool, Busy
  <2>2. PICK v \in {"plain", "stop"} : queue' = Append(queue, [call |-> i, kind |-> "done", value |-> v])
    BY <1>1 DEF SkipTool, FinishTool, Put
  <2>3. PICK m : m = [call |-> i, kind |-> "done", value |-> v] OBVIOUS
  <2>4. m \in Message /\ m.call = i /\ m.kind = "done" BY <2>3 DEF Message
  <2>5. \A j \in Calls : /\ HasWord(queue, j) => HasWord(queue', j)
                         /\ j = i => HasWord(queue', j)
    BY <1>0, <2>2, <2>3, <2>4, HasWordAppend
  <2>6. \A j \in Calls : j # i => work'[j] = work[j] BY <1>0, <2>1
  <2>7. Owed' BY <1>0, <2>5, <2>6 DEF Spoken, Owed
  <2>8. work'[i] = "finished" /\ work[i] \in {"submitted", "running"} BY <1>0, <2>1 DEF Busy
  <2>9. Wanted' BY <1>0, <2>6, <2>8 DEF Spoken, Wanted, Outstanding
  <2> QED BY <2>7, <2>9 DEF Spoken
<1>2. CASE BeginTool(i)
  <2>1. work' = [work EXCEPT ![i] = "running"] /\ work[i] = "submitted" /\ UNCHANGED queue
    BY <1>2 DEF BeginTool
  <2>2. \A j \in Calls : j # i => work'[j] = work[j] BY <1>0, <2>1
  <2>3. work'[i] = "running" BY <1>0, <2>1
  <2>4. Owed' BY <1>0, <2>1, <2>2, <2>3 DEF Spoken, Owed
  <2>5. Wanted' BY <1>0, <2>1, <2>2, <2>3 DEF Spoken, Wanted, Outstanding
  <2> QED BY <2>4, <2>5 DEF Spoken
<1>3. CASE Accept(i)
  <2>1. UNCHANGED <<work, queue>> BY <1>3 DEF Accept
  <2> QED BY <1>0, <2>1, StillSpoken
<1>4. CASE PutUpdate(i)
  <2>1. UNCHANGED work BY <1>4 DEF PutUpdate
  <2>2. PICK m : m = [call |-> i, kind |-> "update", value |-> "none"] OBVIOUS
  <2>3. m \in Message BY <2>2 DEF Message
  <2>4. queue' = Append(queue, m) BY <1>4, <2>2 DEF PutUpdate, Put
  <2>5. \A j \in Calls : HasWord(queue, j) => HasWord(queue', j) BY <1>0, <2>3, <2>4, HasWordAppend
  <2>6. Owed' BY <1>0, <2>1, <2>5 DEF Spoken, Owed
  <2>7. Wanted' BY <1>0, <2>1 DEF Spoken, Wanted, Outstanding
  <2> QED BY <2>6, <2>7 DEF Spoken
<1> QED BY <1>1, <1>2, <1>3, <1>4 DEF Worker

LEMMA NextSpoken == ASSUME IInv, Story, Spoken, [Next]_vars PROVE Spoken'
<1>1. CASE Start \/ BeginTurn \/ AskFails \/ HookFails \/ Dispatched \/ Record \/ EndTurn \/ Conclude \/ GoOn \/ Report
           \/ Return \/ LeavePool \/ AppendFails \/ Abandon \/ Crash
  <2>1. pc' \notin {"announce", "prepare", "dispatch", "collect", "drain"}
    BY <1>1 DEF Start, BeginTurn, AskFails, HookFails, Dispatched, Record, EndTurn, Conclude, GoOn, Report, Return,
                LeavePool, AppendFails, Abandon, Crash, At
  <2> QED BY <2>1, ElsewhereSpoken
<1>2. CASE Ask \/ Announce \/ Prepare \/ Dispatch \/ Collect \/ Drain
  BY <1>2, AskSpoken, PrepareSpoken, DispatchSpoken, CollectSpoken, DrainSpoken
<1>3. CASE AppendEvent \/ Abort \/ UNCHANGED vars
  <2>1. UNCHANGED <<pc, at, result, work, queue>> BY <1>3 DEF AppendEvent, Abort, vars, loopVars, workVars
  <2> QED BY <2>1, StillSpoken
<1>4. ASSUME NEW i \in Calls, Worker(i) \/ Accept(i) \/ PutUpdate(i) PROVE Spoken'
  BY <1>4, WorkerSpoken
<1> QED BY <1>1, <1>2, <1>3, <1>4 DEF Next, Loop, Session

(* The loop never waits for a message that nobody will put: where it blocks  *)
(* in updates.get, the queue holds something or a worker is still to put its *)
(* result (execute_batch, _drain_one, _execute_worker).  It is the safety    *)
(* part of RunEnds: a batch that counts its results wrongly, or a worker     *)
(* that ends without a word, would break it.                                 *)
WaitsAreAnswered == pc \in {"collect", "drain"} /\ queue = <<>> => Pooled

THEOREM WaitsTheorem == Spec => []WaitsAreAnswered
<1>1. Init => Spoken BY ElsewhereSpoken DEF Init, Spoken, Wanted, Owed
<1>2. Init => IInv /\ Story /\ Spoken BY <1>1, InitInv, InitStory
<1>3. (IInv /\ Story /\ Spoken) /\ [Next]_vars => (IInv /\ Story /\ Spoken)'
  BY NextInv, NextStory, NextSpoken
<1>4. ASSUME Spoken PROVE WaitsAreAnswered
  <2> SUFFICES ASSUME pc \in {"collect", "drain"}, queue = <<>> PROVE Pooled
    BY DEF WaitsAreAnswered
  <2>1. PICK i \in Calls : Outstanding(i) BY <1>4 DEF Spoken, Wanted
  <2>2. ~HasWord(queue, i)
    <3>1. Len(<<>>) = 0 OBVIOUS
    <3> QED BY <3>1 DEF HasWord
  <2>3. work[i] # "finished" BY <1>4, <2>1, <2>2 DEF Spoken, Owed, Outstanding
  <2> QED BY <2>1, <2>3 DEF Outstanding, Busy, Pooled
<1> QED BY <1>2, <1>3, <1>4, PTL DEF Spec

-----------------------------------------------------------------------------
(* Every step brings the run nearer to its end: a turn of the bounded many   *)
(* is begun, or a stage of the turn is passed, or a call of the stage, or a  *)
(* worker reaches a milestone it has not passed before, or a message is      *)
(* taken, an event appended, an abort set.  The order of these is            *)
(* lexicographic and each has finitely many values below it.                 *)

Stage == [start |-> 13, ask |-> 12, announce |-> 11, prepare |-> 11, dispatch |-> 10, drain |-> 10,
          collect |-> 10, record |-> 9, turn_end |-> 8, decide |-> 7, turn |-> 6, raise |-> 5, error |-> 4,
          give_up |-> 3, fail |-> 2, finish |-> 2, closing |-> 1,
          done |-> 0, failed |-> 0, closed |-> 0, crashed |-> 0]

(* the steps the loop itself has still to make for the calls of a stage *)
CallsAhead ==
  CASE pc = "announce" -> 2 * (MaxCalls - at) + 1
    [] pc \in {"prepare", "record"} -> 2 * (MaxCalls - at)
    [] OTHER -> 0

Milestones == {"submitted", "begun", "ended", "accepted", "put"}
Passed(i) ==
  (CASE work[i] = "submitted" -> {"submitted"}
     [] work[i] = "running" -> {"submitted", "begun"}
     [] work[i] = "finished" -> {"submitted", "begun", "ended"}
     [] OTHER -> {})
  \cup
  (CASE report[i] = "sent" -> {"accepted"}
     [] report[i] = "queued" -> {"accepted", "put"}
     [] OTHER -> {})
ToDo == {x \in Calls \X Milestones : x[2] \notin Passed(x[1])}

Counted ==
  /\ turn \in 0..MaxTurns
  /\ report \in [Calls -> {"none", "sent", "queued"}]
  /\ side = "append" => pc \notin Over \cup {"closing"}

SameStage == turn' = turn /\ Stage[pc'] = Stage[pc]
SameCalls == SameStage /\ CallsAhead' = CallsAhead
SameWork == SameCalls /\ ToDo' = ToDo
SameQueue == SameWork /\ Len(queue') = Len(queue)

Nearer ==
  \/ turn' = turn + 1 /\ turn' <= MaxTurns
  \/ turn' = turn /\ Stage[pc'] < Stage[pc]
  \/ SameStage /\ CallsAhead' \in Nat /\ CallsAhead' < CallsAhead
  \/ SameCalls /\ ToDo' \subseteq ToDo /\ ToDo' # ToDo
  \/ SameWork /\ Len(queue') < Len(queue)
  \/ SameQueue /\ side = "append" /\ side' # "append"
  \/ SameQueue /\ side' = side /\ ~aborted /\ aborted'

EveryStepIsNearer == [][Nearer]_vars

LEMMA CountedInit == Init => Counted
BY SessionAssumption DEF Init, Counted

LEMMA CountedNext == ASSUME IInv, Counted, [Next]_vars PROVE Counted'
<1>1. turn' \in 0..MaxTurns
  <2>1. turn' = turn \/ (BeginTurn /\ turn # MaxTurns /\ turn' = turn + 1)
    BY DEF Next, Loop, Session, Start, BeginTurn, Ask, AskFails, HookFails, Announce, Prepare, Dispatch, Dispatched,
           Collect, Drain, Record, EndTurn, Conclude, GoOn, Report, Return, LeavePool, AppendEvent, AppendFails,
           Abandon, Abort, Crash, Worker, BeginTool, SkipTool, FinishTool, Accept, PutUpdate, loopVars, vars, At
  <2> QED BY <2>1, SessionAssumption DEF Counted
<1>2. report' \in [Calls -> {"none", "sent", "queued"}]
  <2>1. \/ report' = report
        \/ report' = [i \in Calls |-> "none"]
        \/ \E i \in Calls, r \in {"sent", "queued"} : report' = [report EXCEPT ![i] = r]
    BY DEF Next, Loop, Session, Start, BeginTurn, Ask, AskFails, HookFails, Announce, Prepare, Dispatch, Dispatched,
           Collect, Drain, Record, EndTurn, Conclude, GoOn, Report, Return, LeavePool, AppendEvent, AppendFails,
           Abandon, Abort, Crash, Worker, BeginTool, SkipTool, FinishTool, Accept, PutUpdate, workVars, vars, NoBatch
  <2> QED BY <2>1 DEF Counted
<1>3. side' = "append" => pc' \notin Over \cup {"closing"}
  <2>1. CASE Loop
    BY <2>1 DEF Loop, Start, BeginTurn, Ask, AskFails, HookFails, Announce, Prepare, Dispatch, Dispatched,
           Collect, Drain, Record, EndTurn, Conclude, GoOn, Report, Return, LeavePool, At, Yield, Silent, Over
  <2>2. CASE Session \/ Abandon \/ Crash
    BY <2>2 DEF Session, AppendEvent, AppendFails, Abandon, Crash
  <2>3. CASE Abort \/ UNCHANGED vars \/ \E i \in Calls : Worker(i) \/ Accept(i) \/ PutUpdate(i)
    <3>1. UNCHANGED <<pc, side>>
      BY <2>3 DEF Abort, Worker, BeginTool, SkipTool, FinishTool, Accept, PutUpdate, loopVars, vars
    <3> QED BY <3>1 DEF Counted
  <2> QED BY <2>1, <2>2, <2>3 DEF Next
<1> QED BY <1>1, <1>2, <1>3 DEF Counted

LEMMA StageIsNat ==
  /\ \A p \in Places : Stage[p] \in Nat
  /\ \A p \in Over : Stage[p] = 0
  /\ \A p \in Places : p \notin Over => Stage[p] >= 1
  /\ \A p \in Places : p \notin Over \cup {"closing"} => Stage[p] > 1
  /\ Stage["closing"] = 1 /\ Stage["closed"] = 0 /\ Stage["crashed"] = 0
BY DEF Stage, Places, Over, Waiting

(* a step that passes a stage *)
LEMMA PassesStage ==
  ASSUME IInv, Counted,
         Start \/ (BeginTurn /\ turn' = turn) \/ Ask \/ AskFails \/ HookFails \/ Dispatched \/ EndTurn
           \/ Conclude \/ GoOn \/ Report \/ Return \/ LeavePool \/ AppendFails \/ Abandon \/ Crash
  PROVE  Nearer
<1>1. turn' = turn
  BY DEF Start, BeginTurn, Ask, AskFails, HookFails, Dispatched, EndTurn, Conclude, GoOn, Report, Return, LeavePool,
         AppendFails, Abandon, Crash
<1>2. CASE Start \/ (BeginTurn /\ turn' = turn) \/ Ask \/ AskFails \/ HookFails \/ Dispatched \/ EndTurn
           \/ Conclude \/ GoOn \/ Report \/ Return \/ LeavePool
  <2>0. turn \in Nat BY DEF IInv, Shapes
  <2>1. \/ pc = "start" /\ pc' = "turn"
        \/ pc = "turn" /\ pc' = "error"
        \/ pc = "ask" /\ pc' \in {"turn_end", "announce", "error"}
        \/ pc = "dispatch" /\ pc' = "record"
        \/ pc = "turn_end" /\ pc' = "decide"
        \/ pc = "decide" /\ pc' \in {"finish", "turn", "error"}
        \/ pc = "error" /\ pc' = "give_up"
        \/ pc = "give_up" /\ pc' = "fail"
        \/ pc = "finish" /\ pc' = "done"
        \/ pc = "fail" /\ pc' = "failed"
        \/ pc = "raise" /\ pc' = "error"
        \/ pc = "closing" /\ pc' = "closed"
    BY <1>2, <2>0 DEF Start, BeginTurn, Ask, AskFails, HookFails, Dispatched, EndTurn, Conclude, GoOn, Report, Return,
                      LeavePool, At
  <2>2. Stage[pc'] < Stage[pc] BY <2>1 DEF Stage
  <2> QED BY <1>1, <2>2 DEF Nearer
<1>3. CASE AppendFails \/ Abandon
  <2>1. pc' = "closing" /\ pc \notin Over \cup {"closing"} /\ pc \in Places
    BY <1>3 DEF AppendFails, Abandon, Counted, IInv, Shapes
  <2>2. Stage[pc'] < Stage[pc] BY <2>1, StageIsNat
  <2> QED BY <1>1, <2>2 DEF Nearer
<1>4. CASE Crash
  <2>1. pc' = "crashed" /\ pc \notin Over /\ pc \in Places BY <1>4 DEF Crash, IInv, Shapes
  <2>2. Stage[pc'] < Stage[pc] BY <2>1, StageIsNat
  <2> QED BY <1>1, <2>2 DEF Nearer
<1> QED BY <1>2, <1>3, <1>4

(* a step to the next call of a stage *)
LEMMA PassesCall ==
  ASSUME IInv, Story, Announce \/ Prepare \/ Record PROVE Nearer
<1>1. /\ at \in 1..Len(calls) /\ at \in Nat /\ MaxCalls \in Nat /\ Len(calls) \in Nat /\ Len(calls) <= MaxCalls
      /\ turn' = turn
  BY SessionAssumption DEF Announce, Prepare, Record, At, IInv, Shapes, Ahead, Story, Handled
<1>2. \/ pc = "announce" /\ pc' = "prepare" /\ at' = at
      \/ pc = "prepare" /\ pc' = "announce" /\ at' = at + 1 /\ at # Len(calls)
      \/ pc = "record" /\ pc' = "record" /\ at' = at + 1 /\ at # Len(calls)
      \/ pc = "prepare" /\ pc' = "dispatch"
      \/ pc = "record" /\ pc' = "turn_end"
  BY DEF Announce, Prepare, Record, At
<1>3. CASE pc = "announce" /\ pc' = "prepare" /\ at' = at
  <2>1. CallsAhead = 2 * (MaxCalls - at) + 1 /\ CallsAhead' = 2 * (MaxCalls - at) BY <1>3 DEF CallsAhead
  <2>2. CallsAhead' \in Nat /\ CallsAhead' < CallsAhead BY <1>1, <1>3, <2>1
  <2>3. SameStage BY <1>1, <1>3 DEF SameStage, Stage
  <2> QED BY <2>2, <2>3 DEF Nearer
<1>4. CASE pc = "prepare" /\ pc' = "announce" /\ at' = at + 1 /\ at # Len(calls)
  <2>1. CallsAhead = 2 * (MaxCalls - at) /\ CallsAhead' = 2 * (MaxCalls - (at + 1)) + 1 BY <1>4 DEF CallsAhead
  <2>2. CallsAhead' \in Nat /\ CallsAhead' < CallsAhead BY <1>1, <1>4, <2>1
  <2>3. SameStage BY <1>1, <1>4 DEF SameStage, Stage
  <2> QED BY <2>2, <2>3 DEF Nearer
<1>5. CASE pc = "record" /\ pc' = "record" /\ at' = at + 1 /\ at # Len(calls)
  <2>1. CallsAhead = 2 * (MaxCalls - at) /\ CallsAhead' = 2 * (MaxCalls - (at + 1)) BY <1>5 DEF CallsAhead
  <2>2. CallsAhead' \in Nat /\ CallsAhead' < CallsAhead BY <1>1, <1>5, <2>1
  <2>3. SameStage BY <1>1, <1>5 DEF SameStage, Stage
  <2> QED BY <2>2, <2>3 DEF Nearer
<1>6. CASE (pc = "prepare" /\ pc' = "dispatch") \/ (pc = "record" /\ pc' = "turn_end")
  <2>1. Stage[pc'] < Stage[pc] BY <1>6 DEF Stage
  <2> QED BY <1>1, <2>1 DEF Nearer
<1> QED BY <1>2, <1>3, <1>4, <1>5, <1>6

(* one milestone more, of one call or of several, and none less *)
LEMMA PassesMilestone ==
  ASSUME SameCalls, NEW i \in Calls, NEW x \in Milestones,
         \A j \in Calls : Passed(j) \subseteq Passed(j)', x \notin Passed(i), x \in Passed(i)'
  PROVE  Nearer
<1>1. ToDo' \subseteq ToDo BY DEF ToDo
<1>2. <<i, x>> \in ToDo /\ <<i, x>> \notin ToDo' BY DEF ToDo
<1> QED BY <1>1, <1>2 DEF Nearer

LEMMA DispatchNearer == ASSUME IInv, Dispatch PROVE Nearer
<1>1. /\ pc = "dispatch" /\ pc' \in {"drain", "collect"} /\ UNCHANGED <<turn, report>> BY DEF Dispatch, At
<1>2. PICK i \in Ready :
        work' = [j \in Calls |-> IF j = i \/ (j \in Ready /\ ~Sequential) THEN "submitted" ELSE work[j]]
  BY DEF Dispatch
<1>3. Ready \subseteq Calls /\ \A j \in Ready : work[j] = "ready"
  BY SessionAssumption DEF Ready, Executable, IInv, Shapes, Calls
<1>4. \A j \in Calls : work'[j] = work[j] \/ (work[j] = "ready" /\ work'[j] = "submitted") BY <1>2, <1>3
<1>5. work[i] = "ready" /\ work'[i] = "submitted" /\ i \in Calls BY <1>2, <1>3
<1>6. \A j \in Calls : Passed(j) \subseteq Passed(j)' BY <1>1, <1>4 DEF Passed
<1>7. "submitted" \notin Passed(i) /\ "submitted" \in Passed(i)' BY <1>1, <1>5 DEF Passed
<1>8. SameCalls BY <1>1 DEF SameCalls, SameStage, CallsAhead, Stage
<1> QED BY <1>5, <1>6, <1>7, <1>8, PassesMilestone DEF Milestones

LEMMA WorkerNearer ==
  ASSUME IInv, Counted, NEW i \in Calls, Worker(i) \/ Accept(i) \/ PutUpdate(i) PROVE Nearer
<1>0. /\ UNCHANGED <<pc, turn, at>>
      /\ work \in [Calls -> {"none", "ready", "submitted", "running", "finished"}]
      /\ report \in [Calls -> {"none", "sent", "queued"}]
  BY DEF Worker, BeginTool, SkipTool, FinishTool, Accept, PutUpdate, loopVars, IInv, Shapes, Counted
<1>1. SameCalls BY <1>0 DEF SameCalls, SameStage, CallsAhead
<1>2. CASE Worker(i)
  <2>1. /\ UNCHANGED report
        /\ \/ work[i] = "submitted" /\ work' = [work EXCEPT ![i] = "running"]
           \/ work[i] \in {"submitted", "running"} /\ work' = [work EXCEPT ![i] = "finished"]
    BY <1>2 DEF Worker, BeginTool, SkipTool, FinishTool
  <2>2. /\ \A j \in Calls : j # i => work'[j] = work[j]
        /\ \/ work[i] = "submitted" /\ work'[i] = "running"
           \/ work[i] \in {"submitted", "running"} /\ work'[i] = "finished"
    BY <1>0, <2>1
  <2>3. \A j \in Calls : Passed(j) \subseteq Passed(j)' BY <2>1, <2>2 DEF Passed
  <2>4. PICK x \in {"begun", "ended"} : x \notin Passed(i) /\ x \in Passed(i)' BY <2>1, <2>2 DEF Passed
  <2> QED BY <1>1, <2>3, <2>4, PassesMilestone DEF Milestones
<1>3. CASE Accept(i) \/ PutUpdate(i)
  <2>1. /\ UNCHANGED work
        /\ \/ report[i] = "none" /\ report' = [report EXCEPT ![i] = "sent"]
           \/ report[i] = "sent" /\ report' = [report EXCEPT ![i] = "queued"]
    BY <1>3 DEF Accept, PutUpdate
  <2>2. /\ \A j \in Calls : j # i => report'[j] = report[j]
        /\ \/ report[i] = "none" /\ report'[i] = "sent"
           \/ report[i] = "sent" /\ report'[i] = "queued"
    BY <1>0, <2>1
  <2>3. \A j \in Calls : Passed(j) \subseteq Passed(j)' BY <2>1, <2>2 DEF Passed
  <2>4. PICK x \in {"accepted", "put"} : x \notin Passed(i) /\ x \in Passed(i)' BY <2>1, <2>2 DEF Passed
  <2> QED BY <1>1, <2>3, <2>4, PassesMilestone DEF Milestones
<1> QED BY <1>2, <1>3

LEMMA TakeNearer == ASSUME IInv, Collect \/ Drain PROVE Nearer
<1>1. /\ queue # <<>> /\ queue' = Tail(queue) /\ UNCHANGED <<turn, work, report>>
      /\ \/ pc = "collect" /\ pc' \in {"collect", "record"}
         \/ pc = "drain" /\ pc' \in {"drain", "dispatch", "raise"}
  BY DEF Collect, Drain, Take, At
<1>2. CASE pc' \in {"record", "raise"}
  <2>1. Stage[pc'] < Stage[pc] BY <1>1, <1>2 DEF Stage
  <2> QED BY <1>1, <2>1 DEF Nearer
<1>3. CASE pc' \in {"collect", "drain", "dispatch"}
  <2>1. SameCalls BY <1>1, <1>3 DEF SameCalls, SameStage, CallsAhead, Stage
  <2>2. ToDo' = ToDo BY <1>1 DEF ToDo, Passed
  <2>3. queue \in Seq(Message) BY DEF IInv, Shapes
  <2>4. Len(queue') < Len(queue) BY <1>1, <2>3
  <2> QED BY <2>1, <2>2, <2>4 DEF Nearer, SameWork
<1> QED BY <1>1, <1>2, <1>3

LEMMA RestNearer == ASSUME AppendEvent \/ Abort PROVE Nearer
<1>1. UNCHANGED <<pc, turn, at, work, report, queue>> BY DEF AppendEvent, Abort, loopVars, workVars
<1>2. SameQueue
  <2>1. SameCalls BY <1>1 DEF SameCalls, SameStage, CallsAhead
  <2>2. ToDo' = ToDo BY <1>1 DEF ToDo, Passed
  <2> QED BY <1>1, <2>1, <2>2 DEF SameQueue, SameWork
<1>3. (side = "append" /\ side' # "append") \/ (side' = side /\ ~aborted /\ aborted')
  BY DEF AppendEvent, Abort, loopVars
<1> QED BY <1>2, <1>3 DEF Nearer

(* No behaviour goes on for ever: a retry, a late report or an abort never   *)
(* sends the loop back to what it has done (run, execute_batch).  With       *)
(* WaitsTheorem this is what RunEnds needs besides fairness.                 *)
THEOREM NearerTheorem == Spec => EveryStepIsNearer
<1>1. Init => IInv /\ Story /\ Counted BY InitInv, InitStory, CountedInit
<1>2. (IInv /\ Story /\ Counted) /\ [Next]_vars => (IInv /\ Story /\ Counted)'
  BY NextInv, NextStory, CountedNext
<1>3. IInv /\ Story /\ Counted /\ [Next]_vars => [Nearer]_vars
  <2> SUFFICES ASSUME IInv, Story, Counted, Next PROVE Nearer OBVIOUS
  <2>1. CASE Start \/ Ask \/ AskFails \/ HookFails \/ Dispatched \/ EndTurn \/ Conclude \/ GoOn \/ Report \/ Return
             \/ LeavePool \/ AppendFails \/ Abandon \/ Crash
    BY <2>1, PassesStage
  <2>2. CASE BeginTurn
    <3>1. turn' = turn \/ (turn # MaxTurns /\ turn' = turn + 1) BY <2>2 DEF BeginTurn
    <3>2. turn # MaxTurns => turn + 1 <= MaxTurns BY SessionAssumption DEF Counted
    <3> QED BY <2>2, <3>1, <3>2, PassesStage DEF Nearer
  <2>3. CASE Announce \/ Prepare \/ Record BY <2>3, PassesCall
  <2>4. CASE Dispatch \/ Collect \/ Drain BY <2>4, DispatchNearer, TakeNearer
  <2>5. CASE AppendEvent \/ Abort BY <2>5, RestNearer
  <2>6. ASSUME NEW i \in Calls, Worker(i) \/ Accept(i) \/ PutUpdate(i) PROVE Nearer BY <2>6, WorkerNearer
  <2> QED BY <2>1, <2>2, <2>3, <2>4, <2>5, <2>6 DEF Next, Loop, Session
<1> QED BY <1>1, <1>2, <1>3, PTL DEF Spec, EveryStepIsNearer
=============================================================================
