# Verification of the ArtPM agent

ArtPM Agent is an offline-first project-management assistant for game art teams.
A model proposes skills and tools; the host decides which of them may run, runs
them, and keeps a durable record of both. These TLA+ modules model the parts of
the program where several threads, processes and people act on the same state:
consent for side effects, the access mode of a conversation, durable workflows,
the turn of the agent loop with its tools, the model gateway that all turns
share, and the versioned knowledge with its derived index. TLC checks small
instances of each; TLAPS proves their safety for every value of their constants.

Paths below are relative to the repository (`artpm_agent/...`).

## 1. Inventory

| Component | State it keeps | Operations | Hard behaviours | What makes it correct |
| --- | --- | --- | --- | --- |
| Permission requests, `security/permission_store.py` | `permission_requests` rows: status, version, role, risk, expiry, execution id | `create_request`, `list_pending`, `get`, `decide`, `claim_execution`, `complete_execution`; each also expires rows | racing hosts, clock read before the write lock, rollback of an exception, replayed idempotency keys | one approval, at most one execution, by sufficient consent, in time, truthfully recorded |
| Hosts of approvals, `api/app.py`, `ui_helpers.py` | nothing but a request in flight | decide, claim, execute, complete | crash between two transactions, executor that fails after its effect, a formatter that raises after completion | handlers end; no second execution |
| Access modes, `security/access_mode.py`, `permission_gate.py`, `api/services.py`, `views/chat.py` | `conversation_access_grants` row; grants of a Streamlit session; the mode a turn carries | GET, PUT, DELETE, begin a turn, preflight of a tool call | mode read once per turn, foreign reads delete the row, expiry, unreadable store | nothing runs unconfirmed that its principal did not choose and the server's risk floor does not allow |
| Workflow engine, `workflows/engine.py`, `workflows/store.py` | `workflow_runs`, `workflow_steps`, `workflow_approvals`, `workflow_events` | start, resume (recover, gate, claim, execute, complete, retry, fail), decide, cancel, clear | threads with outdated copies of a run, lost leases, late reports, retries, errors of the store, crashes | rows agree, steps in order, bounded attempts, side effects gated and never run twice at once |
| Risk policy, `workflows/risk_policy.py` | none | capability to risk, approval floor | none | floors cannot be declared away |
| Workflow planning, `workflows/task_graph.py`, `coordinator.py`, `designer.py`, `selector.py` | task graph in memory | ready tasks, dependency checks | cycles, partial failure | a task runs after its dependencies |
| Agent loop, `runtime/agent_loop.py`, `tools.py`; its persisted run, `harness/agent_session.py` | messages, the batch of a turn, its queue and worker threads, the abort event; the session log | turns, preparation, parallel or sequential batches, progress reports, append, close | workers that conclude in any order, a report after its tool ended, an append that fails, a consumer that leaves, a crash | a tool is announced in the log before it runs, runs alone if it must, every call of an ended turn is answered in order, every run ends |
| Event bus and its JSONL log, `runtime/event_bus.py` | subscriptions, file | subscribe, publish, append, replay | unsubscribe during delivery, torn tail | delivered events are a prefix of facts on disk (no production path uses it) |
| Turn harness, `harness/` | turn context, outcome | ordered handlers of a turn | fallthrough between handlers, failure of a learning tail | one handler answers a turn |
| Provider gateway, `providers/gateway.py`, `response_cache.py` | cooldowns, cache, reservations | complete and streamed answers, failover, dedicated vision model | cooldowns shared without a lock, break in mid-stream, an owner that dies, waits that end early | only whole answers are cached, one model speaks, a reservation has one owner, every call ends |
| Artifacts, `artifacts/coordinator.py` | drafts and revisions | create, revise, deliver | lost updates | revisions are linear |
| Conversation and session stores, `memory/` | conversations, session tree | append, branch, compact | concurrent appends | nothing appended is lost |
| Knowledge, `memory/workspace_knowledge_store.py`, `consolidation.py` | resources with versions and marks, proposals with their audit trail, rules | ingest, archive, propose, confirm, reject, consolidate | a proposal outdated by an ingestion, a scan that writes its marks later | proposals are inert until confirmed, nothing unseen is buried, decisions stand |
| Its index, `memory/faiss_vector_store.py` | two files on disk, flags and a lock per process | synchronise after each commit, search | late, failed or lost synchronisation, torn files, a search of rows and index read at different moments | a settled index is exact, a search keeps up with what is being written, everything visible is indexed in the end |
| Wiki, other vector backends, `memory/` | documents, indexes | write, search | backend migration | index and documents agree |
| Evolution, `evolution/` | strategies, reflections | schedule, score | debounce, restart | jobs are not doubled |
| MCP clients, `core/` | pending requests | call, match, reconnect | late answers after a timeout | an answer reaches its request |
| Voice, `voice/` | session state, worker process | start, transcribe, speak, cancel | worker death, barge-in | a session ends in a terminal state |
| Profiles, plugins, routing, skills, parsers, presentation | tables and files | lookup, scoring, parsing | little | - |
| Web frontend, `frontend/src/store` | optimistic copies | fetch, mutate, roll back | answers out of order | the store shows the server's state |
| Database layer, `alembic/`, `scripts/`, `deploy/` | schema | migrations | - | - |

How they interact: a chat turn (`api/services.py`, or a Streamlit window) reads
the conversation's access mode, lets the agent loop call tools, and asks the
preflight for each; the preflight lets the call pass, refuses it, or creates a
permission request. A human later decides it through one of two hosts, which
claims and executes it. A turn may also start a workflow run, which any thread
advances and which pauses at its own approvals. The loop asks its models through
the gateway its agent shares among all request threads; the events of the loop
are appended to the session log of the conversation before the turn's consumer
gets them. Knowledge enters by ingestion or by a proposal that a human confirms,
and is found again through the index. All stores are SQLite databases
written in `BEGIN IMMEDIATE` transactions; there is no scheduler: nothing
happens to a stored row unless somebody calls.

The hazards that follow from this are listed, with the line where each bites and
the property that covers it, in `PROJECT.json`.

## 2. Modules

| Module | Models | Role |
| --- | --- | --- |
| `PermissionStore` | `permission_store.py` and the two approval hosts | detailed specification, properties, inductive invariant |
| `OneShotConsent` | what the permission subsystem promises | abstract specification |
| `PermissionStoreProofs` | - | inductive invariant, safety theorems, refinement of `OneShotConsent` |
| `AccessMode` | access modes, their routes, turns and the preflight | specification and properties |
| `AccessModeProofs` | - | inductive invariant and safety theorems |
| `WorkflowEngine` | one durable run and the threads that advance it | specification and properties |
| `OrderedRun` | what the engine promises about a run | abstract specification |
| `WorkflowEngineProofs` | - | inductive invariant, safety theorems, refinement of `OrderedRun` |
| `AgentSession` | the agent loop, its workers and its persisted run | specification and properties |
| `AgentSessionProofs` | - | inductive invariant and safety theorems |
| `ModelGateway` | failover, cooldowns, response cache, vision model | specification and properties |
| `ModelGatewayProofs` | - | inductive invariant and safety theorems |
| `KnowledgeStore` | resources, proposals, rules, consolidation | specification and properties |
| `KnowledgeIndex` | the store composed with its index, synchronisations and searches | composition (EXTENDS `KnowledgeStore`), properties |
| `KnowledgeStoreProofs`, `KnowledgeIndexProofs` | - | inductive invariants and safety theorems |
| `Selection`, `SelectionProofs` | - | the part of a sequence that lies in a set, in its order; its laws |
| `MCPermissionStore`, `MCAccessMode`, `MCWorkflowEngine`, `MCAgentSession`, `MCModelGateway`, `MCKnowledge`, `MCKnowledgeIndex` | - | constants, bounds and symmetries for TLC |

The definitions marked *Mutant of* or *a variant* in the modules are small
changes of the definition beside them, each of them a plausible bug; none is
used by a specification. They show that every property checked can be broken by the code.

### PermissionStore

`row` is the table, one row per idempotency key. Every store method is one
transaction and one action; the two hosts' handlers are a program counter per
host (`pc`) with the copy of the row they hold (`snap`), so that other hosts, the
clock and crashes come between any two of their transactions. A method reads the
clock before it waits for the lock; `SampledBy(h)` is the set of instants it may
have read: not before the host's previous step and at most `BusyTimeout` ago.
Exceptions roll back, so a refused decision leaves also the expiry unwritten.

| Code | Action |
| --- | --- |
| `create_request` | `CreateRequest(k, a)` |
| `list_pending` (routes and pages) | `ListPending(h)` |
| `get` in `_permission_for_principal` | `LookUp(h)` |
| `decide` | `Decide(h)` |
| `claim_execution` | `Claim(h)` |
| the executor or skill | `Execute(h)`: performs and returns, performs and raises, or raises |
| `complete_execution(True / False)` | `CompleteSuccess(h)`, `CompleteFailure(h)` |
| formatting after completion in the window | `Report(h)` |
| lock timeout, process death, human walks away | `StoreBusy(h)`, `Crash(h)`, `Dismiss(h)` |

`effects` and `acked` are history: how often the action of a row was really
performed, and whether its risk was acknowledged.

### AccessMode

`grant` maps each place (the gateway's row, each window's session) to a grant:
principal, mode, expiry. `request` is the route a principal is in (every route
looks the conversation up before it calls the store), `turn` the turn of each
host with the mode it carries and the tool it is at. `chosen` and `basis` are
history: the last explicit choice at a place, and the one that stood when a turn
began. Gateway threads are those of any number of gateway processes (within one,
a lock lets one turn run at a time). `CallTool` is the whole preflight: free
tools, the static policy, `access_decision`, and the durable request or the
refusal when it cannot be stored.

### WorkflowEngine

One run, its `N` steps, and threads (`Workers`) inside `resume`. Each store
method is an action; between two of them a thread holds `local`, its copy of the
run, which may be outdated. Time is abstracted: `LeaseExpires(s)` makes the lease
of a running step stale and `BackoffEnds(s)` makes a retry due, at any moment.
Consequently a *fresh* lease is simply one that has not expired yet.

| Code | Action |
| --- | --- |
| `create_run`, beginning of `resume` | `Start(w)`, `ReadRun(w)`, `Refuse(w)` |
| `recover_stale_run` | `Recover(w)` |
| loop top, inputs | `CheckStep(w)` |
| `get_approval`, `request_approval`, `decide_approval` | `CheckApproval(w)`, `RequestApproval(w)`, `Decide(w, s, d, level)` |
| `claim_step`, skill, `complete_step` | `ClaimStep(w)`, `Execute(w)`, `CompleteStep(w)` |
| `except` branch: `schedule_retry`, `fail_step` | `Retry(w)`, `GiveUp(w)` |
| `cancel`, `clear_conversation_runs` | `ReadToCancel(w)`, `Cancel(w)`, `Clear` |
| any other error of a store method, which leaves `resume` | `StoreRaises(w)` |

`StoreRaises(w)` is a step the code takes without a fault of the process:
`complete_step` refuses a payload of more than 256 KB, for the output of the step
or for all outputs together (`store.py:1369`, `1432`), and every method raises when
the database stays locked for longer than its timeout. `resume` catches conflicts
only, so the error goes to its caller and the step stays running with nobody at
work on it. `claims[s].lost` is history: such an error ended the attempt under way.

### AgentSession

One turn of a conversation as three parties see it: the loop (`pc`), a generator
that moves only when asked; the session, which appends each event (`pending`) to
the conversation's `log` and only then hands it on; and the worker threads of the
batch (`work`), which speak to the loop through `queue`. `side` says whether the
session has an event to append; the consumer may leave whenever it holds one. A
tool that reports progress (`Chatty`) does so from a thread of its own, which
looks at `accepting_updates` and puts its report in two steps. The start, updates
and end of one message are one event.

| Code | Action |
| --- | --- |
| `run`: start, turn, model call and its failure | `Start`, `BeginTurn`, `Ask`, `AskFails` |
| `_execute_batch`: announcement, `_prepare` | `Announce`, `Prepare` |
| submission, alone or together; the results taken from the queue | `Dispatch`, `Dispatched`, `Drain`, `Collect` |
| tool results into the transcript, end of turn, decision to go on (`should_stop_after_turn` may end any turn, or fail) | `Record`, `EndTurn`, `Conclude`, `HookFails`, `GoOn` |
| errors, end, leaving the thread pool | `Report`, `Return`, `LeavePool` |
| `_execute_worker`, `on_update` | `BeginTool(i)`, `SkipTool(i)`, `FinishTool(i)`, `Accept(i)`, `PutUpdate(i)` |
| the append of `agent_session.py` and its failure | `AppendEvent`, `AppendFails` |
| the consumer closes the generator; `abort()`; the process dies | `Abandon`, `Abort`, `Crash` |

A fresh loop is made for each run and nobody in production calls `abort()`; the
registered tools ignore `on_update`. The loop offers both, so both are modelled.

### ModelGateway

Request threads (`thr`) share the models that cool down (`cooling`), the cache
and the reservations (`flights`). A thread holds the candidates it listed when it
began (`todo`), which may be outdated when it comes to them. Time is abstracted:
a cooldown, a cache entry or a wait may end at any moment.

| Code | Action |
| --- | --- |
| `chat_with_failover`, `stream_with_failover`, the vision calls: candidates | `Start(t)` |
| `ResponseCache.acquire`: hit, reservation, wait, deadline, no cache | `Hit(t)`, `Reserve(t)`, `Block(t)`, `GiveUpWaiting(t)`, `Uncached(t)` |
| the second look at the cooldown | `Check(t)` |
| the provider's answer or failure | `Answered(t)`, `Refused(t)`, `Rejected(t)`, `CannotSee(t)` |
| a stream: first text, end, break, a consumer that leaves | `FirstChunk(t)`, `EndStream(t)`, `Break(t)`, `Abandon(t)` |
| `ResponseCache.put`, `release` | `Put(t)`, `Release(t)` |
| time | `CoolDown`, `Forget` |

A write of the cache that fails silently is a `Put` whose entry is forgotten at
once. A consumer that closes the stream at the fallback notice is one that closes
it at the first chunk (`Abandon`: the success is recorded before either), and one
that closes it at a cached answer leaves behind what `Hit` does.

### KnowledgeStore and KnowledgeIndex

`KnowledgeStore` is the store alone: `res` holds the resources with their
versions (each with its author: a proposal, or `Direct`) and consolidation marks,
`recency` their order by `updated_at`, `prop` and `audit` the proposals and their
events, `rule` the rules, `con` the consolidation under way, which reads all
active resources once and then writes one mark per transaction. Every other
method is one transaction and one action of its name (`confirm_ingestion` is two,
`ConfirmIngestion` and `ConfirmConflicts`: it commits the conflict, then raises).

`KnowledgeIndex` composes it with the index. A handler commits, and its thread
then brings the index up to date (`Ingest(t)`, `Archive(t)`, `Confirm(t)`, each
followed by `SyncStart(t)`, `SyncRead(t)`, `SyncApply(t)`); failures are caught
and remembered by two flags of the process (`needs`, `pending`), which a restart
loses (`SyncRefused`, `SyncFails`, `Crash`, `CrashSaving`). `SyncApply` reads the
files again and replaces them only if it adds an entry or finds one to remove
(`Writes`). The index file, its metadata and its manifest are replaced one after the
other: death after the first leaves files of one count, taken for good, or of two,
put aside when read (`Reload`); death after the second leaves the new ones; where
there were no files before, what is left lacks a manifest and is put aside.
`SearchRows(t)` reads the visible rows and `SearchHits(t)` later the index. An entry of the index stands for
the chunks of one version.

## 3. Runs

| Run | Instance | What it shows | Distinct states |
| --- | --- | --- | --- |
| `perm_safety` | 1 key; an ordinary, a critical and a denied action; a gateway and a window; time to 4, `Ttl` 2, wait 1; faults | the safety of the protocol, its inductive invariant, and that it implements `OneShotConsent` | 38,230 |
| `perm_liveness` | as above without the denied action and without faults; fairness | handlers end, executions are recorded | 35,100 |
| `workflow_safety` | 3 steps (read-only with retries; side-effecting with backoff and compensation; inputs that never resolve); 2 threads; faults | rows agree, gates hold, side effects are alone, doubt is reported, the run implements `OrderedRun` | 626,247 (with symmetry) |
| `workflow_liveness` | the first 2 steps, one retry each, no faults, fairness | calls return; attempts are concluded, or an error of the store told the caller | 288,305 |
| `workflow_lease` | 1 read-only step, 2 threads | **violated**: a late report takes a step from the thread that holds its fresh lease | - |
| `access` | 2 principals, 1 gateway thread, 1 window, 5 tools; `FullTtl` 1, `ReadOnlyTtl` 2, wait 1, time to 2; faults | what runs unconfirmed was chosen by its principal; nobody gains full access by anything else | 745,471 |
| `access_relax` | 2 principals, 1 gateway thread, 1 tool | **violated**: see section 6 | - |
| `session` | 2 calls per answer, 2 turns, a reading tool that reports, a writing tool, an unknown name; faults, fairness | tools are announced, writers are alone, nothing runs on, ended turns are whole, runs end | 929,491 |
| `gateway` | 2 threads, 2 models, 1 question with or without pictures, with and without a vision model; fairness | caches hold whole answers, one model speaks, waiters find the answer, calls end | 361,914 |
| `knowledge_safety` | 2 resources, 2 opposed texts, a proposal of one or two items, 1 rule, 2 versions | proposals are inert, nothing unseen is buried, marks have a cause, decisions stand | 2,628,035 (with symmetry) |
| `knowledge_index` | 1 resource, 2 texts, 1 proposal, 1 process with 2 threads, 2 versions; faults, fairness | a settled index is exact, no search shows a text whose successor is not being indexed, everything visible is indexed in the end | 126,661 |
| `knowledge_dedup` | 2 resources, 1 text, 1 version | **violated**: consolidation may hide the last visible copy of a text | - |

**Bounds, and why they are enough.** Two hosts already race for one row and a
third adds no step of its own; with `Ttl` 2 and a wait of 1 a clock sample may lie
before, at and after the expiry. Two engine threads may each hold an outdated copy
of the run while the other moves it by one step or more; a retry contract of two
retries lets a late report meet a later attempt. `HostsApart` of `MCAccessMode` (a
CONSTRAINT) keeps a window and a gateway thread from working in the same
behaviour: they share nothing but the clock. Two calls are enough for one tool to finish
before another, to report late and to be run alone or together; two turns for one
turn to follow another and for the limit of turns. In the gateway the
second model is the fallback and, when one is configured, the vision model;
`Mixes` lets one behaviour ask one question, as often as it likes, because two
questions share only the cooldowns, which come and go anyway (`CoolDown`). Two
resources make a group of duplicates or a conflict, two versions an outdated
proposal. One resource is enough for the index, whose synchronisations treat
each by itself; its second thread waits for the lock or searches meanwhile.
`MaxVersion` and `MaxTime` are bounds of the instances, not of the code. One retry
is enough for `workflow_liveness`: it takes the loop round once and ends at the
limit; `workflow_safety` has two. Two bounds are in the modules: a tool sends one
progress report per call (`Accept`; the code takes any number, each read by the loop
like the first), and consolidations run one after the other (`ScanResources`; the
code takes no lock for a whole run, so two threads might interleave theirs, each
mark still being written for a cause its own scan found).

**Symmetry** is used where no constant tells the values apart and no liveness is
checked: the threads of `workflow_safety`; the resources and the two (mutually
opposed) texts of `knowledge_safety`.

**Deadlock** is checked except where the system may really stop: `access` and
`access_relax` (the conversation is deleted and the clock at its bound),
`session` (the run is over), and the knowledge runs (all versions of the bound
are written and everything is decided).

**Fairness.** Nothing is assumed of humans, the clock or later calls, because the
program has no scheduler: a request nobody decides and a backoff nobody resumes
stay where they are.

* `PermissionStore`, `WorkflowEngine`: weak fairness of each step of a handler or
  thread that already runs; its thread is scheduled and the executor it called
  comes back. Faults are off in these liveness runs: with crashes a row may stay
  `executing` for ever, by design. Errors of the workflow store are not faults and
  stay on; nothing forces one, and `AttemptsConclude` asks only that the caller of
  the attempt that is left behind has seen the error.
* `AgentSession`: weak fairness of the loop (its consumer asks for the next event
  or closes, its provider returns), of the append, and of each worker (tools
  return). Progress reports are owed by nobody. Faults are on.
* `ModelGateway`: weak fairness of a thread's own steps and of the provider's
  reply, which the client bounds by a timeout; strong fairness of `GiveUpWaiting`,
  because a waiter woken and blocked again keeps the deadline it computed before
  its first wait, so it cannot be sent back for ever.
* `KnowledgeIndex`: strong fairness of each thread's synchronisation: the process
  lock may be taken by others again and again, but a waiting thread gets it.
  `EventuallyIndexed` excuses a system in which a synchronisation failed or was
  lost.

## 4. Proofs

All theorems hold for every value of the constants that satisfies the named
ASSUMEs of their module: any number of keys, hosts, steps, threads, tools, models,
resources; with and without faults. The bounds of section 3 that are constants of
a specification (`MaxTime`, `MaxVersion`) are arbitrary. `HostsApart` and the
symmetries belong to TLC only.

**PermissionStoreProofs.**

* `InductiveInvariant`: `IInv == TypeOK /\ ProtocolInv`. The properties alone are
  not inductive. That an execution happens once needs that a host about to execute
  *owns* its row (`Owns`: executing, in its name, at the version it holds) and that
  an owned row was not performed yet; that the audit trail is ordered needs that a
  host's last step is not before the creation and decision of the row it holds
  (`since`), because the next clock sample is only known to be later than that.
  `ProtocolInv` is what a row may hold in each status (`RowInv`) and what each
  program counter may rely on (`HostInv`).
* A step changes a row only by `Expire`, `NewRow`, `Decided`, `Claimed` or
  `Completed`; lemmas say what these keep, one lemma per action puts them
  together, `NextInv` combines the actions.
* `TypeCorrect`, `ProtocolHolds`, `ExecutedAtMostOnce`, `ConsentSuffices`,
  `AuditTrail`, `CompletedMeansPerformed`, `ExecutionIsExclusive` follow from the
  invariant; `RowsSettleTheorem` and `SpentInTimeTheorem` from invariant and step.

* `RefinesOneShotConsent`: initial states map to initial states and every step to a
  step of `OneShotConsent` or a stutter; the expiry of several rows in one
  transaction maps to one `Lapse`.
* `ExecutionsAreAttendedTheorem` and `HandlersAdvanceTheorem` are what the two
  liveness properties need besides fairness. The first: without faults an executing
  row has a host that holds it and is on its way to record the outcome (invariant
  `Attended`). The second: every step of a handler decreases `StepsLeft`; in
  particular a conflict while a failure is recorded leads out of the handler and
  not back to the attempt.

**AccessModeProofs.** `TypeOK /\ ModeInv` is inductive: every stored grant of full
access stands for the last choice at its place and expires no later than that
choice allows (`GrantInv`), a grant attached to a waiting message still does, and
a running turn rests on the choice that stood when it began (`TurnInv`). The
`BusyTimeout` in the bound is the age a clock sample may have when the reading
transaction gets the lock. `TypeCorrect`, `ModesStandForChoices` and
`UnattendedTheorem` follow. `FullAccessTheorem` needs besides that a step changes a
grant only by a choice at its place or by removing it, and that the clock does not
go back (`GrantChanges`).

**WorkflowEngineProofs.** `IInv` is `TypeOK` with `RunInv`, `StepInv`, `WorkerInv`,
`HolderInv` and `DoubtIsReported`. `StepInv` places every step with respect to the
current one (those before have succeeded and have outputs, those after are
untouched), ties its attempts to its claims and its claims to its approval.
`WorkerInv` is what a thread may rely on although its copy of the run may be
outdated: the run never goes back, and an approval it has seen stands. `HolderInv`
is what makes side effects alone: at most one thread holds an attempt of a
side-effecting step, and while one does the step is not open to a claim, because a
lost lease fails such a step instead of re-pending it. From it: `TypeCorrect`,
`RunAgreesWithItsSteps`, `GateTheorem`, `AttemptsTheorem`, `SideEffectsTheorem`,
`DoubtTheorem`, `FinishedTheorem`, and `RefinesOrderedRun`, with one lemma per action.
`HeldTheorem` and `CallsAdvanceTheorem` are the safety halves of `AttemptsConclude`
and `CallsReturn`. `AttemptsAreHeld`: while no process dies, the step of a running
run is held by a thread whose attempt is the one of the row, or an error of the store
at that very attempt left `resume` (`lost`, which only the next claim of the step
resets: `LostStays`). This is not obvious
because threads whose lease was lost, and threads with outdated copies, may still
re-pend or fail a step; each of these either leaves the step open or another thread
at its new attempt. `CallsAdvance`: attempts never decrease, and a step of a thread
inside the engine leaves it, or goes on to a later step of the workflow, to a later
attempt, or further in the round (`StepsLeft`).
`AttemptsBounded`, `FinishedRunsRest` and, of `PermissionStore`, `RowsSettle` are
proved and in no run: the refinements that the runs check imply the same.

**KnowledgeStoreProofs.** `IInv` adds to the shapes of the tables that the author
of a version is `Direct` or confirmed, that the audit trail tells the status, and
`VersionsStand`: a version made by a proposal stands above the base of one of its
items, with only versions of the same proposal between. A transaction lets a
sequence of versions only grow (`Grown`), which carries the invariant through the
confirmation of two items on one resource. `InertTheorem`, `NothingBuriedTheorem`
and `DecisionsTheorem` follow. `MarksTheorem` needs `CInv`: whatever is stored is in
the sequence `recency` (`Present`), and each pair the consolidation still means to
mark was alike or contrary in something its resources once said (`Causes`). What was
once said only grows (`Said`), so writes that come arbitrarily long after the scan,
with archivings, ingestions and confirmations between, still have their cause.

**KnowledgeIndexProofs** reuses them: every step of the composition is a step of
the store or leaves it alone (`StoreUnderIndex`: the composition implements the
store), so what holds of the store holds in the composition (`StoreKept`), and the
shapes of the index hold besides (`IndexInvariant`).
`SettledTheorem` (one process) needs `Follows`: unless something was hurt, one thread
at a time is past the lock (`Locked`), and every resource whose entries do not fit
its row (`Fit`: the current version and no other if it is visible, no older one if
it is not) is owed a synchronisation by some thread, with `cur` and `rows` that will
make them fit if it is the last one (`Debts`). `SearchesTheorem` takes the same debts
at the moment a search reads the index: a text that is not the current one of its
resource is an entry that does not fit, so a thread is about to replace it. With several processes the disk lock is taken per
operation and not over a whole synchronisation: two processes may both list an
entry, and each replace it by the version it read, and TLC refutes the property
with two processes and three versions. The theorems assume `Hosts = {h}`, and so does
`OwedTheorem`: unless something was hurt, a visible resource that is not indexed
exactly is owed by a thread whose reading of it is still current. For any number of
processes, and although synchronisations fail and processes die, `LocksTheorem` says
that the lock of a process is held by one of its threads at work or free, and
`SyncsAdvanceTheorem` that a synchronisation under way is never sent back. The three
are the safety halves of `EventuallyIndexed`.

**AgentSessionProofs.** `IInv` follows a batch through the loop: it is untouched
before its answer and, of the calls not yet announced, until their announcement
(`Fresh`, `Ahead`); a call left to a worker was announced in the log, the one being
prepared is, or is about to be (`Told`, `Telling`); a result in the queue comes
from a worker that ended (`Messages`), and only such a worker, or no worker at all,
stands behind a recorded one (`HandedIn`); workers are busy only where the loop
waits for them (`Pool`), and never beside one that must run alone (`Alone`).
`AnnouncedTheorem`, `AloneTheorem`, `NothingRunsOnTheorem` follow.

`WholeTurnsTheorem` needs `Story`, which tells for each place of the loop what the
log says of the current turn: of each call one start if the loop has passed its
announcement (`Starts`), one end exactly if its result is in (`Ends`), the results
up to the place of the recording (`Listed`), every call handled when the recording
begins (`Handled`), no second word of one call in the queue (`Tidings`). It speaks of
`Tale`, the log with the event that is about to be appended, because the loop has
moved on when the append is still to come; a failed append leaves the log without it
and the turn without its end.
`WaitsTheorem` and `NearerTheorem` are the safety halves of `RunEnds`. The first: where
the loop blocks in `updates.get` the queue has something or a worker is still to put
its result (`Spoken`). The second: every step decreases, lexicographically, the turns
left, the stages of the turn, the calls of the stage, the milestones the workers have
not passed, the messages in the queue, the event to append, the abort to set.

**ModelGatewayProofs.** `Sound` says what a thread holds at each step (a put
follows a whole answer; nothing was shown before the first text), `Reserved` that
a key is reserved by exactly the thread that believes it reserved it. The latter
is inductive only because a thread keeps its candidates and question while it
owns a key. `WholeTheorem`, `OneVoiceTheorem`, `WaitersTheorem` follow. `TypeTheorem`
adds `Typed`: the candidates of a request are models and never used up while it is
under way, which rests on what the selections by cooldown, by likely sight and by
preference return. `OwnersTheorem` and `CallsAdvanceTheorem` are the safety halves of
`EveryCallEnds`: who is blocked waits for another thread that holds this very key
and is at work itself (`Waited`: the key is still in the table, because the release
that frees it wakes every waiter); and a request never asks a candidate twice,
whatever other threads do to the cooldowns it read before it waited. A waiter that is
woken may have to wait again: this one step goes back, and `GiveUpWaiting`, whose
deadline is fixed before the first wait, is why it does not for ever.

**SelectionProofs.** `Selected(s, T)`, the part of `s` in `T`, is a recursive function,
and its laws (its elements are those of `s` in `T`, its order is that of `s`, what it
is of an extended sequence) are proved by induction over the length. The induction
theorems of the library take an operator as parameter, which the provers cannot
instantiate; the lemmas here give the property as the set of the numbers that have
it, and rest on the theorem that a set of naturals has a least element. The order by
recency, the candidates of the gateway and the results of a turn use them.

**Only model-checked.** Liveness (`HandlersReturn`, `ExecutionsFinish`,
`CallsReturn`, `AttemptsConclude`, `RunEnds`, `EveryCallEnds`,
`EventuallyIndexed`): that enabled steps are taken needs `ENABLED`, which the provers
do not handle. The theorems called safety halves above say for every value of the
constants that somebody is there to take the next step, or that the steps taken lead
to the end; the runs join them with fairness.
`SettledIndexIsExact` and `SearchesKeepUp` are proved for one process, and false for
several. The
violated properties are refuted and of course not proved. All other properties of
the passing runs are stated by a theorem.

**Assumptions** of the proofs are the named ASSUMEs of the modules: values that stand
for nobody are no member of the set they complete, gateways and windows are different
hosts, tables map capabilities to risks and roles, `Fallbacks` is a sequence, limits
are positive, and `llm.failover_max_attempts` lies in the range the code enforces (1
to 8). None of them bounds how many threads, rows, steps, tools or models there are.

## 5. Not modelled, and why

The model covers a small part of the lines: most of the repository is pages,
styles, parsers, scoring, prompts and templates, which run in one thread and keep
no state that two actors share. Within the modelled parts:

* permissions: redaction, canonical JSON, digests (an action is what its digest
  tells apart); tenant scoping except for the binding of grants;
* workflows: definitions, overrides and selection; migrations; a second run
  started under a cleared key is another run;
* access: the path of explicit skills in `harness/skill_handler.py`, which takes
  the same access decision with a floor of its own;
* session: sub-agents and the pipeline (each a loop around the loop), branching
  and replay of the log, its numbering, which starts anew after a conversation's
  entries are cleared;
* gateway: telemetry, token accounting, the building of clients, and
  `last_response_model`, an attribute all threads share and that is only shown;
  `model_health_tracker.py` is used by no production path;
* event bus: no production path subscribes or opens its JSONL log; the events
  are those of `AgentSession`;
* knowledge: confidence scores, tenant scoping, full rebuilds, synchronisations of
  several processes at once in the runs, the other vector backends, the wiki.

The remaining components of section 1 are left out in the order of the plan below.

## 6. Divergences between documents and code

Three runs check a sentence of the repository and TLC refutes it.

* `workflow_lease`: `complete_step`, `fail_step` and `schedule_retry` compare
  statuses, not who claimed. After a lease was lost and recovered, the old
  thread's failure re-pends the new thread's attempt, which is then claimed again
  while its lease is fresh (comment in `resume`, `workflows/engine.py:361`). The
  properties that hold bound the damage: attempts stay bounded and side effects
  are never replayed.
* `access_relax`: reading the mode as another principal deletes the row
  (`access_mode.py:100`).
* `knowledge_dedup`: a superseded copy that is ingested again becomes the newest of
  its group without becoming visible; the next consolidation keeps it and hides
  the visible one (`consolidation.py:169`).

Others were met while modelling and are checked by no run:

* A turn carries the mode it began with, so a conversation that became read-only
  still receives its approval requests (`README.md:66`); for the same reason a
  long turn outlives its one-hour grant. `UnattendedWasChosen` bounds the age of
  the choice at the beginning of the turn.
* An unreadable store means `controlled`, which is looser than `read_only`
  (`api/services.py:531`).
* A crash between a commit and its synchronisation is remembered by nobody: a
  search then shows the text of an earlier version of a resource that the rows
  admit (docstring "Search current active resource versions and accepted rules.",
  `workspace_knowledge_store.py:2718`). `SettledIndexIsExact` and `SearchesKeepUp`
  exclude it by `hurt`; that the row decides whether a resource is found at all holds
  even then, by the join in `Hits`.
* `resume` promises to "Advance until completion, approval, failure, or a concurrent
  claim." (`workflows/engine.py:321`). It also stops where the store raises something
  else than a conflict (`StoreRaises`): a skill whose output, alone or with those
  before it, is larger than 256 KB has run, and its step is neither completed nor
  failed until somebody resumes the run after the lease. A side effect is then
  reported as in doubt; any other step is run again, with the same end, while its
  retries last.
* The vision path releases its reservation before it writes the cache, so its
  waiters may ask again (`response_cache.py:264`, "Waiters wake after either a
  complete cache write or a failure."). `TextWaitersFindTheAnswer` is therefore
  stated for the text path.
* A success that began before a failure, or a cache hit, ends the cooldown the
  failure began (`docs/guides/OFFLINE_FALLBACK.md:276`).
* Index synchronisations of two processes may leave two versions of a resource in
  the index although none of them failed (section 4); the rows then still decide
  what is found, but not whose text is shown.
* A progress report that arrives after its tool ended is taken by the next call of
  a sequential batch for a corrupted order, and fails the run
  (`runtime/agent_loop.py:358`); no registered tool reports progress.

## 7. Plan

Done: permissions, access modes, workflows with their proofs, the agent session,
the model gateway, the knowledge store and its index. What is left, in order:

1. `TaskGraph`: ready tasks, dependencies and partial failure of
   `workflows/task_graph.py`.
2. `ArtifactRevisions`: drafts, revisions and lost updates of
   `artifacts/coordinator.py`.
3. `McpClient`: matching of answers to requests, late answers and reconnection of
   `core/mcp_client_stdio.py`.
4. `VoiceSession`, the scheduler of `evolution/`, versioned profiles, and the
   optimistic updates of the web frontend's store.
5. Index synchronisations of several processes, with the property that holds for
   them; the composition of `AgentSession` with `AccessMode` and
   `PermissionStore` (a turn from tool call to executed approval).
