-------------------------- MODULE PermissionStore --------------------------
(***************************************************************************)
(* The durable one-shot consent protocol of artpm_agent: the rows of the   *)
(* permission_requests table (security/permission_store.py) and the hosts  *)
(* that consume them, the API gateway (api/app.py) and the Streamlit       *)
(* windows (ui_helpers.py).                                                *)
(*                                                                         *)
(* Every method of the store is one BEGIN IMMEDIATE transaction, hence one *)
(* action, but it reads the clock before it waits for the write lock: the  *)
(* instant it uses may be up to BusyTimeout older than the instant at      *)
(* which it takes effect (SampledBy).  A method that raises rolls back,    *)
(* the expiry it may already have written included.                        *)
(***************************************************************************)
EXTENDS Integers

CONSTANTS
  Keys,          \* idempotency keys; a key owns at most one row
  NoKey,
  Actions,       \* action envelopes (what action_sha256 tells apart)
  NoAction,
  Gateways,      \* request threads of the API gateway
  Windows,       \* Streamlit sessions
  NoHost,
  Executors,     \* the hosts configured to run an approved action
  Risk,          \* the risk of each action
  DeclaredRole,  \* the role its caller asked for
  Denied,        \* actions the static capability policy refuses
  Ttl,           \* default_ttl_seconds
  BusyTimeout,   \* BUSY_TIMEOUT_MS: the longest wait for the write lock
  MaxTime,       \* bound of the clock
  Faults         \* may hosts crash, may the database stay locked

Hosts == Gateways \cup Windows
Risks == {"low", "medium", "high", "critical", "untrusted"}
Roles == {"user", "admin"}
Never == -1

ASSUME HostAssumption ==
  /\ Gateways \cap Windows = {}
  /\ NoHost \notin Hosts
  /\ Executors \subseteq Hosts
  /\ Windows \subseteq Executors
ASSUME ActionAssumption ==
  /\ NoKey \notin Keys
  /\ NoAction \notin Actions
  /\ Risk \in [Actions -> Risks]
  /\ DeclaredRole \in [Actions -> Roles]
ASSUME TimeAssumption ==
  /\ Ttl \in Nat \ {0}
  /\ BusyTimeout \in Nat
  /\ MaxTime \in Nat
  /\ Faults \in BOOLEAN

VARIABLES
  row,      \* the table: one record per idempotency key
  now,      \* the wall clock
  pc,       \* where each host is in its handler
  snap,     \* the row a host last read: key, version and action
  since,    \* when a host took its last step; it reads the clock after it
  effects,  \* history: how often the action of a row was really performed
  acked     \* history: was the risk acknowledged when the row was approved

vars == <<row, now, pc, snap, since, effects, acked>>

-----------------------------------------------------------------------------
(* The row and the pure parts of the handlers. *)

Statuses == {"absent", "pending", "approved", "rejected", "executing",
             "completed", "failed", "expired"}

NoRow == [status |-> "absent", version |-> 0, action |-> NoAction,
          createdAt |-> Never, expiresAt |-> Never, role |-> "user",
          decidedAt |-> Never, exec |-> NoHost, startedAt |-> Never,
          completedAt |-> Never]

NoSnap == [key |-> NoKey, version |-> 0, action |-> NoAction]

Rank(role) == IF role = "admin" THEN 2 ELSE 1

(* The authoritative floor create_request puts under the caller's role. *)
RequiredRole(a) ==
  IF Risk[a] \in {"critical", "untrusted"} THEN "admin" ELSE DeclaredRole[a]

NeedsAcknowledgement(a) == Risk[a] \in {"high", "critical", "untrusted"}

NewRow(a, t) == [status |-> "pending", version |-> 0, action |-> a,
                 createdAt |-> t, expiresAt |-> t + Ttl, role |-> "user",
                 decidedAt |-> Never, exec |-> NoHost, startedAt |-> Never,
                 completedAt |-> Never]

(* Mutants of Expire: the boundary instant is still valid; only a pending    *)
(* row expires; an executing one expires too.                                *)
ExpireLate(r, t) ==
  IF r.status \in {"pending", "approved"} /\ r.expiresAt < t
  THEN [r EXCEPT !.status = "expired", !.version = @ + 1]
  ELSE r

ExpirePendingOnly(r, t) ==
  IF r.status = "pending" /\ r.expiresAt <= t
  THEN [r EXCEPT !.status = "expired", !.version = @ + 1]
  ELSE r

ExpireExecuting(r, t) ==
  IF r.status \in {"pending", "approved", "executing"} /\ r.expiresAt <= t
  THEN [r EXCEPT !.status = "expired", !.version = @ + 1]
  ELSE r

(* _expire_due, on one row. *)
Expire(r, t) ==
  IF r.status \in {"pending", "approved"} /\ r.expiresAt <= t
  THEN [r EXCEPT !.status = "expired", !.version = @ + 1]
  ELSE r

ExpireAll(t) == [k \in Keys |-> Expire(row[k], t)]
ExpireOne(k, t) == [row EXCEPT ![k] = Expire(@, t)]

(* The instants a call that takes effect now may have read from the clock. *)
SampledAfter(s) == {t \in s..now : now - t <= BusyTimeout}
SampledBy(h) == SampledAfter(since[h])

-----------------------------------------------------------------------------
(* The hosts' program counters:                                            *)
(*   idle      between two requests                                        *)
(*   viewed    it lists the request it is about to decide                  *)
(*   looked    (gateway) it has read the row again in _decide_permission   *)
(*   approved  its approval is committed, the claim is next                *)
(*   claimed   it owns the execution and is about to run the action        *)
(*   returned  the executor returned a result                              *)
(*   raised    the executor, or what followed it, raised                   *)
(*   reporting (window) completed; the answer is being formatted           *)
PCs == {"idle", "viewed", "looked", "approved", "claimed", "returned",
        "raised", "reporting"}

GoTo(h, p) == /\ pc' = [pc EXCEPT ![h] = p]
              /\ since' = [since EXCEPT ![h] = now]
              /\ UNCHANGED snap

Holding(h, p, s) == /\ pc' = [pc EXCEPT ![h] = p]
                    /\ since' = [since EXCEPT ![h] = now]
                    /\ snap' = [snap EXCEPT ![h] = s]

Leave(h) == /\ pc' = [pc EXCEPT ![h] = "idle"]
            /\ since' = [since EXCEPT ![h] = 0]
            /\ snap' = [snap EXCEPT ![h] = NoSnap]

SnapOf(k, r) == [key |-> k, version |-> r.version, action |-> r.action]

Init ==
  /\ row = [k \in Keys |-> NoRow]
  /\ now = 0
  /\ pc = [h \in Hosts |-> "idle"]
  /\ snap = [h \in Hosts |-> NoSnap]
  /\ since = [h \in Hosts |-> 0]
  /\ effects = [k \in Keys |-> 0]
  /\ acked = [k \in Keys |-> FALSE]

(* Mutant of CreateRequest: a known key that is not pending gets a new row.  *)
CreateRequestAnew(k, a) ==
  /\ a \notin Denied
  /\ \E t \in SampledAfter(0) :
       row' = [ExpireAll(t) EXCEPT ![k] = IF @.status = "pending" THEN @
                                                                 ELSE NewRow(a, t)]
  /\ UNCHANGED <<now, pc, snap, since, effects, acked>>

(* create_request: an agent turn asks for consent.  A known key returns its *)
(* row whatever its status; a key bound to another action, and a denied     *)
(* action, raise and leave the table as it was.                             *)
CreateRequest(k, a) ==
  /\ a \notin Denied
  /\ \E t \in SampledAfter(0) :
       \/ /\ row[k].status = "absent"
          /\ row' = [ExpireAll(t) EXCEPT ![k] = NewRow(a, t)]
       \/ /\ row[k].status # "absent" /\ row[k].action = a
          /\ row' = ExpireAll(t)
  /\ UNCHANGED <<now, pc, snap, since, effects, acked>>

(* list_pending: expires what is due, then shows one pending row (or none). *)
ListPending(h) ==
  /\ pc[h] = "idle"
  /\ \E t \in SampledBy(h) :
       /\ row' = ExpireAll(t)
       /\ \/ \E k \in Keys : /\ row'[k].status = "pending"
                             /\ Holding(h, "viewed", SnapOf(k, row'[k]))
          \/ UNCHANGED <<pc, snap, since>>
  /\ UNCHANGED <<now, effects, acked>>

(* get, as the gateway's _permission_for_principal calls it before it decides. *)
LookUp(h) ==
  /\ h \in Gateways /\ pc[h] = "viewed"
  /\ \E t \in SampledBy(h) : row' = ExpireOne(snap[h].key, t)
  /\ GoTo(h, "looked")
  /\ UNCHANGED <<now, effects, acked>>

(* Mutant of Decidable: the approver's rank is not compared.                 *)
DecidableByAnyone(r, v, d, role, ack) ==
  /\ r.status = "pending" /\ r.version = v
  /\ d = "approved" => (NeedsAcknowledgement(r.action) => ack)

Decidable(r, v, d, role, ack) ==
  /\ r.status = "pending" /\ r.version = v
  /\ d = "approved" => /\ Rank(role) >= Rank(RequiredRole(r.action))
                       /\ NeedsAcknowledgement(r.action) => ack

Decided(r, d, role, t) ==
  [r EXCEPT !.status = d, !.decidedAt = t, !.role = role, !.version = @ + 1]

(* decide, called with the version the human saw.  A refusal or a conflict  *)
(* raises: the transaction is rolled back and the handler ends.  A host     *)
(* without an executor stops after the decision.                            *)
Decide(h) ==
  LET k == snap[h].key IN
  /\ \/ h \in Windows /\ pc[h] = "viewed"
     \/ h \in Gateways /\ pc[h] = "looked"
  /\ \E t \in SampledBy(h), d \in {"approved", "rejected"}, role \in Roles,
        ack \in BOOLEAN :
       LET r == Expire(row[k], t) IN
       \/ /\ Decidable(r, snap[h].version, d, role, ack)
          /\ row' = [row EXCEPT ![k] = Decided(r, d, role, t)]
          /\ acked' = [acked EXCEPT ![k] = ack]
          /\ IF d = "approved" /\ h \in Executors
             THEN Holding(h, "approved", SnapOf(k, row'[k]))
             ELSE Leave(h)
       \/ /\ ~ Decidable(r, snap[h].version, d, role, ack)
          /\ Leave(h)
          /\ UNCHANGED <<row, acked>>
  /\ UNCHANGED <<now, effects>>

Claimable(r, s) ==
  /\ r.action \notin Denied
  /\ r.action = s.action
  /\ r.status = "approved" /\ r.version = s.version

Claimed(r, h, t) ==
  [r EXCEPT !.status = "executing", !.exec = h, !.startedAt = t,
            !.version = @ + 1]

(* claim_execution: consumes the approval, or raises and ends the handler.  *)
Claim(h) ==
  LET k == snap[h].key IN
  /\ pc[h] = "approved"
  /\ \E t \in SampledBy(h) :
       LET r == Expire(row[k], t) IN
       \/ /\ Claimable(r, snap[h])
          /\ row' = [row EXCEPT ![k] = Claimed(r, h, t)]
          /\ Holding(h, "claimed", SnapOf(k, row'[k]))
       \/ /\ ~ Claimable(r, snap[h])
          /\ Leave(h)
          /\ UNCHANGED row
  /\ UNCHANGED <<now, effects, acked>>

(* Mutants of Execute: an executor that raised is run again; what it raised  *)
(* is swallowed.                                                             *)
ExecuteRetrying(h) ==
  /\ pc[h] = "claimed"
  /\ effects' = [effects EXCEPT ![snap[h].key] = @ + 1]
  /\ GoTo(h, "returned") \/ GoTo(h, "claimed")
  /\ UNCHANGED <<row, now, acked>>

ExecuteSwallowing(h) ==
  /\ pc[h] = "claimed"
  /\ \/ effects' = [effects EXCEPT ![snap[h].key] = @ + 1]
     \/ UNCHANGED effects
  /\ GoTo(h, "returned")
  /\ UNCHANGED <<row, now, acked>>

(* The executor runs outside any transaction.  It may perform the action    *)
(* and return, perform it and raise, or raise before it did anything.       *)
Execute(h) ==
  LET k == snap[h].key IN
  /\ pc[h] = "claimed"
  /\ \/ /\ effects' = [effects EXCEPT ![k] = @ + 1]
        /\ GoTo(h, "returned") \/ GoTo(h, "raised")
     \/ /\ GoTo(h, "raised")
        /\ UNCHANGED effects
  /\ UNCHANGED <<row, now, acked>>

(* Mutant of Completable: only the claiming host is compared.                *)
CompletableByOwner(r, h) == r.exec = h

Completable(r, h) ==
  r.status = "executing" /\ r.exec = h /\ r.version = snap[h].version

Completed(r, s, t) ==
  [r EXCEPT !.status = s, !.completedAt = t, !.version = @ + 1]

(* Mutant of CompleteSuccess: an error while recording ends the handler.     *)
CompleteSuccessOrGiveUp(h) ==
  LET k == snap[h].key IN
  /\ pc[h] = "returned"
  /\ \E t \in SampledBy(h) :
       \/ /\ Completable(Expire(row[k], t), h)
          /\ row' = [row EXCEPT ![k] = Completed(Expire(@, t), "completed", t)]
          /\ IF h \in Windows THEN GoTo(h, "reporting") ELSE Leave(h)
       \/ /\ Leave(h)
          /\ UNCHANGED row
  /\ UNCHANGED <<now, effects, acked>>

(* complete_execution(success=True).  It raises before its transaction when *)
(* the result cannot be canonicalised, and the handler then records a       *)
(* failure.                                                                 *)
CompleteSuccess(h) ==
  LET k == snap[h].key IN
  /\ pc[h] = "returned"
  /\ \E t \in SampledBy(h) :
       \/ /\ Completable(Expire(row[k], t), h)
          /\ row' = [row EXCEPT ![k] = Completed(Expire(@, t), "completed", t)]
          /\ IF h \in Windows THEN GoTo(h, "reporting") ELSE Leave(h)
       \/ /\ GoTo(h, "raised")
          /\ UNCHANGED row
  /\ UNCHANGED <<now, effects, acked>>

(* Mutant of CompleteFailure: a conflict is retried for ever.                *)
CompleteFailureRetrying(h) ==
  LET k == snap[h].key IN
  /\ pc[h] = "raised"
  /\ \E t \in SampledBy(h) :
       LET r == Expire(row[k], t) IN
       \/ /\ Completable(r, h)
          /\ row' = [row EXCEPT ![k] = Completed(r, "failed", t)]
          /\ Leave(h)
       \/ /\ ~ Completable(r, h)
          /\ GoTo(h, "raised")
          /\ UNCHANGED row
  /\ UNCHANGED <<now, effects, acked>>

(* complete_execution(success=False), from the except branch of the handler. *)
(* A conflict ends the gateway's handler; the window then reads the row,     *)
(* which expires nothing any more, and ends too.                             *)
CompleteFailure(h) ==
  LET k == snap[h].key IN
  /\ pc[h] = "raised"
  /\ \E t \in SampledBy(h) :
       LET r == Expire(row[k], t) IN
       \/ /\ Completable(r, h)
          /\ row' = [row EXCEPT ![k] = Completed(r, "failed", t)]
       \/ /\ ~ Completable(r, h)
          /\ UNCHANGED row
  /\ Leave(h)
  /\ UNCHANGED <<now, effects, acked>>

(* The window formats its answer inside the same try: an error there sends   *)
(* it to the except branch although the row is completed.                    *)
Report(h) ==
  /\ pc[h] = "reporting"
  /\ Leave(h) \/ GoTo(h, "raised")
  /\ UNCHANGED <<row, now, effects, acked>>

(* The human turns away; the request stays listed. *)
Dismiss(h) ==
  /\ pc[h] = "viewed"
  /\ Leave(h)
  /\ UNCHANGED <<row, now, effects, acked>>

(* BEGIN IMMEDIATE gives up after BusyTimeout: the call raises, nothing is   *)
(* written.  Only the first complete_execution is caught and followed by the *)
(* other one.                                                                *)
StoreBusy(h) ==
  /\ Faults
  /\ \/ pc[h] \in {"looked", "approved", "raised"} /\ Leave(h)
     \/ pc[h] = "returned" /\ GoTo(h, "raised")
  /\ UNCHANGED <<row, now, effects, acked>>

(* The process of a host dies; everything but the table is lost. *)
Crash(h) ==
  /\ Faults
  /\ pc[h] # "idle"
  /\ Leave(h)
  /\ UNCHANGED <<row, now, effects, acked>>

Tick == /\ now < MaxTime
        /\ now' = now + 1
        /\ UNCHANGED <<row, pc, snap, since, effects, acked>>

HostStep(h) == \/ LookUp(h) \/ Decide(h) \/ Claim(h) \/ Execute(h)
               \/ CompleteSuccess(h) \/ CompleteFailure(h) \/ Report(h)

Next == \/ \E k \in Keys, a \in Actions : CreateRequest(k, a)
        \/ \E h \in Hosts : \/ ListPending(h) \/ HostStep(h) \/ Dismiss(h)
                            \/ StoreBusy(h) \/ Crash(h)
        \/ Tick

Spec == Init /\ [][Next]_vars

(* Once a request handler runs its thread is scheduled, and the executor it  *)
(* calls returns or raises.  Nothing is assumed of the humans (who list,     *)
(* decide or turn away), of the agent turns or of the clock.                 *)
Handling(h) == pc[h] \notin {"idle", "viewed"}

FairSpec == Spec /\ \A h \in Hosts : WF_vars(Handling(h) /\ HostStep(h))

-----------------------------------------------------------------------------
(* Properties. *)

RowType == [status : Statuses, version : 0..3, action : Actions \cup {NoAction},
            createdAt : Int, expiresAt : Int, role : Roles, decidedAt : Int,
            exec : Hosts \cup {NoHost}, startedAt : Int, completedAt : Int]

SnapType == [key : Keys \cup {NoKey}, version : 0..3,
             action : Actions \cup {NoAction}]

(* Types; a row is written at most four times, so its state_version, the     *)
(* token every compare-and-swap uses, stays within 0..3.                     *)
TypeOK ==
  /\ row \in [Keys -> RowType]
  /\ now \in Nat
  /\ pc \in [Hosts -> PCs]
  /\ snap \in [Hosts -> SnapType]
  /\ since \in [Hosts -> Nat]
  /\ effects \in [Keys -> Nat]
  /\ acked \in [Keys -> BOOLEAN]

Consumed == {"executing", "completed", "failed"}

(* One approval pays for at most one execution, whatever hosts race, crash   *)
(* or retry; an action that was never claimed was never performed.           *)
AtMostOnce ==
  \A k \in Keys : /\ effects[k] <= 1
                  /\ effects[k] > 0 => row[k].status \in Consumed

(* Nothing is approved, or run on an approval, that a role of the required   *)
(* rank did not decide, whose elevated risk was not acknowledged, or that    *)
(* the static policy denies (create_request, decide, claim_execution).       *)
ConsentIsSufficient ==
  \A k \in Keys : row[k].status \in Consumed \cup {"approved"} =>
    /\ Rank(row[k].role) >= Rank(RequiredRole(row[k].action))
    /\ NeedsAcknowledgement(row[k].action) => acked[k]
    /\ row[k].action \notin Denied

(* The audit columns of a row tell a possible story although every method    *)
(* reads the clock before it gets the lock: created, decided, claimed and    *)
(* completed in this order, decided and claimed before the row expires.      *)
AuditTrailOrdered ==
  \A k \in Keys : LET r == row[k] IN
    /\ r.decidedAt # Never => r.createdAt <= r.decidedAt /\ r.decidedAt < r.expiresAt
    /\ r.startedAt # Never => r.decidedAt # Never /\ r.decidedAt <= r.startedAt
                               /\ r.startedAt < r.expiresAt
    /\ r.completedAt # Never => r.startedAt # Never /\ r.startedAt <= r.completedAt

(* A row says completed only if its action was performed.  (A row that says  *)
(* failed may have been: the result may be what could not be recorded.)      *)
CompletedWasPerformed ==
  \A k \in Keys : row[k].status = "completed" => effects[k] = 1

(* Two hosts never hold the execution of the same row.                       *)
ExclusiveExecution ==
  \A g, h \in Hosts : /\ g # h
                      /\ pc[g] \in {"claimed", "returned"}
                      /\ pc[h] \in {"claimed", "returned", "raised"}
                     => snap[g].key # snap[h].key

Final == {"rejected", "completed", "failed", "expired"}

(* A decided, expired or finished row is never written again, and an         *)
(* executing one only by the host that claimed it.                           *)
RowsSettle ==
  [][\A k \in Keys :
       /\ row[k].status \in Final => row'[k] = row[k]
       /\ row[k].status = "executing" /\ row'[k] # row[k] =>
            LET h == row[k].exec IN
            pc[h] \in {"returned", "raised"} /\ snap[h].key = k]_vars

(* An approval is consumed before it expires, up to the time a claim may     *)
(* wait for the write lock after it has read the clock.                      *)
SpentInTime ==
  [][\A k \in Keys :
       row[k].status = "approved" /\ row'[k].status = "executing" =>
         now < row[k].expiresAt + BusyTimeout]_vars

(* Every handler ends.                                                       *)
HandlersReturn == \A h \in Hosts : Handling(h) ~> ~ Handling(h)

(* Without faults no row stays executing: its host records an outcome.       *)
ExecutionsFinish ==
  \A k \in Keys : row[k].status = "executing" ~>
                    row[k].status \in {"completed", "failed"}

-----------------------------------------------------------------------------
(* The inductive invariant: what a row may hold in each status, and what a   *)
(* host may rely on about the row it last read.                              *)

Granted == {"approved"} \cup Consumed

RowInv(k) ==
  LET r == row[k] IN
  /\ r.status # "absent" => /\ r.action \in Actions \ Denied
                            /\ r.createdAt \in Nat /\ r.createdAt <= now
                            /\ r.expiresAt = r.createdAt + Ttl
  /\ r.status \in {"absent", "pending"} => r.version = 0 /\ r.decidedAt = Never
  /\ r.status \in {"approved", "rejected"} => r.version = 1
  /\ r.status = "executing" => r.version = 2
  /\ r.status \notin Consumed => r.startedAt = Never /\ effects[k] = 0
  /\ r.status \notin {"completed", "failed"} => r.completedAt = Never
  /\ r.decidedAt # Never => /\ r.decidedAt \in Nat
                            /\ r.createdAt <= r.decidedAt
                            /\ r.decidedAt < r.expiresAt
  /\ r.status \in Granted => /\ r.decidedAt # Never
                             /\ Rank(r.role) >= Rank(RequiredRole(r.action))
                             /\ NeedsAcknowledgement(r.action) => acked[k]
  /\ r.status \in Consumed => /\ r.startedAt \in Nat
                              /\ r.decidedAt <= r.startedAt
                              /\ r.startedAt < r.expiresAt
  /\ r.completedAt # Never => r.startedAt <= r.completedAt
  /\ effects[k] <= 1
  /\ r.status = "completed" => effects[k] = 1

Owns(h) == LET r == row[snap[h].key] IN
  /\ r.status = "executing" /\ r.exec = h
  /\ r.version = snap[h].version /\ r.startedAt <= since[h]

HostInv(h) ==
  LET k == snap[h].key IN
  /\ since[h] <= now
  /\ pc[h] # "idle" => /\ k \in Keys
                       /\ row[k].status # "absent"
                       /\ row[k].createdAt <= since[h]
  /\ pc[h] = "approved" => row[k].decidedAt # Never /\ row[k].decidedAt <= since[h]
  /\ pc[h] = "claimed" => Owns(h) /\ effects[k] = 0
  /\ pc[h] = "returned" => Owns(h) /\ effects[k] = 1
  /\ pc[h] = "raised" => Owns(h) \/ row[k].status = "completed"
  /\ pc[h] = "reporting" => row[k].status = "completed"

(* A host that runs an action owns its executing row at the version it       *)
(* knows, and a row carries exactly the evidence its status claims.          *)
ProtocolInv == /\ \A k \in Keys : RowInv(k)
               /\ \A h \in Hosts : HostInv(h)

(* The protocol implements the one-shot consent promise.                     *)
Abstract(status) ==
  CASE status = "absent"                  -> "unasked"
    [] status = "pending"                 -> "asked"
    [] status = "approved"                -> "granted"
    [] status \in {"rejected", "expired"} -> "withdrawn"
    [] status = "executing"               -> "spent"
    [] status \in {"completed", "failed"} -> "settled"

Consent == INSTANCE OneShotConsent WITH
             Requests <- Keys,
             consent <- [k \in Keys |-> Abstract(row[k].status)],
             performed <- effects

(* Rows, versions, clocks and crashes of the hosts never let the system do   *)
(* what OneShotConsent forbids.                                              *)
ImplementsOneShotConsent == Consent!Spec
=============================================================================
