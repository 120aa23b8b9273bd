----------------------- MODULE PermissionStoreProofs -----------------------
(***************************************************************************)
(* Proofs about PermissionStore for every set of keys, actions and hosts,  *)
(* every time-to-live, every busy timeout and with or without faults.      *)
(*                                                                         *)
(* The inductive invariant is IInv.  A step of the system changes a row    *)
(* only by one of five row operations (Expire, NewRow, Decided, Claimed,   *)
(* Completed); the lemmas about them say what they keep, and each action   *)
(* has one lemma that puts the row operation and the host's bookkeeping    *)
(* together.  From the row operations follow also the refinement of        *)
(* OneShotConsent, and from IInv the safety halves of the two liveness     *)
(* properties: without faults an executing row is attended by a host, and  *)
(* every step of a handler brings it nearer to its end.                    *)
(***************************************************************************)
EXTENDS PermissionStore, TLAPS

IInv == TypeOK /\ ProtocolInv

USE DEF Never

-----------------------------------------------------------------------------
(* Expire leaves a row that is not open alone, and only ever moves an open   *)
(* one to expired, keeping the evidence in its other columns (_expire_due).  *)
LEMMA ExpireFacts ==
  ASSUME NEW r \in RowType, NEW t \in Int
  PROVE  /\ r.status \notin {"pending", "approved"} => Expire(r, t) = r
         /\ Expire(r, t).status \in {r.status, "expired"}
         /\ Expire(r, t) # r => /\ Expire(r, t).status = "expired"
                                /\ r.status \in {"pending", "approved"}
                                /\ r.expiresAt <= t
                                /\ Expire(r, t).version = r.version + 1
         /\ Expire(r, t).status = "pending" => Expire(r, t) = r
         /\ Expire(r, t).status = "approved" => Expire(r, t) = r
         /\ Expire(r, t).status \in {"pending", "approved"} => ~ (r.expiresAt <= t)
         /\ Expire(r, t).action = r.action
         /\ Expire(r, t).createdAt = r.createdAt
         /\ Expire(r, t).expiresAt = r.expiresAt
         /\ Expire(r, t).role = r.role
         /\ Expire(r, t).decidedAt = r.decidedAt
         /\ Expire(r, t).exec = r.exec
         /\ Expire(r, t).startedAt = r.startedAt
         /\ Expire(r, t).completedAt = r.completedAt
         /\ r.version <= 2 => Expire(r, t) \in RowType
<1>1. CASE r.status \in {"pending", "approved"} /\ r.expiresAt <= t
  <2>1. Expire(r, t) = [r EXCEPT !.status = "expired", !.version = r.version + 1]
    BY <1>1 DEF Expire
  <2>2. /\ Expire(r, t).status = "expired"
        /\ Expire(r, t).version = r.version + 1
    BY <2>1 DEF RowType
  <2>3. ASSUME r.version <= 2 PROVE Expire(r, t) \in RowType
    <3>1. r.version + 1 \in 0..3
      BY <2>3 DEF RowType
    <3> QED
      BY <2>1, <3>1 DEF RowType, Statuses
  <2> QED
    BY <1>1, <2>1, <2>2, <2>3 DEF RowType
<1>2. CASE ~ (r.status \in {"pending", "approved"} /\ r.expiresAt <= t)
  <2>1. Expire(r, t) = r
    BY <1>2 DEF Expire
  <2> QED
    BY <1>2, <2>1
<1> QED
  BY <1>1, <1>2

LEMMA InitInv == Init => IInv
<1> SUFFICES ASSUME Init PROVE IInv
  OBVIOUS
<1>1. TypeOK
  BY DEF Init, TypeOK, NoRow, NoSnap, RowType, SnapType, Statuses, Roles, PCs, Never
<1>2. ASSUME NEW k \in Keys PROVE RowInv(k)
  BY DEF Init, RowInv, NoRow, Granted, Consumed
<1>3. ASSUME NEW h \in Hosts PROVE HostInv(h)
  BY DEF Init, HostInv, NoSnap
<1> QED
  BY <1>1, <1>2, <1>3 DEF IInv, ProtocolInv

-----------------------------------------------------------------------------
(* What a step of host h may do to the row of k, seen by the other hosts.    *)
StepKeeps(k, h) ==
  /\ row[k].status # "absent" => /\ row'[k].status # "absent"
                                 /\ row'[k].createdAt = row[k].createdAt
  /\ row[k].decidedAt # Never => row'[k].decidedAt = row[k].decidedAt
  /\ row[k].status \in {"completed", "failed"} => row'[k] = row[k]
  /\ row[k].status = "executing" /\ row[k].exec # h =>
       row'[k] = row[k] /\ effects'[k] = effects[k]

LEMMA OtherHosts ==
  ASSUME TypeOK, NEW h, NEW g \in Hosts, g # h, HostInv(g),
         pc'[g] = pc[g], snap'[g] = snap[g], since'[g] = since[g],
         now \in Int, now' \in Int, now <= now',
         \A k \in Keys : StepKeeps(k, h)
  PROVE  HostInv(g)'
<1> DEFINE k == snap[g].key
<1>0. /\ pc[g] \in PCs
      /\ since[g] \in Int
  BY DEF TypeOK
<1>1. since'[g] <= now'
  BY <1>0 DEF HostInv
<1>2. CASE pc[g] = "idle"
  BY <1>1, <1>2 DEF HostInv, Owns
<1>3. CASE pc[g] # "idle"
  <2>1. k \in Keys /\ row[k].status # "absent" /\ row[k].createdAt <= since[g]
    BY <1>3 DEF HostInv
  <2>2. StepKeeps(k, h)
    BY <2>1
  <2>3. Owns(g) => Owns(g)' /\ effects'[k] = effects[k]
    BY <2>2 DEF Owns, StepKeeps
  <2> QED
    BY <1>1, <1>3, <2>1, <2>2, <2>3 DEF HostInv, StepKeeps
<1> QED
  BY <1>2, <1>3

(* Expiry, alone, keeps a row good and is invisible to the hosts that rely   *)
(* on it.                                                                    *)
LEMMA ExpiryStep ==
  ASSUME TypeOK, NEW k \in Keys, NEW t \in Int, RowInv(k),
         row'[k] = Expire(row[k], t), now' = now,
         effects'[k] = effects[k], acked'[k] = acked[k], NEW h
  PROVE  RowInv(k)' /\ StepKeeps(k, h) /\ row'[k] \in RowType
<1>1. row[k] \in RowType
  BY DEF TypeOK
<1>2. row[k].status \in {"pending", "approved"} => row[k].version <= 2
  BY DEF RowInv
<1>3. CASE row'[k] = row[k]
  BY <1>1, <1>3 DEF RowInv, StepKeeps
<1>4. CASE row'[k] # row[k]
  <2>1. /\ row[k].status \in {"pending", "approved"}
        /\ row'[k].status = "expired"
        /\ row'[k].version = row[k].version + 1
    BY <1>1, <1>4, ExpireFacts
  <2>2. /\ row'[k].action = row[k].action
        /\ row'[k].createdAt = row[k].createdAt
        /\ row'[k].expiresAt = row[k].expiresAt
        /\ row'[k].decidedAt = row[k].decidedAt
        /\ row'[k].startedAt = row[k].startedAt
        /\ row'[k].completedAt = row[k].completedAt
    BY <1>1, ExpireFacts
  <2>3. RowInv(k)'
    BY <2>1, <2>2 DEF RowInv, Granted, Consumed
  <2>4. StepKeeps(k, h)
    BY <2>1, <2>2 DEF StepKeeps
  <2>5. row'[k] \in RowType
    BY <1>1, <1>2, <2>1, ExpireFacts
  <2> QED
    BY <2>3, <2>4, <2>5
<1> QED
  BY <1>3, <1>4

(* The clock of a call, sampled by a host, is a past instant not before the  *)
(* host's last step.                                                         *)
LEMMA SampleFacts ==
  ASSUME TypeOK, NEW s \in Nat, NEW t \in SampledAfter(s)
  PROVE  t \in Nat /\ s <= t /\ t <= now
BY DEF SampledAfter, TypeOK

LEMMA NewRowType ==
  ASSUME NEW a \in Actions, NEW t \in Nat
  PROVE  NewRow(a, t) \in RowType
BY TimeAssumption DEF NewRow, RowType, Statuses, Roles

LEMMA CreateRequestInv ==
  ASSUME IInv, NEW k \in Keys, NEW a \in Actions, CreateRequest(k, a)
  PROVE  IInv'
<1> USE DEF IInv
<1>0. TypeOK /\ ProtocolInv
  OBVIOUS
<1>1. PICK t \in SampledAfter(0) :
        \/ /\ row[k].status = "absent"
           /\ row' = [ExpireAll(t) EXCEPT ![k] = NewRow(a, t)]
        \/ /\ row[k].status # "absent" /\ row[k].action = a
           /\ row' = ExpireAll(t)
  BY DEF CreateRequest
<1>2. t \in Nat /\ t <= now
  BY <1>0, SampleFacts
<1>3. UNCHANGED <<now, pc, snap, since, effects, acked>> /\ a \notin Denied
  BY DEF CreateRequest
<1>4. ASSUME NEW j \in Keys
      PROVE  RowInv(j)' /\ StepKeeps(j, NoHost) /\ row'[j] \in RowType
  <2>1. CASE row'[j] = Expire(row[j], t)
    BY <1>0, <1>2, <1>3, <2>1, ExpiryStep DEF ProtocolInv
  <2>2. CASE j = k /\ row[k].status = "absent" /\ row'[k] = NewRow(a, t)
    <3>1. /\ row'[k].status = "pending" /\ row'[k].version = 0
          /\ row'[k].action = a /\ row'[k].createdAt = t
          /\ row'[k].expiresAt = t + Ttl /\ row'[k].decidedAt = Never
          /\ row'[k].startedAt = Never /\ row'[k].completedAt = Never
      BY <2>2 DEF NewRow
    <3>2. row'[k] \in RowType
      BY <1>2, <2>2, NewRowType
    <3>3. RowInv(k) /\ row[k].decidedAt = Never /\ effects'[k] = 0
      BY <1>0, <1>3, <2>2 DEF ProtocolInv, RowInv, Consumed
    <3>4. RowInv(k)'
      BY <1>2, <1>3, <3>1, <3>3 DEF RowInv, Granted, Consumed
    <3> QED
      BY <2>2, <3>2, <3>3, <3>4 DEF StepKeeps
  <2> QED
    BY <1>1, <2>1, <2>2 DEF ExpireAll
<1>5. row' \in [Keys -> RowType]
  BY <1>1, <1>4 DEF ExpireAll
<1>6. TypeOK'
  BY <1>0, <1>3, <1>5 DEF TypeOK
<1>7. ASSUME NEW g \in Hosts PROVE HostInv(g)'
  <2>1. g # NoHost
    BY HostAssumption
  <2>2. HostInv(g) /\ now \in Int /\ now' \in Int /\ now <= now'
    BY <1>0, <1>3 DEF ProtocolInv, TypeOK
  <2>3. pc'[g] = pc[g] /\ snap'[g] = snap[g] /\ since'[g] = since[g]
    BY <1>3
  <2>4. \A j \in Keys : StepKeeps(j, NoHost)
    BY <1>4
  <2> QED
    BY <1>0, <2>1, <2>2, <2>3, <2>4, OtherHosts
<1> QED
  BY <1>4, <1>6, <1>7 DEF ProtocolInv

-----------------------------------------------------------------------------
(* The bookkeeping of the host that takes a step.                            *)
HostVarsType == /\ pc \in [Hosts -> PCs]
                /\ snap \in [Hosts -> SnapType]
                /\ since \in [Hosts -> Nat]

OthersUnmoved(h) ==
  \A g \in Hosts \ {h} : pc'[g] = pc[g] /\ snap'[g] = snap[g] /\ since'[g] = since[g]

LEMMA GoToFacts ==
  ASSUME TypeOK, NEW h \in Hosts, NEW p \in PCs, GoTo(h, p)
  PROVE  /\ HostVarsType' /\ OthersUnmoved(h)
         /\ pc'[h] = p /\ snap'[h] = snap[h] /\ since'[h] = now
BY DEF TypeOK, GoTo, HostVarsType, OthersUnmoved

LEMMA HoldingFacts ==
  ASSUME TypeOK, NEW h \in Hosts, NEW p \in PCs, NEW s \in SnapType, Holding(h, p, s)
  PROVE  /\ HostVarsType' /\ OthersUnmoved(h)
         /\ pc'[h] = p /\ snap'[h] = s /\ since'[h] = now
BY DEF TypeOK, Holding, HostVarsType, OthersUnmoved

LEMMA LeaveFacts ==
  ASSUME TypeOK, NEW h \in Hosts, Leave(h), now' = now
  PROVE  HostVarsType' /\ OthersUnmoved(h) /\ HostInv(h)'
<1>1. HostVarsType' /\ OthersUnmoved(h)
  BY DEF TypeOK, Leave, NoSnap, SnapType, PCs, HostVarsType, OthersUnmoved
<1>2. pc'[h] = "idle" /\ since'[h] = 0 /\ now' \in Nat
  BY DEF TypeOK, Leave
<1> QED
  BY <1>1, <1>2 DEF HostInv, Owns

LEMMA SnapOfType ==
  ASSUME NEW k \in Keys, NEW r \in RowType
  PROVE  /\ SnapOf(k, r) \in SnapType
         /\ SnapOf(k, r).key = k
         /\ SnapOf(k, r).version = r.version
         /\ SnapOf(k, r).action = r.action
BY DEF SnapOf, SnapType, RowType

(* A step of h keeps the invariant if it keeps every row good, in a way the  *)
(* other hosts tolerate, and leaves h itself in a good state.                *)
LEMMA HostStepInv ==
  ASSUME IInv, NEW h \in Hosts, now' = now,
         HostVarsType', OthersUnmoved(h), HostInv(h)',
         row' \in [Keys -> RowType],
         effects' \in [Keys -> Nat], acked' \in [Keys -> BOOLEAN],
         \A k \in Keys : RowInv(k)' /\ StepKeeps(k, h)
  PROVE  IInv'
<1>0. TypeOK /\ ProtocolInv /\ now \in Int /\ now' \in Int /\ now <= now'
  BY DEF IInv, TypeOK
<1>1. TypeOK'
  BY <1>0 DEF TypeOK, HostVarsType
<1>2. ASSUME NEW g \in Hosts PROVE HostInv(g)'
  <2>1. CASE g = h
    BY <2>1
  <2>2. CASE g # h
    <3>1. pc'[g] = pc[g] /\ snap'[g] = snap[g] /\ since'[g] = since[g]
      BY <2>2 DEF OthersUnmoved
    <3>2. HostInv(g)
      BY <1>0 DEF ProtocolInv
    <3>3. \A k \in Keys : StepKeeps(k, h)
      OBVIOUS
    <3> QED
      BY <1>0, <2>2, <3>1, <3>2, <3>3, OtherHosts
  <2> QED
    BY <2>1, <2>2
<1> QED
  BY <1>1, <1>2 DEF IInv, ProtocolInv

(* The rows a step leaves alone.                                             *)
LEMMA SameRow ==
  ASSUME NEW k \in Keys, RowInv(k), row'[k] = row[k], now' = now,
         effects'[k] = effects[k], acked'[k] = acked[k], NEW h
  PROVE  RowInv(k)' /\ StepKeeps(k, h)
BY DEF RowInv, StepKeeps

LEMMA ListPendingInv ==
  ASSUME IInv, NEW h \in Hosts, ListPending(h)
  PROVE  IInv'
<1>0. TypeOK /\ ProtocolInv
  BY DEF IInv
<1>1. PICK t \in SampledBy(h) :
        /\ row' = ExpireAll(t)
        /\ \/ \E k \in Keys : /\ row'[k].status = "pending"
                              /\ Holding(h, "viewed", SnapOf(k, row'[k]))
           \/ UNCHANGED <<pc, snap, since>>
  BY DEF ListPending
<1>2. since[h] \in Nat /\ t \in Nat
  BY <1>0, SampleFacts DEF SampledBy, TypeOK
<1>3. UNCHANGED <<now, effects, acked>>
  BY DEF ListPending
<1>4. ASSUME NEW j \in Keys
      PROVE  RowInv(j)' /\ StepKeeps(j, h) /\ row'[j] \in RowType
  BY <1>0, <1>1, <1>2, <1>3, ExpiryStep DEF ProtocolInv, ExpireAll
<1>5. row' \in [Keys -> RowType]
  BY <1>1, <1>4 DEF ExpireAll
<1>6. HostVarsType' /\ OthersUnmoved(h) /\ HostInv(h)'
  <2>1. CASE \E k \in Keys : /\ row'[k].status = "pending"
                             /\ Holding(h, "viewed", SnapOf(k, row'[k]))
    <3>1. PICK k \in Keys : /\ row'[k].status = "pending"
                            /\ Holding(h, "viewed", SnapOf(k, row'[k]))
      BY <2>1
    <3>2. SnapOf(k, row'[k]) \in SnapType /\ SnapOf(k, row'[k]).key = k
      BY <1>4, SnapOfType
    <3>3. /\ HostVarsType' /\ OthersUnmoved(h)
          /\ pc'[h] = "viewed" /\ snap'[h].key = k /\ since'[h] = now
      BY <1>0, <3>1, <3>2, HoldingFacts DEF PCs
    <3>4. row'[k].createdAt <= now
      BY <1>3, <1>4, <3>1 DEF RowInv
    <3> QED
      BY <1>0, <1>3, <3>1, <3>3, <3>4 DEF HostInv, TypeOK
  <2>2. CASE UNCHANGED <<pc, snap, since>>
    <3>1. pc'[h] = "idle" /\ since'[h] <= now'
      BY <1>0, <1>3, <2>2 DEF ListPending, HostInv, ProtocolInv
    <3> QED
      BY <1>0, <2>2, <3>1 DEF HostVarsType, OthersUnmoved, HostInv, TypeOK
  <2> QED
    BY <1>1, <2>1, <2>2
<1> QED
  BY <1>0, <1>3, <1>4, <1>5, <1>6, HostStepInv DEF TypeOK

LEMMA LookUpInv ==
  ASSUME IInv, NEW h \in Hosts, LookUp(h)
  PROVE  IInv'
<1> DEFINE k == snap[h].key
<1>0. TypeOK /\ ProtocolInv
  BY DEF IInv
<1>1. PICK t \in SampledBy(h) : row' = ExpireOne(k, t)
  BY DEF LookUp
<1>2. t \in Nat
  BY <1>0, SampleFacts DEF SampledBy, TypeOK
<1>3. UNCHANGED <<now, effects, acked>> /\ GoTo(h, "looked") /\ pc[h] = "viewed"
  BY DEF LookUp
<1>4. ASSUME NEW j \in Keys
      PROVE  RowInv(j)' /\ StepKeeps(j, h) /\ row'[j] \in RowType
  <2>1. row'[j] = row[j] \/ row'[j] = Expire(row[j], t)
    BY <1>0, <1>1 DEF ExpireOne, TypeOK
  <2>2. RowInv(j) /\ row[j] \in RowType
    BY <1>0 DEF ProtocolInv, TypeOK
  <2> QED
    BY <1>0, <1>2, <1>3, <2>1, <2>2, ExpiryStep, SameRow
<1>5. row' \in [Keys -> RowType]
  BY <1>0, <1>1, <1>4 DEF ExpireOne, TypeOK
<1>6. HostVarsType' /\ OthersUnmoved(h) /\ HostInv(h)'
  <2>1. k \in Keys /\ row[k].status # "absent" /\ HostInv(h)
    BY <1>0, <1>3 DEF ProtocolInv, HostInv
  <2>2. row'[k].status # "absent"
    BY <1>4, <2>1 DEF StepKeeps
  <2>3. row'[k].createdAt <= now
    BY <1>3, <1>4, <2>1, <2>2 DEF RowInv
  <2>4. /\ HostVarsType' /\ OthersUnmoved(h)
        /\ pc'[h] = "looked" /\ snap'[h].key = k /\ since'[h] = now
    BY <1>0, <1>3, GoToFacts DEF PCs
  <2> QED
    BY <1>0, <1>3, <2>1, <2>2, <2>3, <2>4 DEF HostInv, TypeOK
<1> QED
  BY <1>0, <1>3, <1>4, <1>5, <1>6, HostStepInv DEF TypeOK

(* A decision taken on a pending row in time.                                *)
LEMMA DecidedStep ==
  ASSUME IInv, NEW k \in Keys, NEW h, NEW t \in Nat, t <= now, now' = now,
         NEW d \in {"approved", "rejected"}, NEW role \in Roles, NEW ack \in BOOLEAN,
         NEW v, Decidable(Expire(row[k], t), v, d, role, ack),
         row[k].createdAt <= t,
         row'[k] = Decided(Expire(row[k], t), d, role, t),
         effects'[k] = effects[k], acked'[k] = ack
  PROVE  /\ RowInv(k)' /\ StepKeeps(k, h) /\ row'[k] \in RowType
         /\ row'[k].status = d /\ row'[k].decidedAt = t
<1>1. row[k] \in RowType /\ RowInv(k)
  BY DEF IInv, TypeOK, ProtocolInv
<1>2. Expire(row[k], t) = row[k] /\ row[k].status = "pending"
  BY <1>1, ExpireFacts DEF Decidable
<1>3. row[k].version = 0 /\ ~ (row[k].expiresAt <= t)
  BY <1>1, <1>2, ExpireFacts DEF RowInv
<1>4. row'[k] = [row[k] EXCEPT !.status = d, !.decidedAt = t, !.role = role,
                               !.version = 1]
  BY <1>2, <1>3 DEF Decided
<1>5. /\ row'[k].status = d /\ row'[k].decidedAt = t /\ row'[k].role = role
      /\ row'[k].version = 1 /\ row'[k].action = row[k].action
      /\ row'[k].createdAt = row[k].createdAt /\ row'[k].expiresAt = row[k].expiresAt
      /\ row'[k].startedAt = row[k].startedAt
      /\ row'[k].completedAt = row[k].completedAt
  BY <1>1, <1>4 DEF RowType
<1>6. row'[k] \in RowType
  <2>1. 1 \in 0..3 /\ t \in Int /\ d \in Statuses
    BY DEF Statuses
  <2> QED
    BY <1>1, <1>4, <2>1 DEF RowType
<1>7. d = "approved" => /\ Rank(role) >= Rank(RequiredRole(row[k].action))
                        /\ NeedsAcknowledgement(row[k].action) => ack
  BY <1>2 DEF Decidable
<1>8. row[k].expiresAt \in Int /\ row[k].createdAt \in Int
  BY <1>1 DEF RowType
<1>9. RowInv(k)'
  BY <1>1, <1>2, <1>3, <1>5, <1>7, <1>8 DEF RowInv, Granted, Consumed
<1>10. StepKeeps(k, h)
  BY <1>1, <1>2, <1>5 DEF StepKeeps, RowInv
<1> QED
  BY <1>5, <1>6, <1>9, <1>10

LEMMA DecideInv ==
  ASSUME IInv, NEW h \in Hosts, Decide(h)
  PROVE  IInv'
<1>0. TypeOK /\ ProtocolInv
  BY DEF IInv
<1>4. PICK k \in Keys : /\ k = snap[h].key
                        /\ row[k].createdAt <= since[h] /\ since[h] \in Nat
  BY <1>0 DEF Decide, ProtocolInv, HostInv, TypeOK
<1>1. PICK t \in SampledBy(h), d \in {"approved", "rejected"}, role \in Roles,
           ack \in BOOLEAN :
        \/ /\ Decidable(Expire(row[k], t), snap[h].version, d, role, ack)
           /\ row' = [row EXCEPT ![k] = Decided(Expire(row[k], t), d, role, t)]
           /\ acked' = [acked EXCEPT ![k] = ack]
           /\ IF d = "approved" /\ h \in Executors
              THEN Holding(h, "approved", SnapOf(k, row'[k]))
              ELSE Leave(h)
        \/ Leave(h) /\ UNCHANGED <<row, acked>>
  BY <1>4 DEF Decide
<1>2. t \in Nat /\ since[h] <= t /\ t <= now
  BY <1>0, SampleFacts DEF SampledBy, TypeOK
<1>3. UNCHANGED <<now, effects>> /\ pc[h] # "idle"
  BY DEF Decide
<1>5. CASE Leave(h) /\ UNCHANGED <<row, acked>>
  <2>1. \A j \in Keys : RowInv(j)' /\ StepKeeps(j, h)
    BY <1>0, <1>3, <1>5, SameRow DEF ProtocolInv
  <2>2. HostVarsType' /\ OthersUnmoved(h) /\ HostInv(h)'
    BY <1>0, <1>3, <1>5, LeaveFacts
  <2> QED
    BY <1>0, <1>3, <1>5, <2>1, <2>2, HostStepInv DEF TypeOK
<1>6. CASE /\ Decidable(Expire(row[k], t), snap[h].version, d, role, ack)
           /\ row' = [row EXCEPT ![k] = Decided(Expire(row[k], t), d, role, t)]
           /\ acked' = [acked EXCEPT ![k] = ack]
           /\ IF d = "approved" /\ h \in Executors
              THEN Holding(h, "approved", SnapOf(k, row'[k]))
              ELSE Leave(h)
  <2>1. /\ row'[k] = Decided(Expire(row[k], t), d, role, t)
        /\ acked'[k] = ack /\ effects'[k] = effects[k]
        /\ \A j \in Keys \ {k} : row'[j] = row[j] /\ acked'[j] = acked[j]
    BY <1>0, <1>3, <1>4, <1>6 DEF TypeOK
  <2>2. row[k].createdAt <= t
    BY <1>0, <1>2, <1>4 DEF TypeOK, RowType
  <2>3. /\ RowInv(k)' /\ StepKeeps(k, h) /\ row'[k] \in RowType
        /\ row'[k].status = d /\ row'[k].decidedAt = t
    <3>1. PICK v : Decidable(Expire(row[k], t), v, d, role, ack)
      BY <1>6
    <3>2. t \in Nat /\ t <= now /\ now' = now
      BY <1>2, <1>3
    <3> QED
      BY <2>1, <2>2, <3>1, <3>2, DecidedStep
  <2>4. ASSUME NEW j \in Keys PROVE RowInv(j)' /\ StepKeeps(j, h)
    <3>1. CASE j = k
      BY <2>3, <3>1
    <3>2. CASE j # k
      <4>1. row'[j] = row[j] /\ acked'[j] = acked[j] /\ effects'[j] = effects[j]
        BY <1>3, <2>1, <3>2
      <4> QED
        BY <1>0, <1>3, <4>1, SameRow DEF ProtocolInv
    <3> QED
      BY <3>1, <3>2
  <2>5. row' \in [Keys -> RowType] /\ acked' \in [Keys -> BOOLEAN]
    <3>1. Decided(Expire(row[k], t), d, role, t) \in RowType
      BY <2>1, <2>3
    <3> QED
      BY <1>0, <1>6, <3>1 DEF TypeOK
  <2>6. HostVarsType' /\ OthersUnmoved(h) /\ HostInv(h)'
    <3>1. CASE Leave(h)
      BY <1>0, <1>3, <3>1, LeaveFacts
    <3>2. CASE d = "approved" /\ Holding(h, "approved", SnapOf(k, row'[k]))
      <4>1. SnapOf(k, row'[k]) \in SnapType /\ SnapOf(k, row'[k]).key = k
        BY <1>4, <2>3, SnapOfType
      <4>2. /\ HostVarsType' /\ OthersUnmoved(h)
            /\ pc'[h] = "approved" /\ snap'[h].key = k /\ since'[h] = now
        BY <1>0, <3>2, <4>1, HoldingFacts DEF PCs
      <4>3. row'[k].createdAt <= now /\ row'[k].decidedAt # Never
        BY <1>2, <1>3, <2>3, <3>2 DEF RowInv
      <4>4. row'[k].status # "absent" /\ row'[k].decidedAt <= now /\ now' = now
        BY <1>2, <1>3, <2>3
      <4>5. now \in Nat /\ snap'[h].key = k
        BY <1>0, <4>2 DEF TypeOK
      <4> QED
        BY <1>4, <4>2, <4>3, <4>4, <4>5 DEF HostInv
    <3> QED
      BY <1>6, <3>1, <3>2
  <2> QED
    BY <1>0, <1>3, <2>4, <2>5, <2>6, HostStepInv DEF TypeOK
<1> QED
  BY <1>1, <1>5, <1>6

(* A step of h that only ends its handler.                                   *)
LEMMA LeaveInv ==
  ASSUME IInv, NEW h \in Hosts, Leave(h), UNCHANGED <<row, now, effects, acked>>
  PROVE  IInv'
<1>0. TypeOK /\ ProtocolInv
  BY DEF IInv
<1>1. \A j \in Keys : RowInv(j)' /\ StepKeeps(j, h)
  BY <1>0, SameRow DEF ProtocolInv
<1>2. HostVarsType' /\ OthersUnmoved(h) /\ HostInv(h)'
  BY <1>0, LeaveFacts
<1> QED
  BY <1>0, <1>1, <1>2, HostStepInv DEF TypeOK

(* A handler whose executor, or whose completion, raised: it still owns the  *)
(* executing row, or has already completed it.                               *)
LEMMA RaisedInv ==
  ASSUME IInv, NEW h \in Hosts, GoTo(h, "raised"),
         pc[h] \in {"claimed", "returned", "reporting"},
         UNCHANGED <<row, now, effects, acked>>
  PROVE  IInv'
<1>0. TypeOK /\ ProtocolInv /\ HostInv(h)
  BY DEF IInv, ProtocolInv
<1>1. \A j \in Keys : RowInv(j)' /\ StepKeeps(j, h)
  BY <1>0, SameRow DEF ProtocolInv
<1>2. /\ HostVarsType' /\ OthersUnmoved(h)
      /\ pc'[h] = "raised" /\ snap'[h] = snap[h] /\ since'[h] = now
  BY <1>0, GoToFacts DEF PCs
<1>3. snap[h].key \in Keys /\ since[h] <= now /\ since[h] \in Nat /\ now \in Nat
  BY <1>0 DEF HostInv, TypeOK
<1>4. row[snap[h].key] \in RowType
  BY <1>0, <1>3 DEF TypeOK
<1>5. HostInv(h)'
  BY <1>0, <1>2, <1>3, <1>4 DEF HostInv, Owns, RowType
<1> QED
  BY <1>0, <1>1, <1>2, <1>5, HostStepInv DEF TypeOK

LEMMA ClaimInv ==
  ASSUME IInv, NEW h \in Hosts, Claim(h)
  PROVE  IInv'
<1>0. TypeOK /\ ProtocolInv
  BY DEF IInv
<1>1. PICK k \in Keys :
        /\ k = snap[h].key
        /\ row[k].createdAt <= since[h] /\ since[h] \in Nat
        /\ row[k].decidedAt # Never /\ row[k].decidedAt <= since[h]
  BY <1>0 DEF Claim, ProtocolInv, HostInv, TypeOK
<1>2. PICK t \in SampledBy(h) :
        \/ /\ Claimable(Expire(row[k], t), snap[h])
           /\ row' = [row EXCEPT ![k] = Claimed(Expire(row[k], t), h, t)]
           /\ Holding(h, "claimed", SnapOf(k, row'[k]))
        \/ Leave(h) /\ UNCHANGED row
  BY <1>1 DEF Claim
<1>3. t \in Nat /\ since[h] <= t /\ t <= now /\ now \in Nat
  BY <1>0, SampleFacts DEF SampledBy, TypeOK
<1>4. UNCHANGED <<now, effects, acked>>
  BY DEF Claim
<1>5. CASE Leave(h) /\ UNCHANGED row
  BY <1>4, <1>5, LeaveInv
<1>6. CASE /\ Claimable(Expire(row[k], t), snap[h])
           /\ row' = [row EXCEPT ![k] = Claimed(Expire(row[k], t), h, t)]
           /\ Holding(h, "claimed", SnapOf(k, row'[k]))
  <2>1. row[k] \in RowType /\ RowInv(k)
    BY <1>0 DEF TypeOK, ProtocolInv
  <2>2. /\ Expire(row[k], t) = row[k] /\ row[k].status = "approved"
        /\ ~ (row[k].expiresAt <= t) /\ row[k].version = 1
    BY <1>3, <1>6, <2>1, ExpireFacts DEF Claimable, RowInv
  <2>3. /\ row'[k] = [row[k] EXCEPT !.status = "executing", !.exec = h,
                                    !.startedAt = t, !.version = 2]
        /\ \A j \in Keys \ {k} : row'[j] = row[j]
    BY <1>0, <1>6, <2>2 DEF Claimed, TypeOK
  <2>4. /\ row'[k].status = "executing" /\ row'[k].exec = h
        /\ row'[k].startedAt = t /\ row'[k].version = 2
        /\ row'[k].action = row[k].action /\ row'[k].role = row[k].role
        /\ row'[k].createdAt = row[k].createdAt
        /\ row'[k].expiresAt = row[k].expiresAt
        /\ row'[k].decidedAt = row[k].decidedAt
        /\ row'[k].completedAt = row[k].completedAt
    BY <2>1, <2>3 DEF RowType
  <2>5. row'[k] \in RowType
    <3>1. 2 \in 0..3 /\ t \in Int /\ "executing" \in Statuses /\ h \in Hosts \cup {NoHost}
      BY <1>3 DEF Statuses
    <3> QED
      BY <2>1, <2>3, <3>1 DEF RowType
  <2>6. /\ row[k].decidedAt \in Int /\ row[k].createdAt \in Int
        /\ row[k].expiresAt \in Int
    BY <2>1 DEF RowType
  <2>7. row[k].decidedAt <= t /\ t < row[k].expiresAt
    BY <1>1, <1>3, <2>2, <2>6
  <2>8. RowInv(k)'
    BY <1>3, <1>4, <2>1, <2>2, <2>4, <2>6, <2>7 DEF RowInv, Granted, Consumed
  <2>9. StepKeeps(k, h)
    BY <2>2, <2>4 DEF StepKeeps
  <2>10. ASSUME NEW j \in Keys PROVE RowInv(j)' /\ StepKeeps(j, h)
    <3>1. CASE j = k
      BY <2>8, <2>9, <3>1
    <3>2. CASE j # k
      <4>1. row'[j] = row[j] /\ effects'[j] = effects[j] /\ acked'[j] = acked[j]
        BY <1>4, <2>3, <3>2
      <4> QED
        BY <1>0, <1>4, <4>1, SameRow DEF ProtocolInv
    <3> QED
      BY <3>1, <3>2
  <2>11. row' \in [Keys -> RowType]
    <3>1. Claimed(Expire(row[k], t), h, t) \in RowType
      BY <1>0, <1>6, <2>5 DEF TypeOK
    <3> QED
      BY <1>0, <1>6, <3>1 DEF TypeOK
  <2>12. /\ HostVarsType' /\ OthersUnmoved(h)
         /\ pc'[h] = "claimed" /\ snap'[h].key = k
         /\ snap'[h].version = row'[k].version /\ since'[h] = now
    <3>1. SnapOf(k, row'[k]) \in SnapType
      BY <2>5, SnapOfType
    <3> QED
      BY <1>0, <1>6, <2>5, <3>1, HoldingFacts, SnapOfType DEF PCs
  <2>13. effects'[k] = 0
    BY <1>4, <2>1, <2>2 DEF RowInv, Consumed
  <2>14. row'[k].createdAt <= now
    BY <2>8, <2>4, <1>4 DEF RowInv
  <2>15. HostInv(h)'
    BY <1>3, <1>4, <2>4, <2>12, <2>13, <2>14 DEF HostInv, Owns
  <2> QED
    BY <1>0, <1>4, <2>10, <2>11, <2>12, <2>15, HostStepInv DEF TypeOK
<1> QED
  BY <1>2, <1>5, <1>6

LEMMA ExecuteInv ==
  ASSUME IInv, NEW h \in Hosts, Execute(h)
  PROVE  IInv'
<1>0. TypeOK /\ ProtocolInv /\ HostInv(h)
  BY DEF IInv, ProtocolInv
<1>1. UNCHANGED <<row, now, acked>> /\ pc[h] = "claimed"
  BY DEF Execute
<1>2. CASE GoTo(h, "raised") /\ UNCHANGED effects
  BY <1>1, <1>2, RaisedInv
<1>3. CASE /\ effects' = [effects EXCEPT ![snap[h].key] = @ + 1]
           /\ GoTo(h, "returned") \/ GoTo(h, "raised")
  <2>1. PICK k \in Keys : /\ k = snap[h].key /\ Owns(h) /\ effects[k] = 0
                          /\ row[k].createdAt <= since[h]
    BY <1>0, <1>1 DEF HostInv
  <2>2. effects'[k] = 1 /\ \A j \in Keys \ {k} : effects'[j] = effects[j]
    BY <1>0, <1>3, <2>1 DEF TypeOK
  <2>3. row[k] \in RowType /\ RowInv(k) /\ row[k].status = "executing" /\ row[k].exec = h
    BY <1>0, <2>1 DEF TypeOK, ProtocolInv, Owns
  <2>4. RowInv(k)'
    BY <1>1, <2>2, <2>3 DEF RowInv, Consumed
  <2>5. StepKeeps(k, h)
    BY <1>1, <2>3 DEF StepKeeps
  <2>6. ASSUME NEW j \in Keys PROVE RowInv(j)' /\ StepKeeps(j, h)
    <3>1. CASE j = k
      BY <2>4, <2>5, <3>1
    <3>2. CASE j # k
      BY <1>0, <1>1, <2>2, <3>2, SameRow DEF ProtocolInv
    <3> QED
      BY <3>1, <3>2
  <2>7. effects' \in [Keys -> Nat]
    <3>1. effects' = [effects EXCEPT ![k] = 1]
      BY <1>3, <2>1
    <3> QED
      BY <1>0, <3>1 DEF TypeOK
  <2>8. PICK p \in {"returned", "raised"} : GoTo(h, p)
    BY <1>3
  <2>9. /\ HostVarsType' /\ OthersUnmoved(h)
        /\ pc'[h] = p /\ snap'[h] = snap[h] /\ since'[h] = now
    BY <1>0, <2>8, GoToFacts DEF PCs
  <2>10. since[h] <= now /\ since[h] \in Nat /\ now \in Nat
    BY <1>0 DEF HostInv, TypeOK
  <2>11. /\ Owns(h)' /\ row'[k].createdAt <= now
         /\ k = snap'[h].key /\ row'[k].status # "absent" /\ since'[h] <= now'
    BY <1>1, <2>1, <2>3, <2>9, <2>10 DEF Owns, RowType
  <2>12. HostInv(h)'
    BY <1>1, <2>2, <2>8, <2>9, <2>11 DEF HostInv
  <2> QED
    BY <1>0, <1>1, <2>6, <2>7, <2>9, <2>12, HostStepInv DEF TypeOK
<1> QED
  BY <1>2, <1>3 DEF Execute

LEMMA CompletedFacts ==
  ASSUME NEW r \in RowType, r.version = 2,
         NEW s \in {"completed", "failed"}, NEW t \in Int
  PROVE  /\ Completed(r, s, t).status = s
         /\ Completed(r, s, t).completedAt = t
         /\ Completed(r, s, t).version = 3
         /\ Completed(r, s, t).action = r.action
         /\ Completed(r, s, t).role = r.role
         /\ Completed(r, s, t).createdAt = r.createdAt
         /\ Completed(r, s, t).expiresAt = r.expiresAt
         /\ Completed(r, s, t).decidedAt = r.decidedAt
         /\ Completed(r, s, t).startedAt = r.startedAt
         /\ Completed(r, s, t) \in RowType
<1>1. Completed(r, s, t)
        = [r EXCEPT !.status = s, !.completedAt = t, !.version = 3]
  BY DEF Completed
<1>2. 3 \in 0..3 /\ s \in Statuses
  BY DEF Statuses
<1> QED
  BY <1>1, <1>2 DEF RowType

(* complete_execution by the host that owns the execution.                   *)
LEMMA CompletedStep ==
  ASSUME IInv, NEW k \in Keys, NEW h \in Hosts, NEW t \in Nat, now' = now,
         NEW s \in {"completed", "failed"}, NEW v,
         row[k].exec = h, row[k].status = "executing", row[k].version = v,
         row[k].startedAt <= t, s = "completed" => effects[k] = 1,
         row' = [row EXCEPT ![k] = Completed(Expire(row[k], t), s, t)],
         UNCHANGED <<effects, acked>>
  PROVE  /\ row' \in [Keys -> RowType]
         /\ \A j \in Keys : RowInv(j)' /\ StepKeeps(j, h)
         /\ row'[k].status = s /\ row'[k].createdAt = row[k].createdAt
<1>0. TypeOK /\ ProtocolInv
  BY DEF IInv
<1>1. row[k] \in RowType /\ RowInv(k)
  BY <1>0 DEF TypeOK, ProtocolInv
<1>2. Expire(row[k], t) = row[k] /\ row[k].version = 2
  BY <1>1, ExpireFacts DEF RowInv
<1>3. /\ row'[k] = Completed(row[k], s, t)
      /\ \A j \in Keys \ {k} : row'[j] = row[j]
  <2>1. row' = [row EXCEPT ![k] = Completed(row[k], s, t)] /\ row \in [Keys -> RowType]
    BY <1>0, <1>2 DEF TypeOK
  <2> QED
    BY <2>1
<1>4. /\ row'[k].status = s /\ row'[k].completedAt = t
      /\ row'[k].version = 3 /\ row'[k].action = row[k].action
      /\ row'[k].role = row[k].role
      /\ row'[k].createdAt = row[k].createdAt
      /\ row'[k].expiresAt = row[k].expiresAt
      /\ row'[k].decidedAt = row[k].decidedAt
      /\ row'[k].startedAt = row[k].startedAt
      /\ row'[k] \in RowType
  BY <1>1, <1>2, <1>3, CompletedFacts
<1>6. RowInv(k)'
  BY <1>1, <1>4 DEF RowInv, Granted, Consumed
<1>7. StepKeeps(k, h)
  BY <1>4 DEF StepKeeps
<1>8. ASSUME NEW j \in Keys PROVE RowInv(j)' /\ StepKeeps(j, h)
  <2>1. CASE j = k
    BY <1>6, <1>7, <2>1
  <2>2. CASE j # k
    <3>1. row'[j] = row[j] /\ effects'[j] = effects[j] /\ acked'[j] = acked[j]
      BY <1>3, <2>2
    <3> QED
      BY <1>0, <3>1, SameRow DEF ProtocolInv
  <2> QED
    BY <2>1, <2>2
<1>9. row' \in [Keys -> RowType]
  <2>1. Completed(Expire(row[k], t), s, t) \in RowType
    BY <1>2, <1>3, <1>4
  <2> QED
    BY <1>0, <2>1 DEF TypeOK
<1> QED
  BY <1>4, <1>8, <1>9

LEMMA CompleteSuccessInv ==
  ASSUME IInv, NEW h \in Hosts, CompleteSuccess(h)
  PROVE  IInv'
<1>0. TypeOK /\ ProtocolInv /\ HostInv(h)
  BY DEF IInv, ProtocolInv
<1>1. UNCHANGED <<now, effects, acked>> /\ pc[h] = "returned"
  BY DEF CompleteSuccess
<1>2. PICK k \in Keys : /\ k = snap[h].key /\ Owns(h) /\ effects[k] = 1
                        /\ row[k].createdAt <= since[h]
  BY <1>0, <1>1 DEF HostInv
<1>3. PICK t \in SampledBy(h) :
        \/ /\ row' = [row EXCEPT ![k] = Completed(Expire(row[k], t), "completed", t)]
           /\ IF h \in Windows THEN GoTo(h, "reporting") ELSE Leave(h)
        \/ GoTo(h, "raised") /\ UNCHANGED row
  BY <1>2 DEF CompleteSuccess
<1>4. t \in Nat /\ since[h] <= t /\ t <= now /\ now \in Nat /\ since[h] \in Nat
  BY <1>0, SampleFacts DEF SampledBy, TypeOK
<1>5. CASE GoTo(h, "raised") /\ UNCHANGED row
  BY <1>1, <1>5, RaisedInv
<1>6. CASE /\ row' = [row EXCEPT ![k] = Completed(Expire(row[k], t), "completed", t)]
           /\ IF h \in Windows THEN GoTo(h, "reporting") ELSE Leave(h)
  <2>1. /\ row[k].status = "executing" /\ row[k].exec = h
        /\ row[k].startedAt <= since[h] /\ row[k] \in RowType
    BY <1>0, <1>2 DEF Owns, TypeOK
  <2>2. row[k].startedAt <= t
    BY <1>4, <2>1 DEF RowType
  <2>3. /\ row' \in [Keys -> RowType]
        /\ \A j \in Keys : RowInv(j)' /\ StepKeeps(j, h)
        /\ row'[k].status = "completed" /\ row'[k].createdAt = row[k].createdAt
    BY <1>1, <1>2, <1>4, <1>6, <2>1, <2>2, CompletedStep
  <2>4. HostVarsType' /\ OthersUnmoved(h) /\ HostInv(h)'
    <3>1. CASE Leave(h)
      BY <1>0, <1>1, <3>1, LeaveFacts
    <3>2. CASE GoTo(h, "reporting")
      <4>1. /\ HostVarsType' /\ OthersUnmoved(h)
            /\ pc'[h] = "reporting" /\ snap'[h].key = k /\ since'[h] = now
        BY <1>0, <1>2, <3>2, GoToFacts DEF PCs
      <4>2. row'[k].createdAt <= now
        BY <1>2, <1>4, <2>1, <2>3 DEF RowType
      <4> QED
        BY <1>1, <1>4, <2>3, <4>1, <4>2 DEF HostInv
    <3> QED
      BY <1>6, <3>1, <3>2
  <2> QED
    BY <1>0, <1>1, <2>3, <2>4, HostStepInv DEF TypeOK
<1> QED
  BY <1>3, <1>5, <1>6

LEMMA CompleteFailureInv ==
  ASSUME IInv, NEW h \in Hosts, CompleteFailure(h)
  PROVE  IInv'
<1>0. TypeOK /\ ProtocolInv /\ HostInv(h)
  BY DEF IInv, ProtocolInv
<1>1. UNCHANGED <<now, effects, acked>> /\ pc[h] = "raised" /\ Leave(h)
  BY DEF CompleteFailure
<1>2. PICK k \in Keys : /\ k = snap[h].key
                        /\ Owns(h) \/ row[k].status = "completed"
  BY <1>0, <1>1 DEF HostInv
<1>3. PICK t \in SampledBy(h) :
        \/ /\ Completable(Expire(row[k], t), h)
           /\ row' = [row EXCEPT ![k] = Completed(Expire(row[k], t), "failed", t)]
        \/ UNCHANGED row
  <2>1. \E t \in SampledBy(h) :
          \/ /\ Completable(Expire(row[snap[h].key], t), h)
             /\ row' = [row EXCEPT ![snap[h].key] =
                          Completed(Expire(row[snap[h].key], t), "failed", t)]
          \/ UNCHANGED row
    BY Zenon DEF CompleteFailure
  <2>2. k = snap[h].key
    BY <1>2
  <2> QED
    BY <2>1, <2>2
<1>4. t \in Nat /\ since[h] <= t /\ t <= now /\ since[h] \in Nat
  BY <1>0, SampleFacts DEF SampledBy, TypeOK
<1>5. CASE UNCHANGED row
  BY <1>1, <1>5, LeaveInv
<1>6. CASE /\ Completable(Expire(row[k], t), h)
           /\ row' = [row EXCEPT ![k] = Completed(Expire(row[k], t), "failed", t)]
  <2>1. row[k] \in RowType
    BY <1>0 DEF TypeOK
  <2>2. row[k].status = "executing" /\ row[k].exec = h
    BY <1>4, <1>6, <2>1, ExpireFacts DEF Completable
  <2>3. row[k].startedAt <= t
    BY <1>2, <1>4, <2>1, <2>2 DEF Owns, RowType
  <2>4. /\ row' \in [Keys -> RowType]
        /\ \A j \in Keys : RowInv(j)' /\ StepKeeps(j, h)
    BY <1>1, <1>4, <1>6, <2>2, <2>3, CompletedStep
  <2>5. HostVarsType' /\ OthersUnmoved(h) /\ HostInv(h)'
    BY <1>0, <1>1, LeaveFacts
  <2> QED
    BY <1>0, <1>1, <2>4, <2>5, HostStepInv DEF TypeOK
<1> QED
  BY <1>3, <1>5, <1>6

LEMMA TickInv ==
  ASSUME IInv, Tick
  PROVE  IInv'
<1>0. TypeOK /\ ProtocolInv
  BY DEF IInv
<1>1. /\ UNCHANGED <<row, pc, snap, since, effects, acked>>
      /\ now' \in Nat /\ now \in Nat /\ now <= now'
  BY <1>0 DEF Tick, TypeOK
<1>2. TypeOK'
  BY <1>0, <1>1 DEF TypeOK
<1>3. ASSUME NEW k \in Keys PROVE RowInv(k)'
  <2>1. RowInv(k)
    BY <1>0 DEF ProtocolInv
  <2> QED
    BY <1>1, <2>1 DEF RowInv
<1>4. ASSUME NEW h \in Hosts PROVE HostInv(h)'
  <2>1. HostInv(h) /\ since[h] \in Nat
    BY <1>0 DEF ProtocolInv, TypeOK
  <2> QED
    BY <1>1, <2>1 DEF HostInv, Owns
<1> QED
  BY <1>2, <1>3, <1>4 DEF IInv, ProtocolInv

LEMMA StutterInv ==
  ASSUME IInv, UNCHANGED vars
  PROVE  IInv'
BY DEF IInv, TypeOK, ProtocolInv, RowInv, HostInv, Owns, vars

(* Every step keeps the inductive invariant. *)
LEMMA NextInv ==
  ASSUME IInv, [Next]_vars
  PROVE  IInv'
<1>1. CASE \E k \in Keys, a \in Actions : CreateRequest(k, a)
  BY <1>1, CreateRequestInv
<1>2. ASSUME NEW h \in Hosts, ListPending(h) PROVE IInv'
  BY <1>2, ListPendingInv
<1>3. ASSUME NEW h \in Hosts, HostStep(h) PROVE IInv'
  <2>1. CASE LookUp(h)
    BY <2>1, LookUpInv
  <2>2. CASE Decide(h)
    BY <2>2, DecideInv
  <2>3. CASE Claim(h)
    BY <2>3, ClaimInv
  <2>4. CASE Execute(h)
    BY <2>4, ExecuteInv
  <2>5. CASE CompleteSuccess(h)
    BY <2>5, CompleteSuccessInv
  <2>6. CASE CompleteFailure(h)
    BY <2>6, CompleteFailureInv
  <2>7. CASE Report(h)
    <3>1. pc[h] = "reporting" /\ UNCHANGED <<row, now, effects, acked>>
      BY <2>7 DEF Report
    <3> QED
      BY <2>7, <3>1, LeaveInv, RaisedInv DEF Report
  <2> QED
    BY <1>3, <2>1, <2>2, <2>3, <2>4, <2>5, <2>6, <2>7 DEF HostStep
<1>4. ASSUME NEW h \in Hosts, Dismiss(h) \/ Crash(h) PROVE IInv'
  BY <1>4, LeaveInv DEF Dismiss, Crash
<1>5. ASSUME NEW h \in Hosts, StoreBusy(h) PROVE IInv'
  <2>1. UNCHANGED <<row, now, effects, acked>>
    BY <1>5 DEF StoreBusy
  <2>2. Leave(h) \/ (pc[h] = "returned" /\ GoTo(h, "raised"))
    BY <1>5 DEF StoreBusy
  <2> QED
    BY <2>1, <2>2, LeaveInv, RaisedInv
<1>6. CASE Tick
  BY <1>6, TickInv
<1>7. CASE UNCHANGED vars
  BY <1>7, StutterInv
<1> QED
  BY <1>1, <1>2, <1>3, <1>4, <1>5, <1>6, <1>7 DEF Next

-----------------------------------------------------------------------------
(* The inductive invariant holds in every reachable state. *)
THEOREM InductiveInvariant == Spec => []IInv
<1>1. IInv /\ [Next]_vars => IInv'
  BY NextInv
<1> QED
  BY <1>1, InitInv, PTL DEF Spec

(* Types: in particular the compare-and-swap version of a row never passes 3. *)
THEOREM TypeCorrect == Spec => []TypeOK
BY InductiveInvariant, PTL DEF IInv

(* What the columns of a row say in each status, and what a handler may rely  *)
(* on about the row it read, hold in every reachable state.                  *)
THEOREM ProtocolHolds == Spec => []ProtocolInv
BY InductiveInvariant, PTL DEF IInv

(* One approval pays for at most one execution.                              *)
THEOREM ExecutedAtMostOnce == Spec => []AtMostOnce
<1>1. ASSUME IInv, NEW k \in Keys
      PROVE  effects[k] <= 1 /\ (effects[k] > 0 => row[k].status \in Consumed)
  <2>1. RowInv(k) /\ effects[k] \in Nat
    BY <1>1 DEF IInv, ProtocolInv, TypeOK
  <2> QED
    BY <2>1 DEF RowInv
<1>2. IInv => AtMostOnce
  BY <1>1 DEF AtMostOnce
<1> QED
  BY <1>2, InductiveInvariant, PTL

(* Whatever is approved or run was decided by a sufficient role, with its    *)
(* elevated risk acknowledged, and is not denied by the policy.              *)
THEOREM ConsentSuffices == Spec => []ConsentIsSufficient
<1>1. IInv => ConsentIsSufficient
  BY DEF IInv, ProtocolInv, RowInv, ConsentIsSufficient, Granted, Consumed
<1> QED
  BY <1>1, InductiveInvariant, PTL

(* The audit columns of every row are in order, and within its lifetime.     *)
THEOREM AuditTrail == Spec => []AuditTrailOrdered
<1> DEFINE Ordered(r) ==
      /\ r.decidedAt # Never => r.createdAt <= r.decidedAt /\ r.decidedAt < r.expiresAt
      /\ r.startedAt # Never => /\ r.decidedAt # Never /\ r.decidedAt <= r.startedAt
                                /\ r.startedAt < r.expiresAt
      /\ r.completedAt # Never => r.startedAt # Never /\ r.startedAt <= r.completedAt
<1>1. ASSUME IInv, NEW k \in Keys PROVE Ordered(row[k])
  <2>1. RowInv(k)
    BY <1>1 DEF IInv, ProtocolInv
  <2>2. /\ row[k].startedAt # Never => row[k].status \in Consumed
        /\ row[k].completedAt # Never => row[k].status \in {"completed", "failed"}
    BY <2>1 DEF RowInv
  <2> QED
    BY <2>1, <2>2 DEF RowInv, Granted, Consumed
<1>2. IInv => AuditTrailOrdered
  BY <1>1 DEF AuditTrailOrdered
<1> QED
  BY <1>2, InductiveInvariant, PTL

(* completed means performed.                                                *)
THEOREM CompletedMeansPerformed == Spec => []CompletedWasPerformed
<1>1. IInv => CompletedWasPerformed
  BY DEF IInv, ProtocolInv, RowInv, CompletedWasPerformed
<1> QED
  BY <1>1, InductiveInvariant, PTL

(* No two hosts hold the execution of one row.                               *)
THEOREM ExecutionIsExclusive == Spec => []ExclusiveExecution
<1>1. IInv => ExclusiveExecution
  BY DEF IInv, ProtocolInv, HostInv, Owns, RowInv, ExclusiveExecution, Consumed
<1> QED
  BY <1>1, InductiveInvariant, PTL

-----------------------------------------------------------------------------
(* The moves of one row, and what each of them proves about the step.        *)
RowMove(k) ==
  \/ row'[k] = row[k]
  \/ row[k].status = "absent" /\ row'[k].status = "pending"
  \/ row[k].status \in {"pending", "approved"} /\ row'[k].status = "expired"
  \/ row[k].status = "pending" /\ row'[k].status \in {"approved", "rejected"}
  \/ /\ row[k].status = "approved" /\ row'[k].status = "executing"
     /\ now < row[k].expiresAt + BusyTimeout
  \/ /\ row[k].status = "executing" /\ row'[k].status \in {"completed", "failed"}
     /\ pc[row[k].exec] \in {"returned", "raised"} /\ snap[row[k].exec].key = k

LEMMA ExpireMove ==
  ASSUME TypeOK, NEW k \in Keys, NEW t \in Int, row'[k] = Expire(row[k], t)
  PROVE  RowMove(k)
<1>1. row[k] \in RowType
  BY DEF TypeOK
<1> QED
  BY <1>1, ExpireFacts DEF RowMove

LEMMA MoveLemma ==
  ASSUME IInv, Next, NEW k \in Keys
  PROVE  RowMove(k)
<1>0. TypeOK /\ ProtocolInv /\ row[k] \in RowType /\ RowInv(k)
  BY DEF IInv, TypeOK, ProtocolInv
<1>a. ASSUME NEW s \in Nat, NEW t \in SampledAfter(s)
      PROVE  t \in Nat /\ t <= now /\ now <= t + BusyTimeout /\ now \in Nat
  BY <1>0, <1>a, TimeAssumption DEF SampledAfter, TypeOK
<1>b. ASSUME NEW h \in Hosts PROVE since[h] \in Nat
  BY <1>0 DEF TypeOK
<1>1. ASSUME NEW j \in Keys, NEW a \in Actions, CreateRequest(j, a)
      PROVE  RowMove(k)
  <2>1. PICK t \in SampledAfter(0) :
          \/ /\ row[j].status = "absent"
             /\ row' = [ExpireAll(t) EXCEPT ![j] = NewRow(a, t)]
          \/ row' = ExpireAll(t)
    BY <1>1 DEF CreateRequest
  <2>2. t \in Nat
    BY <1>a
  <2>3. CASE row'[k] = Expire(row[k], t)
    BY <1>0, <2>2, <2>3, ExpireMove
  <2>4. CASE k = j /\ row[k].status = "absent" /\ row'[k] = NewRow(a, t)
    BY <2>4 DEF NewRow, RowMove
  <2> QED
    BY <2>1, <2>3, <2>4 DEF ExpireAll
<1>2. ASSUME NEW h \in Hosts, ListPending(h) PROVE RowMove(k)
  <2>1. PICK t \in SampledBy(h) : row' = ExpireAll(t)
    BY <1>2 DEF ListPending
  <2>2. t \in Nat /\ row'[k] = Expire(row[k], t)
    BY <1>a, <1>b, <2>1 DEF ExpireAll, SampledBy
  <2> QED
    BY <1>0, <2>2, ExpireMove
<1>3. ASSUME NEW h \in Hosts, LookUp(h) PROVE RowMove(k)
  <2>1. PICK t \in SampledBy(h) : row' = ExpireOne(snap[h].key, t)
    BY <1>3 DEF LookUp
  <2>2. t \in Nat /\ (row'[k] = row[k] \/ row'[k] = Expire(row[k], t))
    BY <1>0, <1>a, <1>b, <2>1 DEF ExpireOne, SampledBy, TypeOK
  <2> QED
    BY <1>0, <2>2, ExpireMove DEF RowMove
<1>4. ASSUME NEW h \in Hosts, Decide(h) PROVE RowMove(k)
  <2>1. CASE row'[k] = row[k]
    BY <2>1 DEF RowMove
  <2>2. CASE row'[k] # row[k]
    <3>1. PICK t \in SampledBy(h), d \in {"approved", "rejected"},
               role \in Roles, ack \in BOOLEAN :
             /\ Decidable(Expire(row[k], t), snap[h].version, d, role, ack)
             /\ row'[k] = Decided(Expire(row[k], t), d, role, t)
      BY <1>0, <1>4, <2>2 DEF Decide, TypeOK
    <3>2. t \in Nat
      BY <1>a, <1>b DEF SampledBy
    <3>3. Expire(row[k], t) = row[k] /\ row[k].status = "pending"
      BY <1>0, <3>1, <3>2, ExpireFacts DEF Decidable
    <3>4. row'[k].status = d
      BY <1>0, <3>1, <3>3 DEF Decided, RowType
    <3> QED
      BY <3>3, <3>4 DEF RowMove
  <2> QED
    BY <2>1, <2>2
<1>5. ASSUME NEW h \in Hosts, Claim(h) PROVE RowMove(k)
  <2>1. CASE row'[k] = row[k]
    BY <2>1 DEF RowMove
  <2>2. CASE row'[k] # row[k]
    <3>1. PICK t \in SampledBy(h) :
             /\ Claimable(Expire(row[k], t), snap[h])
             /\ row'[k] = Claimed(Expire(row[k], t), h, t)
      BY <1>0, <1>5, <2>2 DEF Claim, TypeOK
    <3>2. t \in Nat /\ now <= t + BusyTimeout /\ now \in Nat
      BY <1>a, <1>b DEF SampledBy
    <3>3. /\ Expire(row[k], t) = row[k] /\ row[k].status = "approved"
          /\ ~ (row[k].expiresAt <= t)
      BY <1>0, <3>1, <3>2, ExpireFacts DEF Claimable
    <3>4. row'[k].status = "executing"
      BY <1>0, <3>1, <3>3 DEF Claimed, RowType
    <3>5. now < row[k].expiresAt + BusyTimeout
      BY <1>0, <3>2, <3>3, TimeAssumption DEF RowType
    <3> QED
      BY <3>3, <3>4, <3>5 DEF RowMove
  <2> QED
    BY <2>1, <2>2
<1>6. ASSUME NEW h \in Hosts, CompleteSuccess(h) \/ CompleteFailure(h)
      PROVE  RowMove(k)
  <2>1. CASE row'[k] = row[k]
    BY <2>1 DEF RowMove
  <2>2. CASE row'[k] # row[k]
    <3>1. PICK t \in SampledBy(h), s \in {"completed", "failed"} :
             /\ Completable(Expire(row[k], t), h)
             /\ row'[k] = Completed(Expire(row[k], t), s, t)
             /\ snap[h].key = k /\ pc[h] \in {"returned", "raised"}
      BY <1>0, <1>6, <2>2 DEF CompleteSuccess, CompleteFailure, TypeOK
    <3>2. t \in Nat
      BY <1>a, <1>b DEF SampledBy
    <3>3. /\ Expire(row[k], t) = row[k] /\ row[k].status = "executing"
          /\ row[k].exec = h /\ row[k].version = 2
      BY <1>0, <3>1, <3>2, ExpireFacts DEF Completable, RowInv
    <3>4. row'[k].status = s
      BY <1>0, <3>1, <3>2, <3>3, CompletedFacts
    <3> QED
      BY <3>1, <3>3, <3>4 DEF RowMove
  <2> QED
    BY <2>1, <2>2
<1>7. ASSUME NEW h \in Hosts,
             Execute(h) \/ Report(h) \/ Dismiss(h) \/ StoreBusy(h) \/ Crash(h)
      PROVE  RowMove(k)
  BY <1>7 DEF Execute, Report, Dismiss, StoreBusy, Crash, RowMove
<1>8. CASE Tick
  BY <1>8 DEF Tick, RowMove
<1> QED
  BY <1>1, <1>2, <1>3, <1>4, <1>5, <1>6, <1>7, <1>8 DEF Next, HostStep

(* Settled rows are frozen and an executing one belongs to its claimer.      *)
THEOREM RowsSettleTheorem == Spec => RowsSettle
<1>1. ASSUME IInv, Next, NEW k \in Keys
      PROVE  /\ row[k].status \in Final => row'[k] = row[k]
             /\ row[k].status = "executing" /\ row'[k] # row[k] =>
                  /\ pc[row[k].exec] \in {"returned", "raised"}
                  /\ snap[row[k].exec].key = k
  BY <1>1, MoveLemma DEF RowMove, Final
<1>2. IInv /\ [Next]_vars =>
        [\A k \in Keys :
           /\ row[k].status \in Final => row'[k] = row[k]
           /\ row[k].status = "executing" /\ row'[k] # row[k] =>
                LET h == row[k].exec IN
                pc[h] \in {"returned", "raised"} /\ snap[h].key = k]_vars
  BY <1>1
<1> QED
  BY <1>2, InductiveInvariant, PTL DEF Spec, RowsSettle

(* Approvals are spent in time, up to the longest wait for the lock.         *)
THEOREM SpentInTimeTheorem == Spec => SpentInTime
<1>1. ASSUME IInv, Next, NEW k \in Keys,
             row[k].status = "approved", row'[k].status = "executing"
      PROVE  now < row[k].expiresAt + BusyTimeout
  BY <1>1, MoveLemma DEF RowMove
<1>2. IInv /\ [Next]_vars =>
        [\A k \in Keys :
           row[k].status = "approved" /\ row'[k].status = "executing" =>
             now < row[k].expiresAt + BusyTimeout]_vars
  BY <1>1
<1> QED
  BY <1>2, InductiveInvariant, PTL DEF Spec, SpentInTime

-----------------------------------------------------------------------------
(* The part of the liveness properties that an invariant and a step can say. *)

(* The host that claimed row k still runs its action or is about to record   *)
(* what became of it.                                                        *)
Attended(k) == LET h == row[k].exec IN
  /\ h \in Hosts /\ pc[h] \in {"claimed", "returned", "raised"}
  /\ snap[h].key = k /\ snap[h].version = row[k].version

(* While no process dies and the database answers, no row is executing that  *)
(* nobody will conclude: no branch of a handler (api/app.py:1156-1196,       *)
(* ui_helpers.py) drops an execution it claimed.                             *)
ExecutionsAreAttended ==
  ~ Faults => \A k \in Keys : row[k].status = "executing" => Attended(k)

(* The steps that are left to a handler: it never goes back to an earlier    *)
(* one, so a conflict or an error while it records cannot keep it going.     *)
StepsLeft(p) ==
  CASE p = "looked"    -> 6
    [] p = "approved"  -> 5
    [] p = "claimed"   -> 4
    [] p = "returned"  -> 3
    [] p = "reporting" -> 2
    [] p = "raised"    -> 1
    [] OTHER           -> 0

HandlersAdvance ==
  [][\A h \in Hosts : Handling(h) =>
       \/ pc'[h] = pc[h] /\ snap'[h] = snap[h]
       \/ StepsLeft(pc'[h]) < StepsLeft(pc[h])]_vars

(* What a step of host h leaves to the executions of the others.             *)
LEMMA OthersAttend ==
  ASSUME TypeOK, NEW h \in Hosts, OthersUnmoved(h), NEW k \in Keys,
         row'[k] = row[k], Attended(k), row[k].exec # h
  PROVE  Attended(k)'
BY DEF Attended, OthersUnmoved

(* The holder of an execution goes on to its next step and keeps the row it  *)
(* knows, or concludes the execution.                                        *)
LEMMA HolderStays ==
  ASSUME IInv, ~ Faults, NEW h \in Hosts, NEW k \in Keys,
         row[k].status = "executing", row[k].exec = h, Attended(k),
         \/ ListPending(h) \/ HostStep(h) \/ Dismiss(h)
         \/ StoreBusy(h) \/ Crash(h),
         row'[k] = row[k]
  PROVE  Attended(k)'
<1>0. /\ TypeOK /\ HostInv(h) /\ row[k] \in RowType
      /\ pc[h] \in {"claimed", "returned", "raised"}
      /\ snap[h].key = k /\ snap[h].version = row[k].version
  BY DEF IInv, ProtocolInv, TypeOK, Attended
<1>1. CASE Execute(h)
  <2>1. PICK p \in {"returned", "raised"} : GoTo(h, p)
    BY <1>1 DEF Execute
  <2>2. pc'[h] = p /\ snap'[h] = snap[h]
    BY <1>0, <2>1, GoToFacts DEF PCs
  <2> QED
    BY <1>0, <2>2 DEF Attended
<1>2. CASE CompleteSuccess(h)
  <2>1. PICK t \in SampledBy(h) :
          \/ row' = [row EXCEPT ![k] = Completed(Expire(row[k], t), "completed", t)]
          \/ GoTo(h, "raised")
    BY <1>0, <1>2 DEF CompleteSuccess
  <2>2. CASE row' = [row EXCEPT ![k] = Completed(Expire(row[k], t), "completed", t)]
    <3>1. t \in Int
      BY <1>0, SampleFacts DEF SampledBy, TypeOK
    <3>2. Expire(row[k], t) = row[k]
      BY <1>0, <3>1, ExpireFacts
    <3>3. row'[k].status = "completed"
      BY <1>0, <2>2, <3>2 DEF TypeOK, Completed, RowType
    <3> QED
      BY <3>3
  <2>3. CASE GoTo(h, "raised")
    <3>1. pc'[h] = "raised" /\ snap'[h] = snap[h]
      BY <1>0, <2>3, GoToFacts DEF PCs
    <3> QED
      BY <1>0, <3>1 DEF Attended
  <2> QED
    BY <2>1, <2>2, <2>3
<1>3. CASE CompleteFailure(h)
  <2>1. PICK t \in SampledBy(h) :
          \/ row' = [row EXCEPT ![k] = Completed(Expire(row[k], t), "failed", t)]
          \/ ~ Completable(Expire(row[k], t), h)
    BY <1>0, <1>3 DEF CompleteFailure
  <2>2. t \in Int
    BY <1>0, SampleFacts DEF SampledBy, TypeOK
  <2>3. Expire(row[k], t) = row[k]
    BY <1>0, <2>2, ExpireFacts
  <2>4. Completable(Expire(row[k], t), h)
    BY <1>0, <2>3 DEF Completable
  <2>5. row'[k].status = "failed"
    BY <1>0, <2>1, <2>3, <2>4 DEF TypeOK, Completed, RowType
  <2> QED
    BY <2>5
<1> QED
  BY <1>0, <1>1, <1>2, <1>3 DEF ListPending, HostStep, LookUp, Decide, Claim, Report,
     Dismiss, StoreBusy, Crash

(* Only a claim makes a row executing, and its host holds it then.           *)
LEMMA ClaimerAttends ==
  ASSUME IInv, NEW h \in Hosts, Claim(h), NEW k \in Keys, row'[k] # row[k]
  PROVE  Attended(k)'
<1>0. TypeOK /\ ProtocolInv /\ row[k] \in RowType /\ RowInv(k)
  BY DEF IInv, TypeOK, ProtocolInv
<1>1. PICK t \in SampledBy(h) :
         /\ Claimable(Expire(row[k], t), snap[h])
         /\ row'[k] = Claimed(Expire(row[k], t), h, t)
         /\ Holding(h, "claimed", SnapOf(k, row'[k]))
  BY <1>0 DEF Claim, TypeOK
<1>2. t \in Int
  BY <1>0, SampleFacts DEF SampledBy, TypeOK
<1>3. Expire(row[k], t) = row[k] /\ row[k].status = "approved" /\ row[k].version = 1
  BY <1>0, <1>1, <1>2, ExpireFacts DEF Claimable, RowInv
<1>4. row'[k].exec = h /\ row'[k].version = 2
  BY <1>0, <1>1, <1>3 DEF Claimed, RowType
<1>5. /\ SnapOf(k, row'[k]) \in SnapType
      /\ SnapOf(k, row'[k]).key = k /\ SnapOf(k, row'[k]).version = 2
  BY <1>0, <1>1, <1>3, <1>4 DEF SnapOf, SnapType, Claimed, RowType
<1>6. pc'[h] = "claimed" /\ snap'[h].key = k /\ snap'[h].version = 2
  BY <1>0, <1>1, <1>5, HoldingFacts DEF PCs
<1> QED
  BY <1>4, <1>6 DEF Attended

(* Every step of a host moves that host only.                                *)
LEMMA OneHostMoves ==
  ASSUME TypeOK, NEW h \in Hosts,
         \/ ListPending(h) \/ HostStep(h) \/ Dismiss(h)
         \/ StoreBusy(h) \/ Crash(h)
  PROVE  OthersUnmoved(h)
BY DEF TypeOK, OthersUnmoved, ListPending, HostStep, LookUp, Decide, Claim, Execute,
       CompleteSuccess, CompleteFailure, Report, Dismiss, StoreBusy, Crash,
       GoTo, Holding, Leave

LEMMA AttendedStep ==
  ASSUME IInv, ~ Faults, [Next]_vars, ExecutionsAreAttended,
         NEW k \in Keys, row'[k].status = "executing"
  PROVE  Attended(k)'
<1>0. TypeOK /\ row[k] \in RowType
  BY DEF IInv, TypeOK
<1>1. CASE UNCHANGED <<row, pc, snap>>
  BY <1>1 DEF ExecutionsAreAttended, Attended
<1>2. ASSUME NEW j \in Keys, NEW a \in Actions, CreateRequest(j, a)
      PROVE  Attended(k)'
  <2>1. row'[k] = row[k] \/ row'[k].status \in {"pending", "expired"}
    <3>1. PICK t \in SampledAfter(0) :
            \/ row' = [ExpireAll(t) EXCEPT ![j] = NewRow(a, t)]
            \/ row' = ExpireAll(t)
      BY <1>2 DEF CreateRequest
    <3>2. row'[k] = Expire(row[k], t) \/ row'[k] = NewRow(a, t)
      BY <3>1 DEF ExpireAll
    <3>3. t \in Int
      BY <1>0, SampleFacts
    <3> QED
      BY <1>0, <3>2, <3>3, ExpireFacts DEF NewRow
  <2> QED
    BY <1>2, <2>1 DEF ExecutionsAreAttended, Attended, CreateRequest
<1>3. ASSUME NEW h \in Hosts,
             \/ ListPending(h) \/ HostStep(h) \/ Dismiss(h)
             \/ StoreBusy(h) \/ Crash(h)
      PROVE  Attended(k)'
  <2>1. OthersUnmoved(h) /\ Next
    BY <1>0, <1>3, OneHostMoves DEF Next
  <2>2. CASE row'[k] = row[k]
    <3>1. Attended(k)
      BY <2>2 DEF ExecutionsAreAttended
    <3> QED
      BY <1>0, <1>3, <2>1, <2>2, <3>1, OthersAttend, HolderStays
  <2>3. CASE row'[k] # row[k]
    <3>1. row[k].status = "approved"
      BY <2>1, <2>3, MoveLemma DEF RowMove
    <3>2. Claim(h)
      <4>1. ASSUME NEW t \in SampledBy(h)
            PROVE  /\ t \in Int
                   /\ Expire(row[k], t).status \in {"approved", "expired"}
        BY <1>0, <3>1, <4>1, SampleFacts, ExpireFacts DEF SampledBy, TypeOK
      <4>2. ~ ListPending(h) /\ ~ LookUp(h)
        BY <1>0, <4>1, <2>3 DEF ListPending, LookUp, ExpireAll, ExpireOne, TypeOK
      <4>3. ~ Decide(h)
        BY <1>0, <4>1, <2>3, <3>1 DEF Decide, Decidable, TypeOK
      <4>4. ~ CompleteSuccess(h) /\ ~ CompleteFailure(h)
        BY <1>0, <4>1, <2>3, <3>1 DEF CompleteSuccess, CompleteFailure, Completable, TypeOK
      <4>5. ~ (Execute(h) \/ Report(h) \/ Dismiss(h) \/ StoreBusy(h) \/ Crash(h))
        BY <2>3 DEF Execute, Report, Dismiss, StoreBusy, Crash
      <4> QED
        BY <1>3, <4>2, <4>3, <4>4, <4>5 DEF HostStep
    <3> QED
      BY <2>3, <3>2, ClaimerAttends
  <2> QED
    BY <2>2, <2>3
<1> QED
  BY <1>1, <1>2, <1>3 DEF Next, Tick, vars

(* Without faults every execution under way has a host that will conclude it. *)
THEOREM ExecutionsAreAttendedTheorem == Spec => []ExecutionsAreAttended
<1>1. Init => ExecutionsAreAttended
  BY DEF Init, NoRow, ExecutionsAreAttended
<1>2. IInv /\ ExecutionsAreAttended /\ [Next]_vars => ExecutionsAreAttended'
  BY AttendedStep DEF ExecutionsAreAttended
<1> QED
  BY <1>1, <1>2, InductiveInvariant, PTL DEF Spec

(* A handler never goes back: each of its steps leaves it fewer.             *)
THEOREM HandlersAdvanceTheorem == Spec => HandlersAdvance
<1> DEFINE Ahead(h) == \/ pc'[h] = pc[h] /\ snap'[h] = snap[h]
                       \/ StepsLeft(pc'[h]) < StepsLeft(pc[h])
<1>1. ASSUME TypeOK, NEW h \in Hosts, Leave(h), Handling(h) PROVE Ahead(h)
  <2>1. pc'[h] = "idle" /\ pc[h] \in PCs \ {"idle", "viewed"}
    BY <1>1 DEF Leave, Handling, TypeOK
  <2> QED
    BY <2>1 DEF StepsLeft, PCs
<1>2. ASSUME TypeOK, NEW h \in Hosts, NEW p \in PCs, pc'[h] = p,
             StepsLeft(p) < StepsLeft(pc[h])
      PROVE  Ahead(h)
  BY <1>2
<1>3. ASSUME TypeOK, NEW h \in Hosts, Handling(h),
             \/ ListPending(h) \/ HostStep(h) \/ Dismiss(h)
             \/ StoreBusy(h) \/ Crash(h)
      PROVE  Ahead(h)
  <2>1. CASE Leave(h)
    BY <1>1, <1>3, <2>1
  <2>2. CASE \E p \in PCs : pc' = [pc EXCEPT ![h] = p]
    <3>1. PICK p \in PCs : pc'[h] = p
      BY <1>3, <2>2 DEF TypeOK
    <3>2. \/ pc[h] = "approved" /\ p = "claimed"
          \/ pc[h] = "claimed" /\ p \in {"returned", "raised"}
          \/ pc[h] = "returned" /\ p \in {"reporting", "raised"}
          \/ pc[h] = "reporting" /\ p = "raised"
          \/ pc[h] = "looked" /\ p = "approved"
          \/ p = "idle"
      BY <1>3, <3>1 DEF TypeOK, Handling, ListPending, HostStep, LookUp, Decide, Claim,
         Execute, CompleteSuccess, CompleteFailure, Report, Dismiss, StoreBusy,
         Crash, GoTo, Holding, Leave
    <3>3. pc[h] \in PCs \ {"idle", "viewed"}
      BY <1>3 DEF TypeOK, Handling
    <3>4. StepsLeft(p) < StepsLeft(pc[h])
      BY <3>2, <3>3 DEF StepsLeft, PCs
    <3> QED
      BY <1>3, <3>1, <3>4
  <2> QED
    BY <1>3, <2>1, <2>2 DEF Handling, ListPending, HostStep, LookUp, Decide, Claim,
       Execute, CompleteSuccess, CompleteFailure, Report, Dismiss, StoreBusy,
       Crash, GoTo, Holding, PCs
<1>4. ASSUME IInv, Next, NEW h \in Hosts, Handling(h) PROVE Ahead(h)
  <2>1. TypeOK
    BY <1>4 DEF IInv
  <2>2. CASE UNCHANGED <<pc, snap>>
    BY <2>2
  <2>3. ASSUME NEW g \in Hosts,
               \/ ListPending(g) \/ HostStep(g) \/ Dismiss(g)
               \/ StoreBusy(g) \/ Crash(g)
        PROVE  Ahead(h)
    <3>1. CASE g = h
      BY <1>3, <1>4, <2>1, <2>3, <3>1
    <3>2. CASE g # h
      BY <2>1, <2>3, <3>2, OneHostMoves DEF OthersUnmoved
    <3> QED
      BY <3>1, <3>2
  <2> QED
    BY <1>4, <2>2, <2>3 DEF Next, CreateRequest, Tick
<1>5. IInv /\ [Next]_vars =>
        [\A h \in Hosts : Handling(h) =>
           \/ pc'[h] = pc[h] /\ snap'[h] = snap[h]
           \/ StepsLeft(pc'[h]) < StepsLeft(pc[h])]_vars
  BY <1>4
<1> QED
  BY <1>5, InductiveInvariant, PTL DEF Spec, HandlersAdvance

-----------------------------------------------------------------------------
(* PermissionStore implements OneShotConsent: initial states map to initial  *)
(* states and every step maps to an abstract step.  The row moves proved     *)
(* above give the abstract step of each action.                              *)

Bar == [k \in Keys |-> Abstract(row[k].status)]

LEMMA AbstractFacts ==
  /\ Abstract("absent") = "unasked"
  /\ Abstract("pending") = "asked"
  /\ Abstract("approved") = "granted"
  /\ Abstract("rejected") = "withdrawn"
  /\ Abstract("expired") = "withdrawn"
  /\ Abstract("executing") = "spent"
  /\ Abstract("completed") = "settled"
  /\ Abstract("failed") = "settled"
BY DEF Abstract

(* An expiry pass, that may also insert the row of one new request.          *)
LEMMA LapseStep ==
  ASSUME IInv, UNCHANGED effects, NEW N \in SUBSET Keys,
         \A j, k \in N : j = k,
         \A k \in N : row[k].status = "absent" /\ row'[k].status = "pending",
         \A k \in Keys \ N : \/ row'[k] = row[k]
                             \/ /\ row[k].status \in {"pending", "approved"}
                                /\ row'[k].status = "expired"
  PROVE  Consent!Lapse
<1> DEFINE R == {k \in Keys \ N : row'[k] # row[k]}
<1>1. R \in SUBSET {k \in Keys : Consent!Open(k)}
  BY AbstractFacts DEF Consent!Open
<1>2. CASE N = {}
  <2>1. Bar' = Consent!Withdraw(R)
    BY <1>2, AbstractFacts DEF Bar, Consent!Withdraw
  <2> QED
    BY <1>1, <2>1 DEF Bar, Consent!Lapse
<1>3. CASE N # {}
  <2>1. PICK q \in N : N = {q}
    BY <1>3
  <2>2. Bar' = [Consent!Withdraw(R) EXCEPT ![q] = "asked"]
    <3>1. ASSUME NEW k \in Keys
          PROVE  Bar'[k] = [Consent!Withdraw(R) EXCEPT ![q] = "asked"][k]
      BY <2>1, AbstractFacts DEF Bar, Consent!Withdraw
    <3> QED
      BY <3>1 DEF Bar, Consent!Withdraw
  <2>3. Bar[q] = "unasked"
    BY <2>1, AbstractFacts DEF Bar
  <2> QED
    BY <1>1, <2>1, <2>2, <2>3 DEF Bar, Consent!Lapse
<1> QED
  BY <1>2, <1>3

(* A step that moves one row from a status to another.                       *)
LEMMA MoveStep ==
  ASSUME NEW k \in Keys, UNCHANGED effects,
         \A j \in Keys \ {k} : row'[j] = row[j],
         NEW from \in {"unasked", "asked", "granted", "spent"},
         NEW to \in {"granted", "spent", "settled"},
         Abstract(row[k].status) = from, Abstract(row'[k].status) = to
  PROVE  Consent!Move(k, {from}, to)
<1>1. Bar' = [Bar EXCEPT ![k] = to]
  <2>1. ASSUME NEW j \in Keys PROVE Bar'[j] = [Bar EXCEPT ![k] = to][j]
    BY DEF Bar
  <2> QED
    BY <2>1 DEF Bar
<1>2. Bar[k] \in {from}
  BY DEF Bar
<1> QED
  BY <1>1, <1>2 DEF Bar, Consent!Move

LEMMA InitRefines == Init => Consent!Init
BY AbstractFacts DEF Init, NoRow, Consent!Init

(* Which rows an action may move, beside the kinds of moves RowMove allows.  *)
LEMMA StepRefines ==
  ASSUME IInv, Next
  PROVE  Consent!Next \/ UNCHANGED <<Bar, effects>>
<1>0. TypeOK /\ ProtocolInv
  BY DEF IInv
<1>m. \A k \in Keys : RowMove(k)
  BY MoveLemma
<1>l. ASSUME UNCHANGED effects,
             \A k \in Keys : \/ row'[k] = row[k]
                             \/ /\ row[k].status \in {"pending", "approved"}
                                /\ row'[k].status = "expired"
      PROVE  Consent!Next
  BY <1>l, LapseStep, {} \in SUBSET Keys DEF Consent!Next
<1>t. ASSUME NEW t \in Int, NEW k \in Keys, row'[k] = Expire(row[k], t)
      PROVE  \/ row'[k] = row[k]
             \/ /\ row[k].status \in {"pending", "approved"}
                /\ row'[k].status = "expired"
  BY <1>0, <1>t, ExpireFacts DEF TypeOK
<1>s. ASSUME NEW s \in Nat, NEW t \in SampledAfter(s) PROVE t \in Int
  BY <1>0, <1>s, SampleFacts
<1>h. ASSUME NEW h \in Hosts, NEW t \in SampledBy(h) PROVE t \in Int
  BY <1>0, <1>h, <1>s DEF SampledBy, TypeOK
<1>o. ASSUME NEW k \in Keys, UNCHANGED effects,
             \A j \in Keys \ {k} : row'[j] = row[j]
      PROVE  Consent!Next \/ UNCHANGED <<Bar, effects>>
  <2>1. CASE row'[k] = row[k]
    BY <1>o, <2>1 DEF Bar
  <2>2. CASE row[k].status \in {"pending", "approved"} /\ row'[k].status = "expired"
    BY <1>o, <1>l, <2>2
  <2>3. CASE row[k].status = "pending" /\ row'[k].status = "rejected"
    <3>1. Bar' = Consent!Withdraw({k})
      BY <1>o, <2>3, AbstractFacts DEF Bar, Consent!Withdraw
    <3>2. {k} \in SUBSET {j \in Keys : Consent!Open(j)}
      BY <2>3, AbstractFacts DEF Consent!Open
    <3> QED
      BY <1>o, <3>1, <3>2 DEF Bar, Consent!Lapse, Consent!Next
  <2>4. CASE row[k].status = "pending" /\ row'[k].status = "approved"
    <3>1. Consent!Grant(k)
      BY <1>o, <2>4, MoveStep, AbstractFacts DEF Consent!Grant
    <3> QED
      BY <3>1 DEF Consent!Next
  <2>5. CASE row[k].status = "approved" /\ row'[k].status = "executing"
    <3>1. Consent!Spend(k)
      BY <1>o, <2>5, MoveStep, AbstractFacts DEF Consent!Spend
    <3> QED
      BY <3>1 DEF Consent!Next
  <2>6. CASE row[k].status = "executing" /\ row'[k].status \in {"completed", "failed"}
    <3>1. Consent!Settle(k)
      BY <1>o, <2>6, MoveStep, AbstractFacts DEF Consent!Settle
    <3> QED
      BY <3>1 DEF Consent!Next
  <2>7. CASE row[k].status = "absent" /\ row'[k].status = "pending"
    <3>1. PICK N \in SUBSET Keys : N = {k}
      OBVIOUS
    <3>2. /\ \A i, j \in N : i = j
          /\ \A j \in N : row[j].status = "absent" /\ row'[j].status = "pending"
          /\ \A j \in Keys \ N : row'[j] = row[j]
      BY <1>o, <2>7, <3>1
    <3>3. Consent!Lapse
      BY <1>o, <3>2, LapseStep
    <3> QED
      BY <3>3 DEF Consent!Next
  <2> QED
    BY <1>m, <2>1, <2>2, <2>3, <2>4, <2>5, <2>6, <2>7 DEF RowMove
<1>1. ASSUME NEW k \in Keys, NEW a \in Actions, CreateRequest(k, a)
      PROVE  Consent!Next
  <2>0. UNCHANGED effects
    BY <1>1 DEF CreateRequest
  <2>1. PICK t \in SampledAfter(0) :
          \/ /\ row[k].status = "absent"
             /\ row' = [ExpireAll(t) EXCEPT ![k] = NewRow(a, t)]
          \/ row' = ExpireAll(t)
    BY <1>1 DEF CreateRequest
  <2>2. t \in Int
    BY <1>s
  <2>3. CASE row' = ExpireAll(t)
    BY <1>l, <1>t, <2>0, <2>2, <2>3 DEF ExpireAll
  <2>4. CASE /\ row[k].status = "absent"
             /\ row' = [ExpireAll(t) EXCEPT ![k] = NewRow(a, t)]
    <3>1. row'[k].status = "pending"
      BY <2>4 DEF ExpireAll, NewRow
    <3>2. \A j \in Keys \ {k} : row'[j] = Expire(row[j], t)
      BY <2>4 DEF ExpireAll
    <3>3. PICK N \in SUBSET Keys : N = {k}
      OBVIOUS
    <3>4. Consent!Lapse
      <4>1. /\ \A i, j \in N : i = j
            /\ \A j \in N : row[j].status = "absent" /\ row'[j].status = "pending"
        BY <2>4, <3>1, <3>3
      <4>2. \A j \in Keys \ N : \/ row'[j] = row[j]
                              \/ /\ row[j].status \in {"pending", "approved"}
                                 /\ row'[j].status = "expired"
        BY <1>t, <2>2, <3>2, <3>3
      <4> QED
        BY <2>0, <4>1, <4>2, LapseStep
    <3> QED
      BY <3>4 DEF Consent!Next
  <2> QED
    BY <2>1, <2>3, <2>4
<1>2. ASSUME NEW h \in Hosts, ListPending(h) PROVE Consent!Next
  <2>1. PICK t \in SampledBy(h) : row' = ExpireAll(t)
    BY <1>2 DEF ListPending
  <2>2. t \in Int /\ UNCHANGED effects
    BY <1>2, <1>h DEF ListPending
  <2> QED
    BY <1>l, <1>t, <2>1, <2>2 DEF ExpireAll
<1>3. ASSUME NEW h \in Hosts, LookUp(h) PROVE Consent!Next
  <2>1. PICK t \in SampledBy(h) : row' = ExpireOne(snap[h].key, t)
    BY <1>3 DEF LookUp
  <2>2. t \in Int /\ UNCHANGED effects
    BY <1>3, <1>h DEF LookUp
  <2>3. \A k \in Keys : row'[k] = row[k] \/ row'[k] = Expire(row[k], t)
    BY <1>0, <2>1 DEF ExpireOne, TypeOK
  <2> QED
    BY <1>l, <1>t, <2>2, <2>3
<1>4. ASSUME NEW h \in Hosts,
             Decide(h) \/ Claim(h) \/ CompleteSuccess(h) \/ CompleteFailure(h)
      PROVE  Consent!Next \/ UNCHANGED <<Bar, effects>>
  <2>1. PICK k \in Keys : k = snap[h].key
    BY <1>0, <1>4 DEF Decide, Claim, CompleteSuccess, CompleteFailure,
                     ProtocolInv, HostInv
  <2>2. UNCHANGED effects
    BY <1>4 DEF Decide, Claim, CompleteSuccess, CompleteFailure
  <2>3. \A j \in Keys \ {k} : row'[j] = row[j]
    BY <1>0, <1>4, <2>1 DEF Decide, Claim, CompleteSuccess, CompleteFailure, TypeOK
  <2> QED
    BY <1>o, <2>2, <2>3
<1>5. ASSUME NEW h \in Hosts, Execute(h)
      PROVE  Consent!Next \/ UNCHANGED <<Bar, effects>>
  <2>1. PICK k \in Keys : k = snap[h].key /\ Owns(h) /\ effects[k] = 0
    BY <1>0, <1>5 DEF Execute, ProtocolInv, HostInv
  <2>2. CASE UNCHANGED effects
    BY <1>5, <2>2 DEF Execute, Bar
  <2>3. CASE effects' = [effects EXCEPT ![snap[h].key] = @ + 1]
    <3>1. effects' = [effects EXCEPT ![k] = 1]
      <4>1. effects' = [effects EXCEPT ![k] = effects[k] + 1]
        BY <2>1, <2>3
      <4> QED
        BY <2>1, <4>1
    <3>2. row' = row /\ Abstract(row[k].status) = "spent"
      BY <1>5, <2>1, AbstractFacts DEF Execute, Owns
    <3>3. Consent!Perform(k)
      BY <2>1, <3>1, <3>2 DEF Consent!Perform
    <3> QED
      BY <3>3 DEF Consent!Next
  <2> QED
    BY <1>5, <2>2, <2>3 DEF Execute
<1>6. ASSUME NEW h \in Hosts, Report(h) \/ Dismiss(h) \/ StoreBusy(h) \/ Crash(h)
      PROVE  UNCHANGED <<Bar, effects>>
  BY <1>6 DEF Report, Dismiss, StoreBusy, Crash, Bar
<1>7. CASE Tick
  BY <1>7 DEF Tick, Bar
<1> QED
  BY <1>1, <1>2, <1>3, <1>4, <1>5, <1>6, <1>7 DEF Next, HostStep

(* The permission protocol implements one-shot consent.                      *)
THEOREM RefinesOneShotConsent == Spec => ImplementsOneShotConsent
<1>1. Init => Consent!Init
  BY InitRefines
<1>2. IInv /\ [Next]_vars => [Consent!Next]_<<Bar, effects>>
  <2>1. ASSUME IInv, Next PROVE [Consent!Next]_<<Bar, effects>>
    BY <2>1, StepRefines
  <2>2. ASSUME UNCHANGED vars PROVE [Consent!Next]_<<Bar, effects>>
    BY <2>2 DEF vars, Bar
  <2> QED
    BY <2>1, <2>2
<1> QED
  BY <1>1, <1>2, InductiveInvariant, PTL
     DEF Spec, ImplementsOneShotConsent, Consent!Spec, Bar
=============================================================================
