------------------------ MODULE KnowledgeIndexProofs ------------------------
(***************************************************************************)
(* Proofs about KnowledgeIndex for every set of resources, texts and       *)
(* threads.  Every step of it is a step of the store or leaves the store   *)
(* alone, so the store's invariant holds; IndexShapes adds the shapes of   *)
(* the index.  For one process, Debts says where the work is that an       *)
(* inexact resource waits for, and Locked that one thread at a time has    *)
(* read the index it is about to write.  Debts also says who owes the      *)
(* work EventuallyIndexed promises; for any number of processes,           *)
(* LocksAreHeld says that no lock is left behind, and SyncsAdvance that a  *)
(* synchronisation is never sent back.                                     *)
(***************************************************************************)
EXTENDS KnowledgeIndex, KnowledgeStoreProofs

Entry == [r : Resources, v : Nat]
Work == [pc : {"idle", "queued", "listed", "read", "search"},
         rs : SUBSET Resources, cur : SUBSET Entry, rows : SUBSET Entry]

IndexShapes ==
  /\ IInv
  /\ thr \in [Threads -> Work]
  /\ entries \in SUBSET Entry
  /\ needs \in [Hosts -> BOOLEAN]
  /\ hurt \in BOOLEAN

-----------------------------------------------------------------------------
(* The store under the index. *)

LEMMA StoreSteps == ASSUME IndexNext PROVE [Next]_storeVars
<1>1. ASSUME NEW t \in Threads, Ingest(t) \/ Archive(t) \/ Confirm(t) PROVE Next
  BY <1>1 DEF Ingest, Archive, Confirm, Next
<1>2. ASSUME NEW t \in Threads, Sync(t) \/ SyncFails(t) \/ CrashSaving(t) \/ SearchRows(t) \/ SearchHits(t)
      PROVE  UNCHANGED storeVars
  BY <1>2 DEF Sync, SyncStart, SyncRefused, SyncFails, Failed, SyncRead, SyncApply, CrashSaving,
              SearchRows, SearchHits
<1>3. ASSUME NEW h \in Hosts, Crash(h) PROVE UNCHANGED storeVars BY <1>3 DEF Crash
<1>4. CASE StoreOnly BY <1>4 DEF StoreOnly, Next
<1> QED BY <1>1, <1>2, <1>3, <1>4 DEF IndexNext

(* The handlers do to the tables what the store alone does, wherever their   *)
(* synchronisations, failures and crashes fall in between.                   *)
THEOREM StoreUnderIndex == IndexSpec => Spec
<1>1. IndexInit => StoreInit BY DEF IndexInit
<1>2. [IndexNext]_vars => [Next]_storeVars
  <2>1. IndexNext => [Next]_storeVars BY StoreSteps
  <2>2. UNCHANGED vars => UNCHANGED storeVars BY DEF vars
  <2> QED BY <2>1, <2>2
<1> QED BY <1>1, <1>2, PTL DEF IndexSpec, Spec

(* So what is proved of the store alone holds of the store with its index.   *)
THEOREM StoreKept ==
  IndexSpec => [](InertUntilConfirmed /\ NothingBuriedUnseen /\ MarksHaveCause) /\ DecisionsStand
BY StoreUnderIndex, InertTheorem, NothingBuriedTheorem, MarksTheorem, DecisionsTheorem, PTL

LEMMA EntriesShape == ASSUME IInv, NEW S \in SUBSET Resources PROVE EntriesOf(S) \in SUBSET Entry
<1>1. ASSUME NEW r \in Resources PROVE Current(res[r]) \in Nat
  <2>1. res[r].versions \in Seq(AnyVersion) BY DEF IInv, Shapes, Row
  <2> QED BY <2>1 DEF Current
<1> QED BY <1>1 DEF EntriesOf, Entry

LEMMA QuietShape == Quiet \in Work
BY DEF Quiet, Work

LEMMA ConfirmedShape ==
  ASSUME IInv, NEW p \in Proposals PROVE {i.r : i \in Range(prop[p].items)} \in SUBSET Resources
<1>1. prop[p].items \in Seq(AnyItem) BY DEF IInv, Shapes, PropRow
<1>2. \A n \in DOMAIN prop[p].items : prop[p].items[n] \in AnyItem BY <1>1
<1> QED BY <1>2 DEF Range, AnyItem

LEMMA QueuedShape ==
  ASSUME IndexShapes, NEW t \in Threads, NEW rs \in SUBSET Resources, CommitThen(t, rs)
  PROVE  thr' \in [Threads -> Work] /\ UNCHANGED <<entries, needs, hurt>>
<1>1. [Quiet EXCEPT !.pc = "queued", !.rs = rs] \in Work BY DEF Quiet, Work
<1> QED BY <1>1 DEF CommitThen, IndexShapes

LEMMA ShapesKept == ASSUME IndexShapes, [IndexNext]_vars PROVE IndexShapes'
<1>0. IInv' /\ HostOf \in [Threads -> Hosts]
  <2>1. [Next]_storeVars BY StoreSteps DEF vars
  <2> QED BY <2>1, NextInv, IndexAssumption DEF IndexShapes
<1> SUFFICES thr' \in [Threads -> Work] /\ entries' \in SUBSET Entry /\ needs' \in [Hosts -> BOOLEAN]
             /\ hurt' \in BOOLEAN
  BY <1>0 DEF IndexShapes
<1>1. ASSUME NEW t \in Threads, Ingest(t) \/ Archive(t) \/ Confirm(t)
      PROVE  thr' \in [Threads -> Work] /\ UNCHANGED <<entries, needs, hurt>>
  <2>1. CASE Ingest(t)
    <3>1. \E rs \in SUBSET Resources : CommitThen(t, rs) BY <2>1 DEF Ingest
    <3> QED BY <3>1, QueuedShape
  <2>2. CASE Archive(t)
    <3>1. \E rs \in SUBSET Resources : CommitThen(t, rs) BY <2>2 DEF Archive
    <3> QED BY <3>1, QueuedShape
  <2>3. CASE Confirm(t)
    <3>1. \E rs \in SUBSET Resources : CommitThen(t, rs)
      BY <2>3, ConfirmedShape DEF Confirm, IndexShapes
    <3> QED BY <3>1, QueuedShape
  <2> QED BY <1>1, <2>1, <2>2, <2>3
<1>2. ASSUME NEW t \in Threads, SyncStart(t)
      PROVE  /\ thr' \in [Threads -> Work] /\ entries' \in SUBSET Entry /\ needs' \in [Hosts -> BOOLEAN]
             /\ hurt' \in BOOLEAN
  <2>1. entries' \in SUBSET Entry /\ needs' \in [Hosts -> BOOLEAN]
    BY <1>0, <1>2 DEF SyncStart, Reload, IndexShapes
  <2>2. PICK w : w = [thr[t] EXCEPT !.pc = "listed", !.cur = {e \in entries' : e.r \in thr[t].rs}] OBVIOUS
  <2>3. w \in Work BY <2>1, <2>2 DEF IndexShapes, Work
  <2>4. thr' = [thr EXCEPT ![t] = w] BY <1>2, <2>2 DEF SyncStart
  <2> QED BY <1>2, <2>1, <2>3, <2>4 DEF IndexShapes, SyncStart
<1>3. ASSUME NEW t \in Threads, SyncRefused(t) \/ SyncFails(t)
      PROVE  /\ thr' \in [Threads -> Work] /\ entries' \in SUBSET Entry /\ needs' \in [Hosts -> BOOLEAN]
             /\ hurt' \in BOOLEAN
  BY <1>0, <1>3, QuietShape DEF SyncRefused, SyncFails, Failed, IndexShapes
<1>4. ASSUME NEW t \in Threads, SyncRead(t)
      PROVE  /\ thr' \in [Threads -> Work] /\ entries' \in SUBSET Entry /\ needs' \in [Hosts -> BOOLEAN]
             /\ hurt' \in BOOLEAN
  <2>1. PICK want : want = EntriesOf(thr[t].rs) OBVIOUS
  <2>2. thr[t] \in Work /\ want \in SUBSET Entry BY <2>1, EntriesShape DEF IndexShapes, Work
  <2>3. PICK w : w = [thr[t] EXCEPT !.pc = "read", !.rows = want] OBVIOUS
  <2>4. w \in Work BY <2>2, <2>3 DEF Work
  <2>5. thr' = [thr EXCEPT ![t] = w] \/ thr' = [thr EXCEPT ![t] = Quiet]
    BY <1>4, <2>1, <2>3 DEF SyncRead, Settled
  <2> QED BY <1>4, <2>4, <2>5, QuietShape DEF SyncRead, IndexShapes
<1>5. ASSUME NEW t \in Threads, SyncApply(t)
      PROVE  /\ thr' \in [Threads -> Work] /\ entries' \in SUBSET Entry /\ needs' \in [Hosts -> BOOLEAN]
             /\ hurt' \in BOOLEAN
  <2>1. thr[t] \in Work BY DEF IndexShapes
  <2>2. thr[t].cur \in SUBSET Entry /\ thr[t].rows \in SUBSET Entry BY <2>1 DEF Work
  <2>3. entries' \in SUBSET Entry BY <1>5, <2>2 DEF SyncApply, Updated, Added, Kept, Reload, IndexShapes
  <2>4. thr' = [thr EXCEPT ![t] = Quiet] /\ UNCHANGED hurt
    BY <1>5 DEF SyncApply, Settled
  <2>5. needs' \in [Hosts -> BOOLEAN] BY <1>0, <1>5 DEF SyncApply, Reload, IndexShapes
  <2> QED BY <1>0, <2>3, <2>4, <2>5, QuietShape DEF IndexShapes
<1>6. ASSUME NEW t \in Threads, SearchRows(t)
      PROVE  /\ thr' \in [Threads -> Work] /\ entries' \in SUBSET Entry /\ needs' \in [Hosts -> BOOLEAN]
             /\ hurt' \in BOOLEAN
  <2>1. PICK rows : rows = EntriesOf(Resources) OBVIOUS
  <2>2. rows \in SUBSET Entry BY <2>1, EntriesShape DEF IndexShapes
  <2>3. [Quiet EXCEPT !.pc = "search", !.rows = rows] \in Work BY <2>2 DEF Quiet, Work
  <2> QED BY <1>6, <2>1, <2>3 DEF SearchRows, IndexShapes
<1>7. ASSUME NEW t \in Threads, SearchHits(t)
      PROVE  /\ thr' \in [Threads -> Work] /\ entries' \in SUBSET Entry /\ needs' \in [Hosts -> BOOLEAN]
             /\ hurt' \in BOOLEAN
  <2>1. entries' \in SUBSET Entry /\ needs' \in [Hosts -> BOOLEAN]
    BY <1>0, <1>7 DEF SearchHits, Reload, IndexShapes
  <2>2. PICK w : w = [thr[t] EXCEPT !.pc = "idle"] OBVIOUS
  <2>3. w \in Work BY <2>2 DEF IndexShapes, Work
  <2>4. thr' = [thr EXCEPT ![t] = w] BY <1>7, <2>2 DEF SearchHits
  <2> QED BY <1>7, <2>1, <2>3, <2>4 DEF SearchHits, IndexShapes
<1>8. ASSUME NEW h \in Hosts, Restart(h), entries' \in SUBSET Entry
      PROVE  /\ thr' \in [Threads -> Work] /\ entries' \in SUBSET Entry /\ needs' \in [Hosts -> BOOLEAN]
             /\ hurt' \in BOOLEAN
  BY <1>8, QuietShape DEF Restart, IndexShapes
<1>9. ASSUME NEW t \in Threads, CrashSaving(t)
      PROVE  HostOf[t] \in Hosts /\ Restart(HostOf[t]) /\ entries' \in SUBSET Entry
  <2>1. thr[t] \in Work BY DEF IndexShapes
  <2>2. thr[t].rows \in SUBSET Entry BY <2>1 DEF Work
  <2>3. Kept \in SUBSET Entry /\ Updated(t) \in SUBSET Entry BY <2>2 DEF Kept, Updated, Added, IndexShapes
  <2> QED BY <1>0, <1>9, <2>3 DEF CrashSaving
<1>10. ASSUME NEW h \in Hosts, Crash(h) PROVE Restart(h) /\ entries' \in SUBSET Entry
  BY <1>10 DEF Crash, IndexShapes
<1>11. CASE StoreOnly \/ UNCHANGED vars
  BY <1>11 DEF StoreOnly, vars, indexVars, IndexShapes
<1>12. CASE \E t \in Threads : Ingest(t) \/ Archive(t) \/ Confirm(t) BY <1>1, <1>12 DEF IndexShapes
<1>13. CASE \E t \in Threads : Sync(t) BY <1>2, <1>3, <1>4, <1>5, <1>13 DEF Sync
<1>14. CASE \E t \in Threads : SyncFails(t) \/ CrashSaving(t) BY <1>3, <1>8, <1>9, <1>14
<1>15. CASE \E t \in Threads : SearchRows(t) \/ SearchHits(t) BY <1>6, <1>7, <1>15
<1>16. CASE \E h \in Hosts : Crash(h) BY <1>8, <1>10, <1>16
<1> QED BY <1>11, <1>12, <1>13, <1>14, <1>15, <1>16 DEF IndexNext

LEMMA IndexInitShapes == IndexInit => IndexShapes
<1> SUFFICES ASSUME IndexInit PROVE IndexShapes OBVIOUS
<1>1. IInv BY InitInv DEF IndexInit
<1> QED BY <1>1, QuietShape DEF IndexInit, IndexShapes

THEOREM IndexInvariant == IndexSpec => []IndexShapes
<1>1. IndexShapes /\ [IndexNext]_vars => IndexShapes' BY ShapesKept
<1> QED BY <1>1, IndexInitShapes, PTL DEF IndexSpec

-----------------------------------------------------------------------------
(* Searches. *)

LEMMA HitsAreEntries ==
  ASSUME NEW rows, NEW hits \in SUBSET Entry, NEW f \in Hits(rows, hits)
  PROVE  [r |-> f.r, v |-> f.shown] \in hits /\ f.r \in Resources
<1>1. PICK p \in hits \X rows : p[1].r = p[2].r /\ f = [r |-> p[1].r, row |-> p[2].v, shown |-> p[1].v]
  BY DEF Hits
<1>2. PICK x \in hits : x = p[1] OBVIOUS
<1>3. x = [r |-> x.r, v |-> x.v] /\ x.r \in Resources BY <1>2 DEF Entry
<1>4. f.r = x.r /\ f.shown = x.v BY <1>1, <1>2
<1> QED BY <1>2, <1>3, <1>4

(* the only steps that take a thread out of its search are the one that      *)
(* answers and the death of its process, which answers nothing               *)
LEMMA SearchEnds ==
  ASSUME IndexShapes, [IndexNext]_vars, NEW t \in Threads, thr[t].pc = "search", thr'[t].pc = "idle"
  PROVE  found' = {} \/ SearchHits(t)
<1>0. thr \in [Threads -> Work] BY DEF IndexShapes
<1>1. ASSUME NEW u \in Threads, Ingest(u) \/ Archive(u) \/ Confirm(u) PROVE found' = {}
  BY <1>1 DEF Ingest, Archive, Confirm, CommitThen
<1>2. ASSUME NEW u \in Threads, Sync(u) \/ SyncFails(u) \/ SearchRows(u) PROVE found' = {}
  BY <1>2 DEF Sync, SyncStart, SyncRefused, SyncFails, Failed, SyncRead, SyncApply, SearchRows
<1>3. ASSUME NEW u \in Threads, CrashSaving(u) PROVE found' = {} BY <1>3 DEF CrashSaving, Restart
<1>4. ASSUME NEW h \in Hosts, Crash(h) PROVE found' = {} BY <1>4 DEF Crash, Restart
<1>5. ASSUME NEW u \in Threads, SearchHits(u) PROVE u = t BY <1>0, <1>5 DEF SearchHits
<1>6. CASE StoreOnly BY <1>6 DEF StoreOnly
<1>7. CASE UNCHANGED vars BY <1>7 DEF vars, indexVars
<1> QED BY <1>1, <1>2, <1>3, <1>4, <1>5, <1>6, <1>7 DEF IndexNext

-----------------------------------------------------------------------------
(* One process: the index follows the tables. *)

OfResource(S, r) == {e \in S : e.r = r}
Now(r) == {[r |-> r, v |-> Current(res[r])]}

Syncing(t) == thr[t].pc \in {"listed", "read"}
Locked ==
  /\ lock = {t \in Threads : Syncing(t)}
  /\ \A t, u \in Threads : Syncing(t) /\ Syncing(u) => t = u
  /\ \A t \in Threads : Syncing(t) => thr[t].cur = {e \in entries : e.r \in thr[t].rs}
  /\ \A t \in Threads : thr[t].pc = "read" => \A e \in thr[t].rows : e.r \in thr[t].rs

(* what S holds of r is what its row calls for; of a hidden resource it may  *)
(* still be the last version                                                 *)
Fit(S, r) ==
  /\ OfResource(S, r) \subseteq Now(r)
  /\ Eligible(res[r]) => OfResource(S, r) = Now(r)

(* t will bring r up to date; t has read r and may be late *)
WillIndex(t, r) ==
  /\ r \in thr[t].rs
  /\ \/ thr[t].pc \in {"queued", "listed"}
     \/ thr[t].pc = "read" /\ Fit(thr[t].rows, r)
MayWrite(t, r) == thr[t].pc = "read" /\ r \in thr[t].rs
Debts ==
  \A r \in Resources :
    \/ \E t \in Threads : WillIndex(t, r)
    \/ Fit(entries, r) /\ \A t \in Threads : ~MayWrite(t, r)

Healthy == (\A h \in Hosts : ~needs[h]) /\ disk # "torn"
Follows == hurt \/ (Healthy /\ Locked /\ Debts)

(* a step that touches only the resources rs keeps what the others owe *)
LEMMA RowsMove ==
  ASSUME Debts, NEW rs \in SUBSET Resources,
         \A r \in Resources \ rs : /\ Eligible(res'[r]) => Eligible(res[r])
                                 /\ Current(res'[r]) = Current(res[r]),
         \A r \in rs : \E t \in Threads : thr'[t].pc = "queued" /\ r \in thr'[t].rs,
         \A t \in Threads : thr[t].pc \in {"queued", "listed", "read"} => thr'[t] = thr[t],
         \A t \in Threads : thr'[t].pc = "read" => thr'[t] = thr[t],
         UNCHANGED entries
  PROVE  Debts'
<1> SUFFICES ASSUME NEW r \in Resources
             PROVE  \/ \E t \in Threads : WillIndex(t, r)'
                    \/ Fit(entries, r)' /\ \A t \in Threads : ~MayWrite(t, r)'
  BY DEF Debts
<1>1. CASE r \in rs BY <1>1 DEF WillIndex
<1>2. CASE r \notin rs
  <2>1. (Eligible(res'[r]) => Eligible(res[r])) /\ Current(res'[r]) = Current(res[r]) BY <1>2
  <2>2. Now(r)' = Now(r) BY <2>1 DEF Now
  <2>3. CASE Fit(entries, r) /\ \A t \in Threads : ~MayWrite(t, r)
    <3>1. Fit(entries, r)' BY <2>1, <2>2, <2>3 DEF Fit
    <3> QED BY <2>3, <3>1 DEF MayWrite
  <2>4. CASE \E t \in Threads : WillIndex(t, r)
    <3>1. PICK t \in Threads : WillIndex(t, r) BY <2>4
    <3>2. thr'[t] = thr[t] BY <3>1 DEF WillIndex
    <3>3. Fit(thr[t].rows, r) => Fit(thr[t].rows, r)' BY <2>1, <2>2, <3>2 DEF Fit
    <3> QED BY <3>1, <3>2, <3>3 DEF WillIndex
  <2> QED BY <2>3, <2>4 DEF Debts
<1> QED BY <1>1, <1>2

(* one that changes neither what is visible nor what is under way *)
LEMMA NothingMoves ==
  ASSUME Debts, UNCHANGED entries,
         \A r \in Resources : /\ Eligible(res'[r]) => Eligible(res[r])
                           /\ Current(res'[r]) = Current(res[r]),
         \A t \in Threads : thr[t].pc \in {"queued", "listed", "read"} => thr'[t] = thr[t],
         \A t \in Threads : thr'[t].pc = "read" => thr'[t] = thr[t]
  PROVE  Debts'
<1>1. PICK none : none = {} OBVIOUS
<1>2. none \in SUBSET Resources BY <1>1
<1>3. \A r \in none : \E t \in Threads : thr'[t].pc = "queued" /\ r \in thr'[t].rs BY <1>1
<1> QED BY <1>2, <1>3, RowsMove

(* a step that leaves the threads that synchronise, the index and the lock *)
LEMMA LockedKept ==
  ASSUME Locked, UNCHANGED <<entries, lock>>, \A t \in Threads : Syncing(t) => thr'[t] = thr[t],
         \A t \in Threads : ~Syncing(t) => ~Syncing(t)'
  PROVE  Locked'
BY DEF Locked, Syncing

LEMMA CommitFollows ==
  ASSUME IndexShapes, Healthy, Locked, Debts, NEW t \in Threads, NEW rs \in SUBSET Resources,
         CommitThen(t, rs), \A r \in Resources \ rs : res'[r] = res[r]
  PROVE  Healthy' /\ Locked' /\ Debts'
<1>1. PICK w : w = [Quiet EXCEPT !.pc = "queued", !.rs = rs] OBVIOUS
<1>2. w.pc = "queued" /\ w.rs = rs BY <1>1 DEF Quiet
<1>3. thr' = [thr EXCEPT ![t] = w] /\ thr[t].pc = "idle" /\ UNCHANGED <<disk, entries, needs, lock>>
  BY <1>1 DEF CommitThen
<1>4. thr'[t] = w /\ \A u \in Threads : u # t => thr'[u] = thr[u]
  BY <1>3 DEF IndexShapes
<1>5. Healthy' BY <1>3 DEF Healthy
<1>6. Locked' BY <1>2, <1>3, <1>4, LockedKept DEF Syncing
<1>7. Debts' BY <1>2, <1>3, <1>4, RowsMove
<1> QED BY <1>5, <1>6, <1>7

LEMMA HandlersFollow ==
  ASSUME IndexShapes, Healthy, Locked, Debts, NEW t \in Threads, Ingest(t) \/ Archive(t) \/ Confirm(t)
  PROVE  Healthy' /\ Locked' /\ Debts'
<1>0. res \in [Resources -> Row] BY DEF IndexShapes, IInv, Shapes
<1>1. CASE Ingest(t)
  <2>1. PICK r \in Resources, c \in Contents : IngestResource(r, c) /\ CommitThen(t, {r})
    BY <1>1 DEF Ingest
  <2>2. \A x \in Resources \ {r} : res'[x] = res[x] BY <1>0, <2>1 DEF IngestResource
  <2> QED BY <2>1, <2>2, CommitFollows
<1>2. CASE Archive(t)
  <2>1. PICK r \in Resources : ArchiveResource(r) /\ CommitThen(t, {r}) BY <1>2 DEF Archive
  <2>2. \A x \in Resources \ {r} : res'[x] = res[x] BY <1>0, <2>1 DEF ArchiveResource
  <2> QED BY <2>1, <2>2, CommitFollows
<1>3. CASE Confirm(t)
  <2>1. PICK p \in Proposals : ConfirmIngestion(p) /\ CommitThen(t, {i.r : i \in Range(prop[p].items)})
    BY <1>3 DEF Confirm
  <2>2. PICK items : items = prop[p].items OBVIOUS
  <2>3. items \in Seq(AnyItem) /\ Len(items) \in {1, 2}
    BY <2>1, <2>2 DEF IndexShapes, IInv, Shapes, PropRow, ConfirmIngestion
  <2>4. res' = WithItems(res, items, p) BY <2>1, <2>2 DEF ConfirmIngestion
  <2>5. \A x \in Resources : (\A n \in 1..Len(items) : items[n].r # x) => res'[x] = res[x]
    BY <1>0, <2>3, <2>4, WithItemsGrow DEF Authors
  <2>6. PICK rs : rs = {i.r : i \in Range(items)} OBVIOUS
  <2>7. DOMAIN items = 1..Len(items) BY <2>3
  <2>8. \A n \in 1..Len(items) : items[n].r \in rs BY <2>6, <2>7 DEF Range
  <2>9. \A x \in Resources \ rs : res'[x] = res[x] BY <2>5, <2>8
  <2>10. rs \in SUBSET Resources BY <2>2, <2>6, ConfirmedShape DEF IndexShapes
  <2> QED BY <2>1, <2>2, <2>6, <2>9, <2>10, CommitFollows
<1> QED BY <1>1, <1>2, <1>3

(* a consolidation hides resources and shows none *)
LEMMA StoreOnlyFollows ==
  ASSUME IndexShapes, Healthy, Locked, Debts, StoreOnly
  PROVE  Healthy' /\ Locked' /\ Debts'
<1>0. res \in [Resources -> Row] /\ \A d \in con.dups \cup con.link : d[1] \in Resources
  BY DEF IndexShapes, IInv, Shapes
<1>1. UNCHANGED <<disk, entries, needs, lock, thr>> BY DEF StoreOnly
<1>2. \A r \in Resources : (Eligible(res'[r]) => Eligible(res[r])) /\ Current(res'[r]) = Current(res[r])
  <2>1. CASE UNCHANGED res BY <2>1
  <2>2. CASE MarkDuplicate \/ MarkConflict
    <3>1. \E x : \E m \in {"superseded", "conflict"} : res' = [res EXCEPT ![x].mark = m]
      <4>1. CASE MarkDuplicate
        <5>1. \E x : res' = [res EXCEPT ![x].mark = "superseded"] BY <4>1 DEF MarkDuplicate
        <5> QED BY <5>1
      <4>2. CASE MarkConflict
        <5>1. \E x : res' = [res EXCEPT ![x].mark = "conflict"] BY <4>2 DEF MarkConflict
        <5> QED BY <5>1
      <4> QED BY <2>2, <4>1, <4>2
    <3>x. PICK x : \E m \in {"superseded", "conflict"} : res' = [res EXCEPT ![x].mark = m] BY <3>1
    <3>m. PICK m \in {"superseded", "conflict"} : res' = [res EXCEPT ![x].mark = m] BY <3>x
    <3>2. PICK row : row = [res[x] EXCEPT !.mark = m] OBVIOUS
    <3>3. res' = [res EXCEPT ![x] = row] BY <3>m, <3>2
    <3>4. x \in Resources => ~Eligible(row) /\ row.versions = res[x].versions BY <1>0, <3>2 DEF Eligible, Row
    <3> QED BY <1>0, <3>3, <3>4 DEF Current
  <2>3. CASE SetSupersedes
    <3>1. PICK x, S : res' = [res EXCEPT ![x].supersedes = S] BY <2>3 DEF SetSupersedes
    <3>2. PICK row : row = [res[x] EXCEPT !.supersedes = S] OBVIOUS
    <3>3. res' = [res EXCEPT ![x] = row] BY <3>1, <3>2
    <3>4. x \in Resources => /\ row.status = res[x].status /\ row.mark = res[x].mark
                             /\ row.versions = res[x].versions
      BY <1>0, <3>2 DEF Row
    <3> QED BY <1>0, <3>3, <3>4 DEF Eligible, Current
  <2> QED BY <2>1, <2>2, <2>3 DEF StoreOnly, ProposeIngestion, ConfirmConflicts, RejectIngestion,
                               Consolidate, ScanResources, EndConsolidation
<1>3. Healthy' BY <1>1 DEF Healthy
<1>4. Locked' BY <1>1, LockedKept DEF Syncing
<1>5. Debts' BY <1>1, <1>2, NothingMoves
<1> QED BY <1>3, <1>4, <1>5

LEMMA SearchFollows ==
  ASSUME IndexShapes, Healthy, Locked, Debts, NEW t \in Threads, SearchRows(t) \/ SearchHits(t)
  PROVE  Healthy' /\ Locked' /\ Debts'
<1>0. thr \in [Threads -> Work] /\ needs \in [Hosts -> BOOLEAN] BY DEF IndexShapes
<1>1. UNCHANGED <<res, entries, lock>> /\ disk' = disk
  BY DEF SearchRows, SearchHits, Reload, Healthy, storeVars
<1>2. \A h \in Hosts : ~needs'[h]
  <2>1. \/ needs' = needs
        \/ \E b \in {FALSE} : needs' = [needs EXCEPT ![HostOf[t]] = b]
        \/ needs' = [needs EXCEPT ![HostOf[t]] = needs[HostOf[t]]]
    BY DEF SearchRows, SearchHits, Reload, Healthy
  <2> QED BY <1>0, <2>1 DEF Healthy
<1>3. thr[t].pc \in {"idle", "search"} /\ thr'[t].pc \in {"idle", "search"}
  <2>1. [Quiet EXCEPT !.pc = "search", !.rows = EntriesOf(Resources)].pc = "search" BY DEF Quiet
  <2>2. [thr[t] EXCEPT !.pc = "idle"].pc = "idle" BY <1>0 DEF Work
  <2> QED BY <1>0, <2>1, <2>2 DEF SearchRows, SearchHits
<1>4. \A u \in Threads : u # t => thr'[u] = thr[u] BY <1>0 DEF SearchRows, SearchHits
<1>5. Locked' BY <1>1, <1>3, <1>4, LockedKept DEF Syncing
<1>6. Debts' BY <1>1, <1>3, <1>4, NothingMoves
<1> QED BY <1>1, <1>2, <1>5, <1>6 DEF Healthy

LEMMA SyncStartFollows ==
  ASSUME IndexShapes, Healthy, Locked, Debts, NEW h, Hosts = {h}, NEW t \in Threads, SyncStart(t)
  PROVE  Healthy' /\ Locked' /\ Debts'
<1>0. thr \in [Threads -> Work] /\ needs \in [Hosts -> BOOLEAN] BY DEF IndexShapes
<1>1. UNCHANGED <<res, entries>> /\ disk' = disk BY DEF SyncStart, Reload, Healthy, storeVars
<1>2. \A g \in Hosts : ~needs'[g] BY <1>0 DEF SyncStart, Reload, Healthy
<1>3. lock = {}
  <2>1. \A u \in Threads : HostOf[u] = HostOf[t] BY IndexAssumption
  <2> QED BY <2>1 DEF SyncStart, LockFree, Locked
<1>4. PICK cur : cur = {e \in entries : e.r \in thr[t].rs} OBVIOUS
<1>5. PICK w : w = [thr[t] EXCEPT !.pc = "listed", !.cur = cur] OBVIOUS
<1>6. w.pc = "listed" /\ w.cur = cur /\ w.rs = thr[t].rs BY <1>0, <1>5 DEF Work
<1>7. thr' = [thr EXCEPT ![t] = w] BY <1>1, <1>4, <1>5 DEF SyncStart
<1>8. thr'[t] = w /\ \A u \in Threads : u # t => thr'[u] = thr[u] BY <1>0, <1>7
<1>9. \A u \in Threads : ~Syncing(u) BY <1>3 DEF Locked
<1>10. lock' = {t} BY <1>3 DEF SyncStart
<1>11. \A u \in Threads : Syncing(u)' <=> u = t BY <1>6, <1>8, <1>9 DEF Syncing
<1>12. Locked' BY <1>1, <1>4, <1>6, <1>8, <1>10, <1>11 DEF Locked, Syncing
<1>13. \A u \in Threads, r \in Resources : (WillIndex(u, r) => WillIndex(u, r)') /\ ~MayWrite(u, r)'
  <2>1. thr[t].pc = "queued" BY DEF SyncStart
  <2> QED BY <1>1, <1>6, <1>8, <1>11, <2>1 DEF WillIndex, MayWrite, Fit, Now, Syncing
<1>14. \A r \in Resources : Fit(entries, r)' <=> Fit(entries, r)
  BY <1>1 DEF Now, Fit
<1>15. Debts' BY <1>13, <1>14 DEF Debts
<1> QED BY <1>1, <1>2, <1>12, <1>15 DEF Healthy

(* a thread that is done: what it was to index is exact now *)
LEMMA SettledFollows ==
  ASSUME IndexShapes, Locked, Debts, NEW t \in Threads, Syncing(t), Settled(t), UNCHANGED res,
         \A r \in Resources : r \notin thr[t].rs => OfResource(entries', r) = OfResource(entries, r),
         \A r \in Resources : WillIndex(t, r) => Fit(entries, r)'
  PROVE  Locked' /\ Debts'
<1>1. /\ thr \in [Threads -> Work] /\ thr' = [thr EXCEPT ![t] = Quiet] /\ lock' = lock \ {t}
  BY DEF IndexShapes, Settled
<1>2. thr'[t].pc = "idle" /\ \A u \in Threads : u # t => thr'[u] = thr[u] BY <1>1 DEF Quiet
<1>3. \A u \in Threads : ~Syncing(u)' BY <1>2 DEF Locked, Syncing
<1>4. lock' = {} BY <1>1 DEF Locked
<1>5. Locked' BY <1>3, <1>4 DEF Locked, Syncing
<1>6. \A u \in Threads \ {t}, r \in Resources : WillIndex(u, r) => WillIndex(u, r)'
  BY <1>2 DEF WillIndex, Fit, Now
<1>7. ASSUME NEW r \in Resources
      PROVE  \/ \E u \in Threads : WillIndex(u, r)'
             \/ Fit(entries, r)' /\ \A u \in Threads : ~MayWrite(u, r)'
  <2>0. \A u \in Threads : ~MayWrite(u, r)' BY <1>3 DEF MayWrite, Syncing
  <2>2. \/ \E u \in Threads : WillIndex(u, r)
        \/ Fit(entries, r) /\ ~MayWrite(t, r)
    BY DEF Debts
  <2>3. CASE WillIndex(t, r) BY <2>0, <2>3
  <2>4. CASE \E u \in Threads \ {t} : WillIndex(u, r) BY <1>6, <2>4
  <2>5. CASE Fit(entries, r) /\ ~MayWrite(t, r) /\ r \in thr[t].rs
    <3>1. WillIndex(t, r) BY <2>5 DEF MayWrite, WillIndex, Syncing
    <3> QED BY <2>0, <3>1
  <2>6. CASE Fit(entries, r) /\ r \notin thr[t].rs
    <3>1. OfResource(entries', r) = OfResource(entries, r) /\ Now(r)' = Now(r) BY <2>6 DEF Now
    <3>2. Fit(entries, r)' BY <2>6, <3>1 DEF Fit, OfResource
    <3> QED BY <2>0, <3>2
  <2> QED BY <2>2, <2>3, <2>4, <2>5, <2>6
<1>8. Debts' BY <1>7 DEF Debts
<1> QED BY <1>5, <1>8

LEMMA SyncReadFollows ==
  ASSUME IndexShapes, Healthy, Locked, Debts, NEW t \in Threads, SyncRead(t)
  PROVE  Healthy' /\ Locked' /\ Debts'
<1>0. /\ thr \in [Threads -> Work] /\ Syncing(t) /\ thr[t].pc = "listed"
      /\ UNCHANGED <<res, disk, entries, needs>>
  BY DEF IndexShapes, SyncRead, Syncing, storeVars
<1>1. PICK cur : cur = thr[t].cur OBVIOUS
<1>2. cur = {e \in entries : e.r \in thr[t].rs} BY <1>0, <1>1 DEF Locked
<1>3. PICK want : want = EntriesOf(thr[t].rs) OBVIOUS
<1>4. \A e \in want : e.r \in thr[t].rs BY <1>3 DEF EntriesOf
<1>5. \A r \in thr[t].rs : Fit(want, r)
  BY <1>3 DEF EntriesOf, Fit, OfResource, Now
<1>6. CASE want = cur
  <2>1. Settled(t) BY <1>1, <1>3, <1>6 DEF SyncRead
  <2>2. ASSUME NEW r \in Resources, WillIndex(t, r) PROVE Fit(entries, r)'
    <3>1. r \in thr[t].rs BY <2>2 DEF WillIndex
    <3>2. OfResource(entries', r) = OfResource(cur, r) BY <1>0, <1>2, <3>1 DEF OfResource
    <3>3. Now(r)' = Now(r) /\ Fit(cur, r) BY <1>0, <1>5, <1>6, <3>1 DEF Now
    <3>4. OfResource(entries, r)' = OfResource(cur, r) BY <3>2 DEF OfResource
    <3> QED BY <1>0, <3>3, <3>4 DEF Fit
  <2> QED BY <1>0, <2>1, <2>2, SettledFollows DEF Healthy
<1>7. CASE want # cur
  <2>1. PICK w : w = [thr[t] EXCEPT !.pc = "read", !.rows = want] OBVIOUS
  <2>2. w.pc = "read" /\ w.rows = want /\ w.cur = cur /\ w.rs = thr[t].rs BY <1>0, <1>1, <2>1 DEF Work
  <2>3. thr' = [thr EXCEPT ![t] = w] /\ UNCHANGED lock BY <1>1, <1>3, <1>7, <2>1 DEF SyncRead
  <2>4. thr'[t] = w /\ \A u \in Threads : u # t => thr'[u] = thr[u] BY <1>0, <2>3
  <2>5. \A u \in Threads : Syncing(u)' <=> Syncing(u) BY <1>0, <2>2, <2>4 DEF Syncing
  <2>6. \A u \in Threads : Syncing(u) => u = t BY <1>0 DEF Locked
  <2>7. Locked' BY <1>0, <1>2, <1>4, <2>2, <2>3, <2>4, <2>5, <2>6 DEF Locked, Syncing
  <2>8. ASSUME NEW r \in Resources
        PROVE  \/ \E u \in Threads : WillIndex(u, r)'
               \/ Fit(entries, r)' /\ \A u \in Threads : ~MayWrite(u, r)'
    <3>1. Now(r)' = Now(r) /\ (Fit(entries, r)' <=> Fit(entries, r))
      BY <1>0, <2>8 DEF Now, Fit
    <3>2. CASE r \in thr[t].rs
      <4>1. thr'[t].rows = want /\ Fit(want, r) BY <1>5, <2>2, <2>4, <3>2
      <4>2. Fit(thr[t].rows, r)' BY <1>0, <3>1, <4>1 DEF Fit, OfResource
      <4>3. WillIndex(t, r)' BY <2>2, <2>4, <3>2, <4>2 DEF WillIndex
      <4> QED BY <4>3
    <3>3. CASE r \notin thr[t].rs
      <4>1. \A u \in Threads : WillIndex(u, r) => u # t /\ WillIndex(u, r)'
        BY <1>0, <2>4, <3>1, <3>3 DEF WillIndex, Fit
      <4>2. \A u \in Threads : ~MayWrite(u, r)'
        BY <2>2, <2>4, <2>5, <2>6, <3>3 DEF MayWrite, Syncing
      <4> QED BY <3>1, <4>1, <4>2 DEF Debts
    <3> QED BY <3>2, <3>3
  <2>9. Debts' BY <2>8 DEF Debts
  <2> QED BY <1>0, <2>7, <2>9 DEF Healthy
<1> QED BY <1>6, <1>7

LEMMA SyncApplyFollows ==
  ASSUME IndexShapes, Healthy, Locked, Debts, NEW t \in Threads, SyncApply(t)
  PROVE  Healthy' /\ Locked' /\ Debts'
<1>0. /\ needs \in [Hosts -> BOOLEAN] /\ thr[t].pc = "read" /\ Syncing(t) /\ Settled(t)
      /\ UNCHANGED res
  BY DEF IndexShapes, SyncApply, Syncing, storeVars
<1>1. PICK cur, rows, rs : cur = thr[t].cur /\ rows = thr[t].rows /\ rs = thr[t].rs OBVIOUS
<1>2. cur = {e \in entries : e.r \in rs} /\ \A e \in rows : e.r \in rs BY <1>0, <1>1 DEF Locked
<1>x. Kept = entries BY DEF Kept, Healthy
<1>h. Healthy'
  <2>1. CASE disk' = "ok" /\ needs' = [needs EXCEPT ![HostOf[t]] = FALSE] BY <1>0, <2>1 DEF Healthy
  <2>2. CASE Reload(HostOf[t]) BY <1>0, <2>2 DEF Reload, Healthy
  <2> QED BY <2>1, <2>2 DEF SyncApply
<1>3. entries' = (entries \ (cur \ rows)) \cup (rows \ cur)
  <2>1. CASE Writes(t) BY <1>1, <1>x, <2>1 DEF SyncApply, Updated, Added, Removed
  <2>2. CASE ~Writes(t)
    <3>1. entries' = entries BY <2>2 DEF SyncApply, Reload, Healthy
    <3>2. rows \ cur = {} /\ entries \cap (cur \ rows) = {}
      BY <1>1, <1>x, <2>2 DEF Writes, Added, Removed
    <3> QED BY <3>1, <3>2
  <2> QED BY <2>1, <2>2
<1>4. ASSUME NEW r, r \notin rs PROVE OfResource(entries', r) = OfResource(entries, r)
  BY <1>2, <1>3, <1>4 DEF OfResource
<1>5. ASSUME NEW r \in rs PROVE OfResource(entries', r) = OfResource(rows, r)
  BY <1>2, <1>3 DEF OfResource
<1>6. ASSUME NEW r \in Resources, WillIndex(t, r) PROVE Fit(entries, r)'
  <2>1. r \in rs /\ Fit(rows, r) BY <1>0, <1>1, <1>6 DEF WillIndex
  <2>2. OfResource(entries, r)' = OfResource(rows, r) BY <1>5, <2>1 DEF OfResource
  <2>3. Now(r)' = Now(r) BY <1>0 DEF Now
  <2> QED BY <1>0, <2>1, <2>2, <2>3 DEF Fit
<1>7. Locked' /\ Debts' BY <1>0, <1>1, <1>4, <1>6, SettledFollows
<1> QED BY <1>h, <1>7

LEMMA FollowsKept ==
  ASSUME IndexShapes, Follows, [IndexNext]_vars, NEW h, Hosts = {h} PROVE Follows'
<1>1. CASE hurt
  <2>1. ASSUME NEW t \in Threads, Ingest(t) \/ Archive(t) \/ Confirm(t) PROVE hurt'
    BY <1>1, <2>1 DEF Ingest, Archive, Confirm, CommitThen
  <2>2. ASSUME NEW t \in Threads, Sync(t) \/ SyncFails(t) \/ SearchRows(t) \/ SearchHits(t) PROVE hurt'
    BY <1>1, <2>2 DEF Sync, SyncStart, SyncRefused, SyncFails, Failed, SyncRead, SyncApply, SearchRows, SearchHits
  <2>3. ASSUME NEW t \in Threads, CrashSaving(t) PROVE hurt' BY <2>3 DEF CrashSaving, Restart
  <2>4. ASSUME NEW g \in Hosts, Crash(g) PROVE hurt' BY <2>4 DEF Crash, Restart
  <2>5. CASE StoreOnly \/ UNCHANGED vars
    <3>1. hurt' = hurt BY <2>5 DEF StoreOnly, vars, indexVars
    <3>2. hurt' BY <1>1, <3>1
    <3> QED BY <3>2 DEF Follows
  <2> QED BY <2>1, <2>2, <2>3, <2>4, <2>5 DEF IndexNext, Follows
<1>2. CASE ~hurt
  <2>0. Healthy /\ Locked /\ Debts BY <1>2 DEF Follows
  <2>1. ASSUME NEW t \in Threads, Ingest(t) \/ Archive(t) \/ Confirm(t) PROVE Follows'
    BY <2>0, <2>1, HandlersFollow DEF Follows
  <2>2. ASSUME NEW t \in Threads, Sync(t) PROVE Follows'
    <3>1. ~SyncRefused(t) BY <2>0, IndexAssumption DEF SyncRefused, Healthy
    <3> QED BY <2>0, <2>2, <3>1, SyncStartFollows, SyncReadFollows, SyncApplyFollows DEF Sync, Follows
  <2>3. ASSUME NEW t \in Threads, SyncFails(t) \/ CrashSaving(t) PROVE Follows'
    <3>1. hurt' = TRUE BY <2>3 DEF SyncFails, Failed, CrashSaving, Restart
    <3> QED BY <3>1 DEF Follows
  <2>4. ASSUME NEW t \in Threads, SearchRows(t) \/ SearchHits(t) PROVE Follows'
    BY <2>0, <2>4, SearchFollows DEF Follows
  <2>5. ASSUME NEW g \in Hosts, Crash(g) PROVE Follows'
    <3>1. hurt' = TRUE BY <2>5 DEF Crash, Restart
    <3> QED BY <3>1 DEF Follows
  <2>6. CASE StoreOnly BY <2>0, <2>6, StoreOnlyFollows DEF Follows
  <2>7. CASE UNCHANGED vars
    BY <2>0, <2>7 DEF vars, storeVars, indexVars, Follows, Healthy, Locked, Debts, Syncing, WillIndex,
                      MayWrite, Fit, Now
  <2> QED BY <2>1, <2>2, <2>3, <2>4, <2>5, <2>6, <2>7 DEF IndexNext
<1> QED BY <1>1, <1>2 DEF IndexShapes

LEMMA FollowsAtFirst == IndexInit => Follows
<1> SUFFICES ASSUME IndexInit PROVE Healthy /\ Locked /\ Debts BY DEF Follows
<1>1. Healthy BY DEF IndexInit, Healthy
<1>2. Locked BY DEF IndexInit, Locked, Syncing, Quiet
<1>3. \A r \in Resources : ~Eligible(res[r]) BY DEF IndexInit, StoreInit, NoResource, Eligible
<1>4. \A r \in Resources : Fit(entries, r) BY <1>3 DEF IndexInit, Fit, OfResource
<1>5. \A t \in Threads, r \in Resources : ~MayWrite(t, r) BY DEF IndexInit, MayWrite, Quiet
<1> QED BY <1>1, <1>2, <1>4, <1>5 DEF Debts

(* In one process, while no synchronisation failed or was lost, every        *)
(* resource a search may return is indexed at its current version and at no  *)
(* other as soon as no synchronisation is under way, whatever the order in   *)
(* which the handlers committed and synchronised (_sync_vector_resources).   *)
THEOREM SettledTheorem ==
  ASSUME NEW h, Hosts = {h}
  PROVE  IndexSpec => []SettledIndexIsExact
<1>1. IndexInit => Follows BY FollowsAtFirst
<1>2. IndexShapes /\ Follows /\ [IndexNext]_vars => Follows' BY FollowsKept
<1>3. Follows => SettledIndexIsExact
  <2> SUFFICES ASSUME Follows, ~hurt, AtRest, NEW r \in Resources, Eligible(res[r]) PROVE Exact(r)
    BY DEF SettledIndexIsExact
  <2>1. \A t \in Threads : ~WillIndex(t, r) BY DEF AtRest, WillIndex
  <2>2. OfResource(entries, r) = Now(r) BY <2>1 DEF Follows, Debts, Fit
  <2> QED BY <2>2 DEF OfResource, Now, Exact
<1> QED BY <1>1, <1>2, <1>3, IndexInvariant, PTL DEF IndexSpec

(* In one process, while no synchronisation failed or was lost, a search     *)
(* shows no text of a version that was replaced, unless a thread is on its   *)
(* way to index the resource: the rows and the index, which it reads at      *)
(* different moments, differ by no more than the work that is under way.     *)
THEOREM SearchesTheorem ==
  ASSUME NEW h, Hosts = {h}
  PROVE  IndexSpec => SearchesKeepUp
<1>1. IndexInit => Follows BY FollowsAtFirst
<1>2. IndexShapes /\ Follows /\ [IndexNext]_vars => Follows' BY FollowsKept
<1>3. ASSUME IndexShapes, Follows, Follows', [IndexNext]_vars,
             NEW t \in Threads, thr[t].pc = "search", thr'[t].pc = "idle", ~hurt', NEW f \in found'
      PROVE  \/ f.shown = Current(res[f.r])
             \/ \E u \in Threads : thr[u].pc \in {"queued", "listed", "read"} /\ f.r \in thr[u].rs
  <2>1. SearchHits(t) BY <1>3, SearchEnds
  <2>2. ~hurt BY <1>3, <2>1 DEF SearchHits
  <2>3. Healthy /\ Debts BY <1>3, <2>2 DEF Follows
  <2>4. entries' = entries BY <2>1, <2>3 DEF SearchHits, Reload, Healthy
  <2>5. f \in Hits(thr[t].rows, entries) BY <1>3, <2>1, <2>4 DEF SearchHits
  <2>6. [r |-> f.r, v |-> f.shown] \in entries /\ f.r \in Resources
    BY <1>3, <2>5, HitsAreEntries DEF IndexShapes
  <2>7. CASE \E u \in Threads : WillIndex(u, f.r) BY <2>7 DEF WillIndex
  <2>8. CASE Fit(entries, f.r)
    <3>1. PICK e : e = [r |-> f.r, v |-> f.shown] OBVIOUS
    <3>2. e \in OfResource(entries, f.r) BY <2>6, <3>1 DEF OfResource
    <3>3. e = [r |-> f.r, v |-> Current(res[f.r])] BY <2>8, <3>2 DEF Fit, Now
    <3> QED BY <3>1, <3>3
  <2> QED BY <2>3, <2>6, <2>7, <2>8 DEF Debts
<1>4. IndexShapes /\ Follows /\ Follows' /\ [IndexNext]_vars =>
        [\A t \in Threads : thr[t].pc = "search" /\ thr'[t].pc = "idle" /\ ~hurt' =>
           \A f \in found' :
             \/ f.shown = Current(res[f.r])
             \/ \E u \in Threads : thr[u].pc \in {"queued", "listed", "read"} /\ f.r \in thr[u].rs]_vars
  BY <1>3
<1> QED BY <1>1, <1>2, <1>4, IndexInvariant, PTL DEF IndexSpec, SearchesKeepUp

-----------------------------------------------------------------------------
(* The part of EventuallyIndexed that an invariant and a step can say.       *)

(* The lock of a process is held by a thread that lists or reads, by one at  *)
(* most, and is left by whoever fails, is refused or dies: nobody waits for  *)
(* a synchronisation that is not under way (_vector_lock), for any number of *)
(* processes.                                                                *)
LocksAreHeld ==
  /\ lock = {t \in Threads : Syncing(t)}
  /\ \A t, u \in Threads : Syncing(t) /\ Syncing(u) /\ HostOf[t] = HostOf[u] => t = u

(* a step that leaves all locks and synchronisations alone *)
LEMMA LocksUnmoved ==
  ASSUME LocksAreHeld, UNCHANGED lock, \A t \in Threads : Syncing(t)' <=> Syncing(t)
  PROVE  LocksAreHeld'
BY DEF LocksAreHeld

(* a step by which t ends or gives up what it does *)
LEMMA LockLeft ==
  ASSUME IndexShapes, LocksAreHeld, NEW t \in Threads,
         lock' = lock \ {t}, thr' = [thr EXCEPT ![t] = Quiet]
  PROVE  LocksAreHeld'
<1>1. thr'[t].pc = "idle" /\ \A u \in Threads : u # t => thr'[u] = thr[u]
  BY DEF IndexShapes, Quiet
<1>2. ~Syncing(t)' /\ \A u \in Threads : u # t => (Syncing(u)' <=> Syncing(u)) BY <1>1 DEF Syncing
<1> QED BY <1>2 DEF LocksAreHeld

(* a step of t that neither begins nor ends a synchronisation *)
LEMMA LockKept ==
  ASSUME IndexShapes, LocksAreHeld, NEW t \in Threads, NEW w, UNCHANGED lock,
         thr' = [thr EXCEPT ![t] = w], w.pc \in {"listed", "read"} <=> thr[t].pc \in {"listed", "read"}
  PROVE  LocksAreHeld'
<1>1. thr'[t] = w /\ \A u \in Threads : u # t => thr'[u] = thr[u] BY DEF IndexShapes
<1>2. \A u \in Threads : Syncing(u)' <=> Syncing(u) BY <1>1 DEF Syncing
<1> QED BY <1>2, LocksUnmoved

LEMMA LockRestart ==
  ASSUME LocksAreHeld, NEW h, Restart(h) PROVE LocksAreHeld'
<1>1. \A t \in Threads : thr'[t] = IF HostOf[t] = h THEN Quiet ELSE thr[t] BY DEF Restart
<1>2. \A t \in Threads : Syncing(t)' <=> (Syncing(t) /\ HostOf[t] # h) BY <1>1 DEF Syncing, Quiet
<1>3. lock' = {t \in lock : HostOf[t] # h} BY DEF Restart
<1> QED BY <1>2, <1>3 DEF LocksAreHeld

LEMMA LockNext == ASSUME IndexShapes, LocksAreHeld, [IndexNext]_vars PROVE LocksAreHeld'
<1>1. ASSUME NEW t \in Threads, NEW rs, CommitThen(t, rs) PROVE LocksAreHeld'
  <2>1. PICK w : w = [Quiet EXCEPT !.pc = "queued", !.rs = rs] OBVIOUS
  <2>2. thr' = [thr EXCEPT ![t] = w] /\ UNCHANGED lock /\ thr[t].pc = "idle" BY <1>1, <2>1 DEF CommitThen
  <2>3. w.pc = "queued" BY <2>1 DEF Quiet
  <2> QED BY <2>2, <2>3, LockKept
<1>2. ASSUME NEW t \in Threads, Ingest(t) \/ Archive(t) \/ Confirm(t) PROVE LocksAreHeld'
  <2>1. \E rs : CommitThen(t, rs) BY <1>2 DEF Ingest, Archive, Confirm
  <2> QED BY <1>1, <2>1
<1>3. ASSUME NEW t \in Threads, SyncStart(t) PROVE LocksAreHeld'
  <2>1. PICK w : w = [thr[t] EXCEPT !.pc = "listed", !.cur = {e \in entries' : e.r \in thr[t].rs}] OBVIOUS
  <2>2. thr' = [thr EXCEPT ![t] = w] /\ lock' = lock \cup {t} /\ LockFree(t) BY <1>3, <2>1 DEF SyncStart
  <2>3. w.pc = "listed" BY <2>1 DEF IndexShapes, Work
  <2>4. thr'[t] = w /\ \A u \in Threads : u # t => thr'[u] = thr[u] BY <2>2 DEF IndexShapes
  <2>5. Syncing(t)' /\ \A u \in Threads : u # t => (Syncing(u)' <=> Syncing(u)) BY <2>3, <2>4 DEF Syncing
  <2>6. \A u \in Threads : Syncing(u) => HostOf[u] # HostOf[t] BY <2>2 DEF LockFree, LocksAreHeld
  <2> QED BY <2>2, <2>5, <2>6 DEF LocksAreHeld
<1>4. ASSUME NEW t \in Threads, SyncRefused(t) \/ SyncFails(t) PROVE LocksAreHeld'
  <2>1. lock' = lock \ {t} /\ thr' = [thr EXCEPT ![t] = Quiet] BY <1>4 DEF SyncRefused, SyncFails, Failed
  <2> QED BY <2>1, LockLeft
<1>5. ASSUME NEW t \in Threads, SyncRead(t) PROVE LocksAreHeld'
  <2>1. PICK w : w = [thr[t] EXCEPT !.pc = "read", !.rows = EntriesOf(thr[t].rs)] OBVIOUS
  <2>2. thr[t].pc = "listed" /\ w.pc = "read" BY <1>5, <2>1 DEF SyncRead, IndexShapes, Work
  <2>3. \/ lock' = lock \ {t} /\ thr' = [thr EXCEPT ![t] = Quiet]
        \/ UNCHANGED lock /\ thr' = [thr EXCEPT ![t] = w]
    BY <1>5, <2>1 DEF SyncRead, Settled
  <2> QED BY <2>2, <2>3, LockLeft, LockKept
<1>6. ASSUME NEW t \in Threads, SyncApply(t) PROVE LocksAreHeld'
  <2>1. lock' = lock \ {t} /\ thr' = [thr EXCEPT ![t] = Quiet] BY <1>6 DEF SyncApply, Settled
  <2> QED BY <2>1, LockLeft
<1>7. ASSUME NEW t \in Threads, SearchRows(t) PROVE LocksAreHeld'
  <2>1. PICK w : w = [Quiet EXCEPT !.pc = "search", !.rows = EntriesOf(Resources)] OBVIOUS
  <2>2. thr' = [thr EXCEPT ![t] = w] /\ UNCHANGED lock /\ thr[t].pc = "idle" BY <1>7, <2>1 DEF SearchRows
  <2>3. w.pc = "search" BY <2>1 DEF Quiet
  <2> QED BY <2>2, <2>3, LockKept
<1>8. ASSUME NEW t \in Threads, SearchHits(t) PROVE LocksAreHeld'
  <2>1. PICK w : w = [thr[t] EXCEPT !.pc = "idle"] OBVIOUS
  <2>2. thr' = [thr EXCEPT ![t] = w] /\ UNCHANGED lock /\ thr[t].pc = "search" BY <1>8, <2>1 DEF SearchHits
  <2>3. w.pc = "idle" BY <2>1 DEF IndexShapes, Work
  <2> QED BY <2>2, <2>3, LockKept
<1>9. ASSUME NEW t \in Threads, CrashSaving(t) PROVE LocksAreHeld'
  <2>1. Restart(HostOf[t]) BY <1>9 DEF CrashSaving
  <2> QED BY <2>1, LockRestart
<1>10. ASSUME NEW h \in Hosts, Crash(h) PROVE LocksAreHeld'
  <2>1. Restart(h) BY <1>10 DEF Crash
  <2> QED BY <2>1, LockRestart
<1>11. CASE StoreOnly \/ UNCHANGED vars
  BY <1>11, LocksUnmoved DEF StoreOnly, vars, indexVars, Syncing
<1>12. CASE \E t \in Threads : Ingest(t) \/ Archive(t) \/ Confirm(t) BY <1>2, <1>12
<1>13. CASE \E t \in Threads : Sync(t) BY <1>3, <1>4, <1>5, <1>6, <1>13 DEF Sync
<1>14. CASE \E t \in Threads : SyncFails(t) \/ CrashSaving(t) BY <1>4, <1>9, <1>14
<1>15. CASE \E t \in Threads : SearchRows(t) \/ SearchHits(t) BY <1>7, <1>8, <1>15
<1>16. CASE \E h \in Hosts : Crash(h) BY <1>10, <1>16
<1> QED BY <1>11, <1>12, <1>13, <1>14, <1>15, <1>16 DEF IndexNext

(* The lock of each process is held by one of its threads at work, or free,  *)
(* whatever failed and whatever died.                                        *)
THEOREM LocksTheorem == IndexSpec => []LocksAreHeld
<1>1. IndexInit => LocksAreHeld BY DEF IndexInit, LocksAreHeld, Syncing, Quiet
<1>2. IndexShapes /\ LocksAreHeld /\ [IndexNext]_vars => LocksAreHeld' BY LockNext
<1> QED BY <1>1, <1>2, IndexInvariant, PTL DEF IndexSpec

(* In one process, as long as no synchronisation failed or was lost, a       *)
(* visible resource that is not indexed exactly is owed: a thread is on its  *)
(* way to index it, and what it has read of it already is still current.     *)
InexactIsOwed ==
  ~hurt => \A r \in Resources : Eligible(res[r]) /\ ~Exact(r) => \E t \in Threads : WillIndex(t, r)

(* No handler returns and no synchronisation settles while it leaves an      *)
(* outdated resource to nobody, however the commits and the synchronisations *)
(* of the threads are interleaved (_sync_vector_resources).                  *)
THEOREM OwedTheorem ==
  ASSUME NEW h, Hosts = {h}
  PROVE  IndexSpec => []InexactIsOwed
<1>1. IndexInit => Follows BY FollowsAtFirst
<1>2. IndexShapes /\ Follows /\ [IndexNext]_vars => Follows' BY FollowsKept
<1>3. Follows => InexactIsOwed
  <2> SUFFICES ASSUME Follows, ~hurt, NEW r \in Resources, Eligible(res[r]), ~Exact(r)
               PROVE  \E t \in Threads : WillIndex(t, r)
    BY DEF InexactIsOwed
  <2>1. OfResource(entries, r) # Now(r) BY DEF OfResource, Now, Exact
  <2> QED BY <2>1 DEF Follows, Debts, Fit
<1> QED BY <1>1, <1>2, <1>3, IndexInvariant, PTL DEF IndexSpec

(* how far a synchronisation is from its end *)
SyncLeft(p) == CASE p = "queued" -> 3 [] p = "listed" -> 2 [] p = "read" -> 1 [] OTHER -> 0

(* A synchronisation under way is not sent back by another one, by a         *)
(* handler, by a search or by a death: it does its steps and ends, in any    *)
(* number of processes.                                                      *)
SyncsAdvance ==
  [][\A t \in Threads : thr[t].pc \in {"queued", "listed", "read"} =>
       thr'[t] = thr[t] \/ SyncLeft(thr'[t].pc) < SyncLeft(thr[t].pc)]_vars

(* What a synchronisation has begun comes to its end in three steps          *)
(* (_sync_vector_resources, VectorStore.sync).                               *)
THEOREM SyncsAdvanceTheorem == IndexSpec => SyncsAdvance
<1>1. ASSUME IndexShapes, IndexNext, NEW t \in Threads, thr[t].pc \in {"queued", "listed", "read"},
             thr'[t] # thr[t]
      PROVE  SyncLeft(thr'[t].pc) < SyncLeft(thr[t].pc)
  <2>0. thr \in [Threads -> Work] /\ SyncLeft(Quiet.pc) = 0 BY <1>1 DEF IndexShapes, SyncLeft, Quiet
  <2>1. SyncLeft(thr[t].pc) \in 1..3 BY <1>1 DEF SyncLeft
  <2>2. ASSUME NEW u \in Threads, NEW rs, CommitThen(u, rs) PROVE FALSE
    BY <1>1, <2>0, <2>2 DEF CommitThen
  <2>3. ASSUME NEW u \in Threads, Ingest(u) \/ Archive(u) \/ Confirm(u) PROVE FALSE
    <3>1. \E rs : CommitThen(u, rs) BY <2>3 DEF Ingest, Archive, Confirm
    <3> QED BY <2>2, <3>1
  <2>4. ASSUME NEW u \in Threads, SearchRows(u) \/ SearchHits(u) PROVE FALSE
    BY <1>1, <2>0, <2>4 DEF SearchRows, SearchHits
  <2>5. ASSUME NEW u \in Threads, SyncStart(u) PROVE SyncLeft(thr'[t].pc) < SyncLeft(thr[t].pc)
    <3>1. PICK w : w = [thr[u] EXCEPT !.pc = "listed", !.cur = {e \in entries' : e.r \in thr[u].rs}] OBVIOUS
    <3>2. thr' = [thr EXCEPT ![u] = w] /\ thr[u].pc = "queued" BY <2>5, <3>1 DEF SyncStart
    <3>3. w.pc = "listed" BY <2>0, <3>1 DEF Work
    <3>4. u = t /\ thr'[t] = w BY <1>1, <2>0, <3>2
    <3> QED BY <3>2, <3>3, <3>4 DEF SyncLeft
  <2>6. ASSUME NEW u \in Threads, SyncRefused(u) \/ SyncFails(u) \/ SyncApply(u)
        PROVE  SyncLeft(thr'[t].pc) < SyncLeft(thr[t].pc)
    <3>1. thr' = [thr EXCEPT ![u] = Quiet]
      BY <2>6 DEF SyncRefused, SyncFails, Failed, SyncApply, Settled
    <3>2. thr'[t] = Quiet BY <1>1, <2>0, <3>1
    <3> QED BY <2>0, <2>1, <3>2
  <2>7. ASSUME NEW u \in Threads, SyncRead(u) PROVE SyncLeft(thr'[t].pc) < SyncLeft(thr[t].pc)
    <3>1. PICK w : w = [thr[u] EXCEPT !.pc = "read", !.rows = EntriesOf(thr[u].rs)] OBVIOUS
    <3>2. thr[u].pc = "listed" /\ (thr' = [thr EXCEPT ![u] = w] \/ thr' = [thr EXCEPT ![u] = Quiet])
      BY <2>7, <3>1 DEF SyncRead, Settled
    <3>3. w.pc = "read" BY <2>0, <3>1 DEF Work
    <3>4. u = t /\ (thr'[t] = w \/ thr'[t] = Quiet) BY <1>1, <2>0, <3>2
    <3>5. CASE thr'[t] = w BY <3>2, <3>3, <3>4, <3>5 DEF SyncLeft
    <3>6. CASE thr'[t] = Quiet BY <2>0, <2>1, <3>6
    <3> QED BY <3>4, <3>5, <3>6
  <2>8. ASSUME NEW h, Restart(h) PROVE SyncLeft(thr'[t].pc) < SyncLeft(thr[t].pc)
    <3>1. thr'[t] = Quiet BY <1>1, <2>8 DEF Restart
    <3> QED BY <2>0, <2>1, <3>1
  <2>9. CASE StoreOnly BY <1>1, <2>9 DEF StoreOnly
  <2> QED BY <1>1, <2>3, <2>4, <2>5, <2>6, <2>7, <2>8, <2>9 DEF IndexNext, Sync, CrashSaving, Crash
<1>2. IndexShapes /\ [IndexNext]_vars =>
        [\A t \in Threads : thr[t].pc \in {"queued", "listed", "read"} =>
           thr'[t] = thr[t] \/ SyncLeft(thr'[t].pc) < SyncLeft(thr[t].pc)]_vars
  BY <1>1
<1> QED BY <1>2, IndexInvariant, PTL DEF IndexSpec, SyncsAdvance
=============================================================================
