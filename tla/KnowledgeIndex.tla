--------------------------- MODULE KnowledgeIndex ---------------------------
(* The knowledge store with its vector index: every handler commits its      *)
(* transaction and then brings the index up to date for the resources it     *)
(* changed, as well as it can (_sync_vector_index_best_effort); a search     *)
(* reads the rows first and the index afterwards.  The index is a file set   *)
(* shared by the processes (Hosts): each reads it under a disk lock before   *)
(* every use, and serialises its own threads' synchronisations by a lock of  *)
(* the process.  An entry stands for the chunks of one version.              *)
EXTENDS KnowledgeStore

CONSTANTS
  Hosts,      \* processes
  Threads,    \* the threads that handle requests
  HostOf,     \* [Threads -> Hosts]
  Faults      \* BOOLEAN: embeddings and locks fail, processes die

ASSUME IndexAssumption == HostOf \in [Threads -> Hosts] /\ Faults \in BOOLEAN

VARIABLES
  disk,      \* the files: none yet, readable, or of differing counts
  entries,   \* what they hold
  needs,     \* VectorStore.needs_rebuild of each process
  pending,   \* WorkspaceKnowledgeStore.sync_pending of each process
  lock,      \* the threads that hold a _vector_lock
  thr,       \* what each thread is doing
  found,     \* the answer of the search that just ended
  hurt       \* whether a synchronisation ever failed or was lost

indexVars == <<disk, entries, needs, pending, lock, thr, found, hurt>>
vars == <<storeVars, indexVars>>

Quiet == [pc |-> "idle", rs |-> {}, cur |-> {}, rows |-> {}]

IndexInit ==
  /\ StoreInit
  /\ disk = "none" /\ entries = {}
  /\ needs = [h \in Hosts |-> FALSE]
  /\ pending = [h \in Hosts |-> FALSE]
  /\ lock = {}
  /\ thr = [t \in Threads |-> Quiet]
  /\ found = {}
  /\ hurt = FALSE

(* the entries the rows call for: visible resources, at their version *)
EntriesOf(S) == {[r |-> r, v |-> Current(res[r])] : r \in {s \in S : Eligible(res[s])}}

(* the lock of a process; a variant without it *)
LockFreeAlways(t) == t \in Threads
LockFree(t) == \A u \in lock : HostOf[u] # HostOf[t]

(* _reload_from_disk: files whose counts differ are put aside; files that    *)
(* are read clear needs_rebuild, missing ones leave it as it was             *)
Reload(h) ==
  /\ disk' = IF disk = "torn" THEN "none" ELSE disk
  /\ entries' = IF disk = "torn" THEN {} ELSE entries
  /\ needs' = [needs EXCEPT ![h] = IF disk = "none" THEN @ ELSE disk = "torn"]

-----------------------------------------------------------------------------
(* The handlers: a transaction, and the resources to synchronise after it *)

(* a variant that leaves the work to whoever is synchronising *)
CommitThenUnlessSyncing(t, rs) ==
  /\ thr[t].pc = "idle"
  /\ thr' = [thr EXCEPT ![t] = [Quiet EXCEPT !.pc = IF lock = {} THEN "queued" ELSE "idle", !.rs = rs]]
  /\ pending' = [pending EXCEPT ![HostOf[t]] = TRUE]
  /\ found' = {}
  /\ UNCHANGED <<disk, entries, needs, lock, hurt>>

CommitThen(t, rs) ==
  /\ thr[t].pc = "idle"
  /\ thr' = [thr EXCEPT ![t] = [Quiet EXCEPT !.pc = "queued", !.rs = rs]]
  /\ pending' = [pending EXCEPT ![HostOf[t]] = TRUE]
  /\ found' = {}
  /\ UNCHANGED <<disk, entries, needs, lock, hurt>>

Ingest(t) == \E r \in Resources, c \in Contents : IngestResource(r, c) /\ CommitThen(t, {r})
Archive(t) == \E r \in Resources : ArchiveResource(r) /\ CommitThen(t, {r})
Confirm(t) == \E p \in Proposals : ConfirmIngestion(p) /\ CommitThen(t, {i.r : i \in Range(prop[p].items)})

(* what commits without touching the index; consolidation does *)
StoreOnly ==
  /\ \/ \E p \in Proposals, w \in Wanted : ProposeIngestion(p, <<w>>)
     \/ \E p \in Proposals : ConfirmConflicts(p) \/ RejectIngestion(p)
     \/ Consolidate
  /\ found' = {}
  /\ UNCHANGED <<disk, entries, needs, pending, lock, thr, hurt>>

-----------------------------------------------------------------------------
(* _sync_vector_resources *)

(* the index is listed under the process lock *)
SyncStart(t) ==
  /\ thr[t].pc = "queued" /\ LockFree(t) /\ ~needs[HostOf[t]]
  /\ Reload(HostOf[t])
  /\ lock' = lock \cup {t}
  /\ thr' = [thr EXCEPT ![t].pc = "listed", ![t].cur = {e \in entries' : e.r \in thr[t].rs}]
  /\ found' = {}
  /\ UNCHANGED <<storeVars, pending, hurt>>

(* the exception is caught: the index is marked, the caller is not told *)
Failed(t) ==
  /\ needs' = [needs EXCEPT ![HostOf[t]] = TRUE]
  /\ lock' = lock \ {t}
  /\ thr' = [thr EXCEPT ![t] = Quiet]
  /\ found' = {}
  /\ hurt' = TRUE
  /\ UNCHANGED <<storeVars, disk, entries, pending>>

SyncRefused(t) == thr[t].pc = "queued" /\ LockFree(t) /\ needs[HostOf[t]] /\ Failed(t)
SyncFails(t) == Faults /\ thr[t].pc \in {"listed", "read"} /\ Failed(t)

Settled(t) ==
  /\ pending' = [pending EXCEPT ![HostOf[t]] = FALSE]
  /\ lock' = lock \ {t}
  /\ thr' = [thr EXCEPT ![t] = Quiet]

SyncRead(t) ==
  LET want == EntriesOf(thr[t].rs)
  IN  /\ thr[t].pc = "listed"
      /\ IF want = thr[t].cur
         THEN Settled(t)
         ELSE /\ thr' = [thr EXCEPT ![t].pc = "read", ![t].rows = want]
              /\ UNCHANGED <<pending, lock>>
      /\ found' = {}
      /\ UNCHANGED <<storeVars, disk, entries, needs, hurt>>

(* VectorStore.sync reads the files again, whatever they are by now, and     *)
(* writes them once if something is to be added or was found to be removed.  *)
Kept == IF disk = "torn" THEN {} ELSE entries
Added(t) == thr[t].rows \ thr[t].cur
Removed(t) == thr[t].cur \ thr[t].rows
Writes(t) == Added(t) # {} \/ Kept \cap Removed(t) # {}

(* a variant that adds the new entries and removes none *)
UpdatedAppending(t) == Kept \cup Added(t)
Updated(t) == (Kept \ Removed(t)) \cup Added(t)

SyncApply(t) ==
  /\ thr[t].pc = "read"
  /\ IF Writes(t)
     THEN /\ entries' = Updated(t)
          /\ disk' = "ok"
          /\ needs' = [needs EXCEPT ![HostOf[t]] = FALSE]
     ELSE Reload(HostOf[t])
  /\ Settled(t)
  /\ found' = {}
  /\ UNCHANGED <<storeVars, hurt>>

-----------------------------------------------------------------------------
(* search *)

SearchRows(t) ==
  /\ thr[t].pc = "idle"
  /\ EntriesOf(Resources) # {}
  /\ thr' = [thr EXCEPT ![t] = [Quiet EXCEPT !.pc = "search", !.rows = EntriesOf(Resources)]]
  /\ found' = {}
  /\ UNCHANGED <<storeVars, disk, entries, needs, pending, lock, hurt>>

(* a hit counts when its resource is among the rows; the text shown is the   *)
(* hit's, the rest of the record the row's                                   *)
Hits(rows, hits) ==
  {[r |-> p[1].r, row |-> p[2].v, shown |-> p[1].v] : p \in {q \in hits \X rows : q[1].r = q[2].r}}

SearchHits(t) ==
  /\ thr[t].pc = "search"
  /\ Reload(HostOf[t])
  /\ found' = Hits(thr[t].rows, entries')
  /\ thr' = [thr EXCEPT ![t].pc = "idle"]
  /\ UNCHANGED <<storeVars, pending, lock, hurt>>

-----------------------------------------------------------------------------
(* A process dies and starts again: its threads and flags are lost, what it  *)
(* committed is not.                                                         *)
Restart(h) ==
  /\ needs' = [needs EXCEPT ![h] = disk' = "torn"]
  /\ pending' = [pending EXCEPT ![h] = disk' = "torn"]
  /\ lock' = {t \in lock : HostOf[t] # h}
  /\ thr' = [t \in Threads |-> IF HostOf[t] = h THEN Quiet ELSE thr[t]]
  /\ found' = {}
  /\ hurt' = TRUE

Crash(h) ==
  /\ Faults
  /\ \E t \in Threads : HostOf[t] = h /\ thr[t].pc \in {"queued", "listed"}
  /\ UNCHANGED <<storeVars, disk, entries>>
  /\ Restart(h)

(* _save replaces the index file, then the metadata, then the manifest.  A   *)
(* process that dies before the first of them leaves what there was; after   *)
(* the first one, two files of one count, which are taken for good with the  *)
(* old metadata, or of two counts, which are put aside when they are read;   *)
(* after the second one, the new files, as the old manifest still fits them. *)
(* Where there were no files, they lack a manifest and are put aside.        *)
CrashSaving(t) ==
  /\ Faults
  /\ thr[t].pc = "read" /\ Writes(t)
  /\ \/ /\ disk' = IF disk = "torn" THEN "none" ELSE disk
        /\ entries' = Kept
     \/ /\ disk' = IF disk = "ok" /\ Cardinality(Kept) = Cardinality(Updated(t)) THEN "ok" ELSE "torn"
        /\ entries' = Kept
     \/ /\ disk' = IF disk = "ok" THEN "ok" ELSE "torn"
        /\ entries' = IF disk = "ok" THEN Updated(t) ELSE Kept
  /\ UNCHANGED storeVars
  /\ Restart(HostOf[t])

Sync(t) == SyncStart(t) \/ SyncRefused(t) \/ SyncRead(t) \/ SyncApply(t)

IndexNext ==
  \/ \E t \in Threads :
       \/ Ingest(t) \/ Archive(t) \/ Confirm(t)
       \/ Sync(t) \/ SyncFails(t) \/ CrashSaving(t)
       \/ SearchRows(t) \/ SearchHits(t)
  \/ \E h \in Hosts : Crash(h)
  \/ StoreOnly

IndexSpec == IndexInit /\ [][IndexNext]_vars
(* A thread that holds the lock goes on; one that waits for it gets it in    *)
(* the end.                                                                  *)
FairIndexSpec == IndexSpec /\ \A t \in Threads : SF_vars(Sync(t))

-----------------------------------------------------------------------------
Exact(r) == {e \in entries : e.r = r} = {[r |-> r, v |-> Current(res[r])]}
AtRest == \A t \in Threads : thr[t].pc \in {"idle", "search"}

(* In one process, as long as no synchronisation failed or was lost, the     *)
(* index follows the tables: when no synchronisation is under way and none   *)
(* is reported pending, every resource a search may return is indexed at its *)
(* current version and at no other.                                          *)
SettledIndexIsExact ==
  ~hurt /\ AtRest /\ (\A h \in Hosts : ~pending[h]) => \A r \in Resources : Eligible(res[r]) => Exact(r)

(* In one process, as long as no synchronisation failed or was lost, the     *)
(* text a search shows, which it takes from the index after it has read the  *)
(* rows, is of the resource's current version, or a synchronisation of that  *)
(* resource is under way: no text outlives the version it is of.             *)
SearchesKeepUp ==
  [][\A t \in Threads : thr[t].pc = "search" /\ thr'[t].pc = "idle" /\ ~hurt' =>
       \A f \in found' :
         \/ f.shown = Current(res[f.r])
         \/ \E u \in Threads : thr[u].pc \in {"queued", "listed", "read"} /\ f.r \in thr[u].rs]_vars

(* What is ingested becomes searchable: a visible resource whose current     *)
(* version is not indexed is, in the end, indexed exactly or hidden.         *)
EventuallyIndexed ==
  \A r \in Resources : (Eligible(res[r]) /\ ~Exact(r)) ~> (hurt \/ ~Eligible(res[r]) \/ Exact(r))
=============================================================================
