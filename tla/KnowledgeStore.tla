--------------------------- MODULE KnowledgeStore ---------------------------
(* WorkspaceKnowledgeStore and ConsolidationService of one workspace: the    *)
(* versioned resources, the ingestion proposals and the rules, each method a *)
(* BEGIN IMMEDIATE transaction, and the consolidation that reads all active  *)
(* resources once and writes its marks afterwards, a transaction each; runs  *)
(* of it one after the other (a bound: the code takes no lock for a run).    *)
(* Spec is the store with vector search disabled; KnowledgeIndex adds the    *)
(* derived index.  A resource is identified by its source, its texts are     *)
(* members of Contents, and updated_at is its place in recency.              *)
EXTENDS Naturals, Sequences, FiniteSets, Functions, Selection

CONSTANTS
  Resources,   \* resources, identified by (source_type, source_id)
  Contents,    \* texts, told apart by their hash
  Norm,        \* [Contents -> ...], a text without case and blanks
  Opposed,     \* sets of two texts on one topic with opposite markers
  Proposals,   \* idempotency keys
  Rules,
  Direct,      \* the author of a version no proposal made
  MaxVersion   \* bound: versions of a resource

ASSUME StoreAssumption ==
  /\ Direct \notin Proposals
  /\ MaxVersion \in Nat
  /\ Norm \in [Contents -> Contents]

VARIABLES
  res,       \* knowledge_resources, with the knowledge_versions of each
  recency,   \* the resources by updated_at, the latest first
  prop,      \* knowledge_ingestion_proposals
  audit,     \* knowledge_ingestion_events of each proposal
  rule,      \* knowledge_rules.status
  con        \* the run of ConsolidationService.consolidate under way

storeVars == <<res, recency, prop, audit, rule, con>>

Marks == {"active", "superseded", "conflict"}
Version == [c : Contents, by : Proposals \cup {Direct}]
Resource == [status : {"none", "active", "archived"}, versions : Seq(Version), mark : Marks, supersedes : SUBSET Resources]
Item == [r : Resources, c : Contents, base : 0..MaxVersion]
Items == {<<i>> : i \in Item} \cup (Item \X Item)
Proposal == [status : {"none", "pending", "confirmed", "rejected", "conflict"}, items : {<<>>} \cup Items]
RuleStatus == {"none", "proposed", "accepted", "rejected", "revoked"}
Pairs == Resources \X Resources
Idle == [busy |-> FALSE, dups |-> {}, link |-> {}, clash |-> {}]

NoResource == [status |-> "none", versions |-> <<>>, mark |-> "active", supersedes |-> {}]
NoProposal == [status |-> "none", items |-> <<>>]

StoreInit ==
  /\ res = [r \in Resources |-> NoResource]
  /\ recency = <<>>
  /\ prop = [p \in Proposals |-> NoProposal]
  /\ audit = [p \in Proposals |-> <<>>]
  /\ rule = [u \in Rules |-> "none"]
  /\ con = Idle

Current(row) == Len(row.versions)
Text(row) == row.versions[Current(row)].c
(* what search, the index and the agent are given *)
Eligible(row) == row.status = "active" /\ row.mark = "active"
Touch(r, seq) == <<r>> \o Selected(seq, Resources \ {r})

-----------------------------------------------------------------------------
(* Resources *)

(* _ingest_prepared_resource: the same text makes no new version; either way *)
(* the resource becomes active, and its consolidation mark is left alone.    *)
Ingested(row, c, author) ==
  LET same == row.versions # <<>> /\ Text(row) = c
  IN  [row EXCEPT !.status = "active",
                  !.versions = IF same THEN @ ELSE Append(@, [c |-> c, by |-> author])]
RoomFor(row, c) == Current(Ingested(row, c, Direct)) <= MaxVersion

IngestResource(r, c) ==
  /\ RoomFor(res[r], c)
  /\ res' = [res EXCEPT ![r] = Ingested(@, c, Direct)]
  /\ recency' = Touch(r, recency)
  /\ UNCHANGED <<prop, audit, rule, con>>

ArchiveResource(r) ==
  /\ res[r].status = "active"
  /\ res' = [res EXCEPT ![r].status = "archived"]
  /\ recency' = Touch(r, recency)
  /\ UNCHANGED <<prop, audit, rule, con>>

-----------------------------------------------------------------------------
(* Ingestion proposals *)

(* The same key with the same resources returns its row, with others it is   *)
(* refused: neither changes anything.                                        *)
ProposeIngestion(p, want) ==
  /\ prop[p].status = "none"
  /\ LET item(w) == [r |-> w[1], c |-> w[2], base |-> Current(res[w[1]])]
     IN  prop' = [prop EXCEPT ![p] = [status |-> "pending", items |-> [i \in DOMAIN want |-> item(want[i])]]]
  /\ audit' = [audit EXCEPT ![p] = Append(@, "proposed")]
  /\ UNCHANGED <<res, recency, rule, con>>

(* a variant that asks only whether the sources still exist *)
SourcesStillThere(p) ==
  \A i \in DOMAIN prop[p].items : Current(res[prop[p].items[i].r]) >= prop[p].items[i].base

(* every source is compared with its version at the proposal, before any of  *)
(* the resources is written                                                  *)
SourcesUnchanged(p) ==
  \A i \in DOMAIN prop[p].items : Current(res[prop[p].items[i].r]) = prop[p].items[i].base

WithItem(table, i, p) == [table EXCEPT ![i.r] = Ingested(@, i.c, p)]
WithItems(table, items, p) ==
  IF Len(items) = 1 THEN WithItem(table, items[1], p)
                    ELSE WithItem(WithItem(table, items[1], p), items[2], p)
TouchItems(items, seq) ==
  IF Len(items) = 1 THEN Touch(items[1].r, seq)
                    ELSE Touch(items[2].r, Touch(items[1].r, seq))

Decide(p, to) ==
  /\ prop' = [prop EXCEPT ![p].status = to]
  /\ audit' = [audit EXCEPT ![p] = Append(@, to)]

(* a variant that writes the resources in a transaction of their own *)
ConfirmIngestionUndecided(p) ==
  /\ prop[p].status = "pending"
  /\ SourcesUnchanged(p)
  /\ \A r \in Resources : Current(WithItems(res, prop[p].items, p)[r]) <= MaxVersion
  /\ res' = WithItems(res, prop[p].items, p)
  /\ recency' = TouchItems(prop[p].items, recency)
  /\ UNCHANGED <<prop, audit, rule, con>>

ConfirmIngestion(p) ==
  LET after == WithItems(res, prop[p].items, p)
  IN  /\ prop[p].status = "pending"
      /\ SourcesUnchanged(p)
      /\ \A r \in Resources : Current(after[r]) <= MaxVersion
      /\ res' = after
      /\ recency' = TouchItems(prop[p].items, recency)
      /\ Decide(p, "confirmed")
      /\ UNCHANGED <<rule, con>>

(* the conflict is committed before the error is raised *)
ConfirmConflicts(p) ==
  /\ prop[p].status = "pending"
  /\ ~SourcesUnchanged(p)
  /\ Decide(p, "conflict")
  /\ UNCHANGED <<res, recency, rule, con>>

RejectIngestion(p) ==
  /\ prop[p].status = "pending"
  /\ Decide(p, "rejected")
  /\ UNCHANGED <<res, recency, rule, con>>

-----------------------------------------------------------------------------
(* Rules *)

RuleStep(u, from, to) ==
  /\ rule[u] = from
  /\ rule' = [rule EXCEPT ![u] = to]
  /\ UNCHANGED <<res, recency, prop, audit, con>>
ProposeRule(u) == RuleStep(u, "none", "proposed")
(* a variant that also accepts what was revoked *)
ConfirmRuleAnew(u) == RuleStep(u, "proposed", "accepted") \/ RuleStep(u, "revoked", "accepted")
ConfirmRule(u) == RuleStep(u, "proposed", "accepted")
RejectRule(u) == RuleStep(u, "proposed", "rejected")
RevokeRule(u) == RuleStep(u, "accepted", "revoked")

-----------------------------------------------------------------------------
(* Consolidation *)

Place(r) == CHOOSE i \in DOMAIN recency : recency[i] = r
Newest(S) == CHOOSE r \in S : \A s \in S : Place(r) <= Place(s)

(* groups of equal texts first; then, of the resources not yet marked by     *)
(* this run, those of equal normalised text                                  *)
Duplicates(S, key) ==
  LET group(r) == {s \in S : key[s] = key[r]}
  IN  {<<r, Newest(group(r))>> : r \in {s \in S : s # Newest(group(s))}}
Dups(S) ==
  LET exact == Duplicates(S, [r \in S |-> Text(res[r])])
      left == S \ {d[1] : d \in exact}
  IN  exact \cup Duplicates(left, [r \in left |-> Norm[Text(res[r])]])
(* a variant that compares the topics only *)
ClashesByTopic(S) == {r \in S : \A d \in Dups(S) : d[1] # r}
(* two visible resources that remain and say the opposite *)
Clashes(S) ==
  LET left == {r \in S : res[r].mark = "active" /\ \A d \in Dups(S) : d[1] # r}
  IN  {r \in left : \E s \in left \ {r} : {Text(res[r]), Text(res[s])} \in Opposed}

(* iter_active_resources: archived ones are left out, marked ones are not;   *)
(* one run at a time is a bound                                              *)
ScanResources ==
  LET scanned == {r \in Resources : res[r].status = "active"}
  IN  /\ ~con.busy
      /\ scanned # {}
      /\ con' = [busy |-> TRUE, dups |-> Dups(scanned), link |-> {}, clash |-> Clashes(scanned)]
      /\ UNCHANGED <<res, recency, prop, audit, rule>>

MarkDuplicate ==
  /\ con.busy /\ con.link = {}
  /\ \E d \in con.dups :
       /\ res' = [res EXCEPT ![d[1]].mark = "superseded"]
       /\ con' = [con EXCEPT !.dups = @ \ {d}, !.link = {d}]
  /\ UNCHANGED <<recency, prop, audit, rule>>

SetSupersedes ==
  /\ con.busy
  /\ \E d \in con.link : res' = [res EXCEPT ![d[2]].supersedes = {d[1]}]
  /\ con' = [con EXCEPT !.link = {}]
  /\ UNCHANGED <<recency, prop, audit, rule>>

MarkConflict ==
  /\ con.busy /\ con.link = {} /\ con.dups = {}
  /\ \E r \in con.clash :
       /\ res' = [res EXCEPT ![r].mark = "conflict"]
       /\ con' = [con EXCEPT !.clash = @ \ {r}]
  /\ UNCHANGED <<recency, prop, audit, rule>>

(* the run ends, or a write fails, or its process dies: what is marked stays *)
EndConsolidation ==
  /\ con.busy
  /\ con' = Idle
  /\ UNCHANGED <<res, recency, prop, audit, rule>>

Consolidate == ScanResources \/ MarkDuplicate \/ SetSupersedes \/ MarkConflict \/ EndConsolidation

-----------------------------------------------------------------------------
Wanted == (Resources \X Contents)
Next ==
  \/ \E r \in Resources, c \in Contents : IngestResource(r, c)
  \/ \E r \in Resources : ArchiveResource(r)
  \/ \E p \in Proposals, w \in Wanted : ProposeIngestion(p, <<w>>)
  \/ \E p \in Proposals, w, x \in Wanted : ProposeIngestion(p, <<w, x>>)
  \/ \E p \in Proposals : ConfirmIngestion(p) \/ ConfirmConflicts(p) \/ RejectIngestion(p)
  \/ \E u \in Rules : ProposeRule(u) \/ ConfirmRule(u) \/ RejectRule(u) \/ RevokeRule(u)
  \/ Consolidate

Spec == StoreInit /\ [][Next]_storeVars

-----------------------------------------------------------------------------
(* The shape of the tables and of a consolidation run; every resource that   *)
(* exists has one place in the order of updated_at.                          *)
TypeOK ==
  /\ res \in [Resources -> Resource]
  /\ IsInjective(recency) /\ Range(recency) = {r \in Resources : res[r].status # "none"}
  /\ prop \in [Proposals -> Proposal]
  /\ audit \in [Proposals -> Seq({"proposed", "confirmed", "rejected", "conflict"})]
  /\ rule \in [Rules -> RuleStatus]
  /\ con \in [busy : BOOLEAN, dups : SUBSET Pairs, link : SUBSET Pairs, clash : SUBSET Resources]

(* A proposal is inert until it is confirmed (propose_ingestion, "Persist an *)
(* inert ingestion proposal without creating knowledge"): only a confirmed   *)
(* one is the author of a version, and its audit trail has its proposal and  *)
(* at most one decision, the one its row shows.                              *)
InertUntilConfirmed ==
  /\ \A r \in Resources : \A i \in DOMAIN res[r].versions :
       res[r].versions[i].by # Direct => prop[res[r].versions[i].by].status = "confirmed"
  /\ \A p \in Proposals :
       audit[p] = CASE prop[p].status = "none" -> <<>>
                    [] prop[p].status = "pending" -> <<"proposed">>
                    [] OTHER -> <<"proposed", prop[p].status>>

(* confirm_ingestion never buries a version its proposer has not seen: a     *)
(* version made by a proposal stands on the version the proposal was based   *)
(* on, or on another version of the same proposal.                           *)
NothingBuriedUnseen ==
  \A r \in Resources : \A i \in DOMAIN res[r].versions :
    LET p == res[r].versions[i].by
    IN  p # Direct =>
          \E n \in DOMAIN prop[p].items :
            /\ prop[p].items[n].r = r
            /\ prop[p].items[n].base < i
            /\ \A j \in (prop[p].items[n].base + 1)..i : res[r].versions[j].by = p

(* A mark that hides a resource has a cause, however the scan and the writes *)
(* of others interleaved: a superseded one once had the normalised text of   *)
(* another resource, one in conflict the opposite of another's.              *)
MarksHaveCause ==
  LET said(r) == {v.c : v \in Range(res[r].versions)}
  IN  \A r \in Resources :
        /\ res[r].mark = "superseded" =>
             \E s \in Resources \ {r} : \E c \in said(r), d \in said(s) : Norm[c] = Norm[d]
        /\ res[r].mark = "conflict" =>
             \E s \in Resources \ {r} : \E c \in said(r), d \in said(s) : {c, d} \in Opposed

(* What was decided stays decided: a rejected or conflicting proposal never  *)
(* becomes knowledge, a confirmed one is never undone, a rejected or revoked *)
(* rule never guides the agent again (_decide_rule, revoke_rule).            *)
DecisionsStand ==
  [][/\ \A p \in Proposals : prop[p].status \in {"confirmed", "rejected", "conflict"} => prop'[p] = prop[p]
     /\ \A u \in Rules : /\ rule[u] \in {"rejected", "revoked"} => rule'[u] = rule[u]
                         /\ rule'[u] = "revoked" => rule[u] \in {"accepted", "revoked"}]_storeVars

(* "只保留最新一条" (consolidation.py:169, keep only the newest of equal       *)
(* texts): what a run keeps of a group of duplicates is visible.             *)
KeepsOneVisible ==
  [][~con.busy /\ con'.busy => \A d \in con'.dups : Eligible(res[d[2]])]_storeVars
=============================================================================
