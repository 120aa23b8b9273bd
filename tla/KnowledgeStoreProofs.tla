------------------------ MODULE KnowledgeStoreProofs ------------------------
(***************************************************************************)
(* Proofs about KnowledgeStore for every set of resources, texts,          *)
(* proposals and rules, every relation of texts and every bound of the     *)
(* versions.                                                               *)
(*                                                                         *)
(* The inductive invariant is IInv: the shapes of the tables (Shapes), the *)
(* items of a decided proposal, and the two properties themselves, of      *)
(* which NothingBuriedUnseen needs the other one: the items of a proposal  *)
(* that made a version must not change any more.                           *)
(*                                                                         *)
(* That marks have a cause needs CInv besides: what is stored is in the    *)
(* order by recency (Present), and what the consolidation still means to   *)
(* mark once said what it is marked for (Causes), which the growing        *)
(* versions keep true however late it writes.                              *)
(***************************************************************************)
EXTENDS KnowledgeStore, SelectionProofs

Authors == Proposals \cup {Direct}
AnyVersion == [c : Contents, by : Authors]
Row == [status : {"none", "active", "archived"}, versions : Seq(AnyVersion),
        mark : Marks, supersedes : SUBSET Resources]
AnyItem == [r : Resources, c : Contents, base : Nat]
PropRow == [status : {"none", "pending", "confirmed", "rejected", "conflict"}, items : Seq(AnyItem)]

Shapes ==
  /\ res \in [Resources -> Row]
  /\ prop \in [Proposals -> PropRow]
  /\ \A p \in Proposals : prop[p].status # "none" => Len(prop[p].items) \in {1, 2}
  /\ audit \in [Proposals -> Seq({"proposed", "confirmed", "rejected", "conflict"})]
  /\ rule \in [Rules -> RuleStatus]
  /\ \A d \in con.dups \cup con.link : d[1] \in Resources

OnlyConfirmedWrite ==
  \A r \in Resources : \A i \in 1..Len(res[r].versions) :
    res[r].versions[i].by # Direct => prop[res[r].versions[i].by].status = "confirmed"

AuditMatches ==
  \A p \in Proposals :
    /\ prop[p].status = "none" => audit[p] = <<>>
    /\ prop[p].status = "pending" => audit[p] = <<"proposed">>
    /\ prop[p].status \in {"confirmed", "rejected", "conflict"} => audit[p] = <<"proposed", prop[p].status>>

(* version i of r, made by p, stands on what p was based on *)
Stands(vs, items, r, i) ==
  \E n \in 1..Len(items) :
    /\ items[n].r = r /\ items[n].base < i
    /\ \A j \in (items[n].base + 1)..i : vs[j].by = vs[i].by

VersionsStand ==
  \A r \in Resources : \A i \in 1..Len(res[r].versions) :
    res[r].versions[i].by # Direct =>
      Stands(res[r].versions, prop[res[r].versions[i].by].items, r, i)

IInv == Shapes /\ OnlyConfirmedWrite /\ AuditMatches /\ VersionsStand

-----------------------------------------------------------------------------
(* What becomes of a row: its versions grow by versions of one author. *)

Grown(row, new, a) ==
  /\ new \in Row
  /\ Len(row.versions) <= Len(new.versions)
  /\ \A i \in 1..Len(row.versions) : new.versions[i] = row.versions[i]
  /\ \A i \in (Len(row.versions) + 1)..Len(new.versions) : new.versions[i].by = a

LEMMA IngestedGrows ==
  ASSUME NEW row \in Row, NEW c \in Contents, NEW a \in Authors
  PROVE  Grown(row, Ingested(row, c, a), a)
<1>1. [c |-> c, by |-> a] \in AnyVersion BY DEF AnyVersion
<1>2. row.versions \in Seq(AnyVersion) BY DEF Row
<1>3. PICK v : v = Append(row.versions, [c |-> c, by |-> a]) OBVIOUS
<1>4. /\ v \in Seq(AnyVersion) /\ Len(v) = Len(row.versions) + 1
      /\ \A i \in 1..Len(row.versions) : v[i] = row.versions[i]
      /\ v[Len(row.versions) + 1] = [c |-> c, by |-> a]
  BY <1>1, <1>2, <1>3
<1>5. CASE row.versions # <<>> /\ Text(row) = c
  <2>1. Ingested(row, c, a) = [row EXCEPT !.status = "active", !.versions = @]
    BY <1>5 DEF Ingested
  <2>2. Ingested(row, c, a) \in Row /\ Ingested(row, c, a).versions = row.versions
    BY <2>1 DEF Row
  <2> QED BY <1>2, <2>2 DEF Grown
<1>6. CASE ~(row.versions # <<>> /\ Text(row) = c)
  <2>1. Ingested(row, c, a) = [row EXCEPT !.status = "active", !.versions = v]
    BY <1>6, <1>3 DEF Ingested
  <2>2. Ingested(row, c, a) \in Row /\ Ingested(row, c, a).versions = v
    BY <2>1, <1>4 DEF Row
  <2>3. \A i \in (Len(row.versions) + 1)..Len(v) : v[i].by = a
    BY <1>2, <1>4
  <2> QED BY <1>2, <1>4, <2>2, <2>3 DEF Grown
<1> QED BY <1>5, <1>6

LEMMA SameGrows == ASSUME NEW row \in Row, NEW a PROVE Grown(row, row, a)
<1>1. row.versions \in Seq(AnyVersion) BY DEF Row
<1> QED BY <1>1 DEF Grown

LEMMA GrowthComposes ==
  ASSUME NEW x \in Row, NEW y \in Row, NEW z \in Row, NEW a, Grown(x, y, a), Grown(y, z, a)
  PROVE  Grown(x, z, a)
<1>1. Len(x.versions) \in Nat /\ Len(y.versions) \in Nat /\ Len(z.versions) \in Nat
  BY DEF Row
<1>2. Len(x.versions) <= Len(z.versions) BY <1>1 DEF Grown
<1>3. \A i \in 1..Len(x.versions) : z.versions[i] = x.versions[i]
  BY <1>1 DEF Grown
<1>4. ASSUME NEW i \in (Len(x.versions) + 1)..Len(z.versions) PROVE z.versions[i].by = a
  <2>1. CASE i <= Len(y.versions)
    <3>1. i \in (Len(x.versions) + 1)..Len(y.versions) /\ i \in 1..Len(y.versions)
      BY <1>1, <2>1
    <3> QED BY <3>1 DEF Grown
  <2>2. CASE ~(i <= Len(y.versions))
    <3>1. i \in (Len(y.versions) + 1)..Len(z.versions) BY <1>1, <2>2
    <3> QED BY <3>1 DEF Grown
  <2> QED BY <2>1, <2>2
<1> QED BY <1>2, <1>3, <1>4 DEF Grown

LEMMA RemarkedGrows ==
  ASSUME NEW row \in Row, NEW new \in Row, new.versions = row.versions, NEW a
  PROVE  Grown(row, new, a)
<1>1. row.versions \in Seq(AnyVersion) BY DEF Row
<1> QED BY <1>1 DEF Grown

(* What holds of all versions is kept by a step after which every resource   *)
(* has grown by versions of one author, who, if it is a proposal, is         *)
(* confirmed and was based on what the resource was.                         *)
LEMMA VersionsKept ==
  ASSUME Shapes, OnlyConfirmedWrite, VersionsStand, NEW a \in Authors,
         \A r \in Resources : Grown(res[r], res'[r], a),
         \A p \in Proposals : prop[p].status = "confirmed" => prop'[p] = prop[p],
         a # Direct =>
           /\ prop'[a].status = "confirmed" /\ prop'[a].items \in Seq(AnyItem)
           /\ \A r \in Resources : Len(res'[r].versions) > Len(res[r].versions) =>
                \E n \in 1..Len(prop'[a].items) :
                  /\ prop'[a].items[n].r = r
                  /\ prop'[a].items[n].base = Len(res[r].versions)
  PROVE  OnlyConfirmedWrite' /\ VersionsStand'
<1> SUFFICES ASSUME NEW r \in Resources, NEW i \in 1..Len(res'[r].versions),
                    res'[r].versions[i].by # Direct
             PROVE  /\ prop'[res'[r].versions[i].by].status = "confirmed"
                    /\ Stands(res'[r].versions, prop'[res'[r].versions[i].by].items, r, i)
  BY DEF OnlyConfirmedWrite, VersionsStand
<1>1. PICK old : old = res[r].versions OBVIOUS
<1>2. PICK vs : vs = res'[r].versions OBVIOUS
<1>3. PICK q : q = vs[i].by OBVIOUS
<1>4. old \in Seq(AnyVersion) /\ vs \in Seq(AnyVersion)
  BY <1>1, <1>2 DEF Shapes, Grown, Row
<1>5. /\ Len(old) <= Len(vs) /\ \A j \in 1..Len(old) : vs[j] = old[j]
      /\ \A j \in (Len(old) + 1)..Len(vs) : vs[j].by = a
  BY <1>1, <1>2 DEF Grown
<1>6. q # Direct BY <1>2, <1>3
<1>7. CASE i <= Len(old)
  <2>1. i \in 1..Len(old) /\ vs[i] = old[i] BY <1>4, <1>5, <1>7
  <2>2. q = old[i].by BY <2>1, <1>3
  <2>3. q \in Proposals
    <3>1. old[i] \in AnyVersion BY <1>4, <2>1
    <3>2. old[i].by \in Authors BY <3>1 DEF AnyVersion
    <3> QED BY <3>2, <2>2, <1>6 DEF Authors
  <2>4. prop[q].status = "confirmed" BY <1>1, <1>6, <2>1, <2>2 DEF OnlyConfirmedWrite
  <2>5. prop'[q] = prop[q] BY <2>3, <2>4
  <2>6. Stands(old, prop[q].items, r, i) BY <1>1, <1>6, <2>1, <2>2 DEF VersionsStand
  <2>7. Len(prop[q].items) \in Nat /\ \A n \in 1..Len(prop[q].items) : prop[q].items[n].base \in Nat
    <3>1. prop[q].items \in Seq(AnyItem) BY <2>3 DEF Shapes, PropRow
    <3>2. Len(prop[q].items) \in Nat /\ \A n \in 1..Len(prop[q].items) : prop[q].items[n] \in AnyItem
      BY <3>1
    <3>3. \A x \in AnyItem : x.base \in Nat BY DEF AnyItem
    <3> QED BY <3>2, <3>3
  <2>8. Stands(vs, prop[q].items, r, i)
    <3>1. PICK n \in 1..Len(prop[q].items) :
            /\ prop[q].items[n].r = r /\ prop[q].items[n].base < i
            /\ \A j \in (prop[q].items[n].base + 1)..i : old[j].by = old[i].by
      BY <2>6 DEF Stands
    <3>2. ASSUME NEW j \in (prop[q].items[n].base + 1)..i PROVE vs[j].by = vs[i].by
      <4>1. j \in 1..Len(old) BY <1>4, <1>7, <2>7
      <4> QED BY <4>1, <2>1, <3>1, <1>5
    <3> QED BY <3>1, <3>2 DEF Stands
  <2> QED BY <2>4, <2>5, <2>8, <1>2, <1>3
<1>8. CASE ~(i <= Len(old))
  <2>1. i \in (Len(old) + 1)..Len(vs) BY <1>2, <1>4, <1>8
  <2>2. q = a BY <2>1, <1>3, <1>5
  <2>3. Len(vs) > Len(old) BY <2>1, <1>4
  <2>4. PICK n \in 1..Len(prop'[a].items) :
          prop'[a].items[n].r = r /\ prop'[a].items[n].base = Len(old)
    BY <2>2, <2>3, <1>1, <1>2, <1>6
  <2>5. Stands(vs, prop'[a].items, r, i)
    <3>1. \A j \in (Len(old) + 1)..i : vs[j].by = a BY <1>4, <1>5, <2>1
    <3>2. Len(old) < i /\ vs[i].by = a BY <1>3, <1>4, <2>1, <2>2
    <3> QED BY <3>1, <3>2, <2>4 DEF Stands
  <2> QED BY <2>2, <2>5, <1>2, <1>3, <1>6
<1> QED BY <1>7, <1>8, <1>2, <1>4

-----------------------------------------------------------------------------
(* Steps that make no version. *)

LEMMA InitInv == StoreInit => IInv
<1> SUFFICES ASSUME StoreInit PROVE IInv OBVIOUS
<1>1. NoResource \in Row BY DEF NoResource, Row, Marks
<1>2. NoProposal \in PropRow BY DEF NoProposal, PropRow
<1>3. Shapes BY <1>1, <1>2 DEF StoreInit, Shapes, NoProposal, RuleStatus, Idle
<1>4. \A r \in Resources : Len(res[r].versions) = 0 BY DEF StoreInit, NoResource
<1>5. OnlyConfirmedWrite /\ VersionsStand BY <1>4 DEF OnlyConfirmedWrite, VersionsStand
<1>6. AuditMatches BY DEF StoreInit, AuditMatches, NoProposal
<1> QED BY <1>3, <1>5, <1>6 DEF IInv

LEMMA RemarkInv ==
  ASSUME IInv, res' \in [Resources -> Row],
         \A r \in Resources : res'[r].versions = res[r].versions,
         UNCHANGED <<prop, audit, rule>>,
         \A d \in con'.dups \cup con'.link : d[1] \in Resources
  PROVE  IInv'
<1>1. Shapes' BY DEF IInv, Shapes
<1>2. \A r \in Resources : Grown(res[r], res'[r], Direct)
  BY RemarkedGrows DEF IInv, Shapes
<1>3. OnlyConfirmedWrite' /\ VersionsStand' BY <1>2, VersionsKept DEF IInv, Authors
<1>4. AuditMatches' BY DEF IInv, AuditMatches
<1> QED BY <1>1, <1>3, <1>4 DEF IInv

LEMMA RuleInv ==
  ASSUME IInv, UNCHANGED <<res, prop, audit, con>>, rule' \in [Rules -> RuleStatus]
  PROVE  IInv'
<1>1. Shapes' BY DEF IInv, Shapes
<1>2. OnlyConfirmedWrite' /\ VersionsStand' /\ AuditMatches'
  BY DEF IInv, OnlyConfirmedWrite, VersionsStand, AuditMatches
<1> QED BY <1>1, <1>2 DEF IInv

LEMMA RuleStepInv ==
  ASSUME IInv, NEW u \in Rules, NEW from, NEW to \in RuleStatus, RuleStep(u, from, to)
  PROVE  IInv'
<1>1. rule' \in [Rules -> RuleStatus] BY DEF RuleStep, IInv, Shapes
<1> QED BY <1>1, RuleInv DEF RuleStep

LEMMA ArchiveInv ==
  ASSUME IInv, NEW r \in Resources, ArchiveResource(r) PROVE IInv'
<1>1. \A row \in Row : /\ [row EXCEPT !.status = "archived"] \in Row
                        /\ [row EXCEPT !.status = "archived"].versions = row.versions
  BY DEF Row
<1>2. res' = [res EXCEPT ![r] = [res[r] EXCEPT !.status = "archived"]] BY DEF ArchiveResource
<1>3. res \in [Resources -> Row] BY DEF IInv, Shapes
<1>4. res' \in [Resources -> Row] /\ \A x \in Resources : res'[x].versions = res[x].versions
  BY <1>1, <1>2, <1>3
<1>5. \A d \in con'.dups \cup con'.link : d[1] \in Resources
  BY DEF ArchiveResource, IInv, Shapes
<1> QED BY <1>4, <1>5, RemarkInv DEF ArchiveResource

LEMMA ConsolidateInv == ASSUME IInv, Consolidate PROVE IInv'
<1>0. res \in [Resources -> Row] /\ \A d \in con.dups \cup con.link : d[1] \in Resources
  BY DEF IInv, Shapes
<1>1. CASE ScanResources
  <2>1. PICK S : S = {r \in Resources : res[r].status = "active"} OBVIOUS
  <2>2. con' = [busy |-> TRUE, dups |-> Dups(S), link |-> {}, clash |-> Clashes(S)]
    BY <1>1, <2>1 DEF ScanResources
  <2>3. ASSUME NEW T, NEW key, NEW d \in Duplicates(T, key) PROVE d[1] \in T
    <3>1. PICK r \in T : d = <<r, Newest({s \in T : key[s] = key[r]})>> BY DEF Duplicates
    <3> QED BY <3>1
  <2>4. \A d \in Dups(S) : d[1] \in S BY ONLY <2>3 DEF Dups
  <2>5. \A d \in con'.dups \cup con'.link : d[1] \in Resources BY <2>1, <2>2, <2>4
  <2>6. UNCHANGED <<res, prop, audit, rule>> BY <1>1 DEF ScanResources
  <2> QED BY <1>0, <2>5, <2>6, RemarkInv
<1>2. CASE MarkDuplicate
  <2>1. PICK d \in con.dups :
          /\ res' = [res EXCEPT ![d[1]] = [res[d[1]] EXCEPT !.mark = "superseded"]]
          /\ con' = [con EXCEPT !.dups = @ \ {d}, !.link = {d}]
    BY <1>2 DEF MarkDuplicate
  <2>2. \A row \in Row : /\ [row EXCEPT !.mark = "superseded"] \in Row
                          /\ [row EXCEPT !.mark = "superseded"].versions = row.versions
    BY DEF Row, Marks
  <2>3. res' \in [Resources -> Row] /\ \A x \in Resources : res'[x].versions = res[x].versions
    BY <1>0, <2>1, <2>2
  <2>4. \A e \in con'.dups \cup con'.link : e[1] \in Resources BY <1>0, <2>1
  <2> QED BY <1>2, <2>3, <2>4, RemarkInv DEF MarkDuplicate
<1>3. CASE SetSupersedes
  <2>1. PICK d \in con.link : res' = [res EXCEPT ![d[2]] = [res[d[2]] EXCEPT !.supersedes = {d[1]}]]
    BY <1>3 DEF SetSupersedes
  <2>2. \A row \in Row : /\ [row EXCEPT !.supersedes = {d[1]}] \in Row
                          /\ [row EXCEPT !.supersedes = {d[1]}].versions = row.versions
    BY <1>0 DEF Row
  <2>3. res' \in [Resources -> Row] /\ \A x \in Resources : res'[x].versions = res[x].versions
    BY <1>0, <2>1, <2>2
  <2>4. \A e \in con'.dups \cup con'.link : e[1] \in Resources BY <1>0, <1>3 DEF SetSupersedes
  <2> QED BY <1>3, <2>3, <2>4, RemarkInv DEF SetSupersedes
<1>4. CASE MarkConflict
  <2>1. PICK r \in con.clash :
          /\ res' = [res EXCEPT ![r] = [res[r] EXCEPT !.mark = "conflict"]]
          /\ con' = [con EXCEPT !.clash = @ \ {r}]
    BY <1>4 DEF MarkConflict
  <2>2. \A row \in Row : /\ [row EXCEPT !.mark = "conflict"] \in Row
                          /\ [row EXCEPT !.mark = "conflict"].versions = row.versions
    BY DEF Row, Marks
  <2>3. res' \in [Resources -> Row] /\ \A x \in Resources : res'[x].versions = res[x].versions
    BY <1>0, <2>1, <2>2
  <2>4. \A e \in con'.dups \cup con'.link : e[1] \in Resources BY <1>0, <2>1
  <2> QED BY <1>4, <2>3, <2>4, RemarkInv DEF MarkConflict
<1>5. CASE EndConsolidation
  <2>1. \A e \in con'.dups \cup con'.link : e[1] \in Resources
    BY <1>5 DEF EndConsolidation, Idle
  <2> QED BY <1>0, <1>5, <2>1, RemarkInv DEF EndConsolidation
<1> QED BY <1>1, <1>2, <1>3, <1>4, <1>5 DEF Consolidate

-----------------------------------------------------------------------------
(* Proposals and decisions. *)

(* a step that writes one proposal, which is not confirmed yet, and its      *)
(* audit trail, keeps the rest                                               *)
LEMMA PropShapes ==
  ASSUME Shapes, NEW p \in Proposals, NEW row \in PropRow, Len(row.items) \in {1, 2},
         NEW trail \in Seq({"proposed", "confirmed", "rejected", "conflict"}),
         prop' = [prop EXCEPT ![p] = row], audit' = [audit EXCEPT ![p] = trail],
         res' \in [Resources -> Row], UNCHANGED <<rule, con>>
  PROVE  Shapes'
BY DEF Shapes

LEMMA TrailMatches ==
  ASSUME Shapes, AuditMatches, NEW p \in Proposals, NEW row, NEW trail,
         prop' = [prop EXCEPT ![p] = row], audit' = [audit EXCEPT ![p] = trail],
         \/ row.status = "pending" /\ trail = <<"proposed">>
         \/ row.status \in {"confirmed", "rejected", "conflict"} /\ trail = <<"proposed", row.status>>
  PROVE  AuditMatches'
<1> SUFFICES ASSUME NEW q \in Proposals
             PROVE  /\ prop'[q].status = "none" => audit'[q] = <<>>
                    /\ prop'[q].status = "pending" => audit'[q] = <<"proposed">>
                    /\ prop'[q].status \in {"confirmed", "rejected", "conflict"}
                         => audit'[q] = <<"proposed", prop'[q].status>>
  BY DEF AuditMatches
<1>1. CASE q = p
  <2>1. prop'[q] = row /\ audit'[q] = trail BY <1>1 DEF Shapes
  <2> QED BY <2>1
<1>2. CASE q # p
  <2>1. prop'[q] = prop[q] /\ audit'[q] = audit[q] BY <1>2 DEF Shapes
  <2> QED BY <2>1 DEF AuditMatches
<1> QED BY <1>1, <1>2

LEMMA ProposeInv ==
  ASSUME IInv, NEW p \in Proposals, NEW want \in Seq(Resources \X Contents),
         Len(want) \in {1, 2}, ProposeIngestion(p, want)
  PROVE  IInv'
<1>1. PICK items : items = [i \in DOMAIN want |->
                              [r |-> want[i][1], c |-> want[i][2], base |-> Current(res[want[i][1]])]]
  OBVIOUS
<1>2. PICK row : row = [status |-> "pending", items |-> items] OBVIOUS
<1>3. items \in Seq(AnyItem) /\ Len(items) = Len(want)
  <2>1. ASSUME NEW i \in 1..Len(want)
        PROVE [r |-> want[i][1], c |-> want[i][2], base |-> Current(res[want[i][1]])] \in AnyItem
    <3>1. want[i] \in Resources \X Contents OBVIOUS
    <3>2. want[i][1] \in Resources /\ want[i][2] \in Contents BY <3>1
    <3>3. res[want[i][1]].versions \in Seq(AnyVersion) BY <3>2 DEF IInv, Shapes, Row
    <3>4. Current(res[want[i][1]]) \in Nat BY <3>3 DEF Current
    <3> QED BY <3>2, <3>4 DEF AnyItem
  <2>2. DOMAIN want = 1..Len(want) /\ Len(want) \in Nat OBVIOUS
  <2>3. items \in [1..Len(want) -> AnyItem] BY <1>1, <2>1, <2>2
  <2> QED BY <2>2, <2>3
<1>4. row \in PropRow /\ row.status = "pending" /\ Len(row.items) \in {1, 2}
  BY <1>2, <1>3 DEF PropRow
<1>5. prop' = [prop EXCEPT ![p] = row] BY <1>1, <1>2 DEF ProposeIngestion
<1>6. audit[p] = <<>> BY DEF ProposeIngestion, IInv, AuditMatches
<1>7. Append(audit[p], "proposed") = <<"proposed">> BY <1>6
<1>8. audit' = [audit EXCEPT ![p] = <<"proposed">>] BY <1>7 DEF ProposeIngestion
<1>9. <<"proposed">> \in Seq({"proposed", "confirmed", "rejected", "conflict"}) OBVIOUS
<1>10. res' \in [Resources -> Row] /\ UNCHANGED <<rule, con>>
  BY DEF ProposeIngestion, IInv, Shapes
<1>11. Shapes' BY <1>4, <1>5, <1>8, <1>9, <1>10, PropShapes DEF IInv
<1>12. AuditMatches' BY <1>4, <1>5, <1>8, TrailMatches DEF IInv
<1>13. \A q \in Proposals : prop[q].status = "confirmed" => prop'[q] = prop[q]
  BY <1>5 DEF ProposeIngestion, IInv, Shapes
<1>14. \A r \in Resources : Grown(res[r], res'[r], Direct)
  BY SameGrows DEF ProposeIngestion, IInv, Shapes
<1>15. OnlyConfirmedWrite' /\ VersionsStand' BY <1>13, <1>14, VersionsKept DEF IInv, Authors
<1> QED BY <1>11, <1>12, <1>15 DEF IInv

LEMMA AppendToOne ==
  ASSUME NEW S, NEW a \in S, NEW b \in S PROVE Append(<<a>>, b) = <<a, b>>
<1>1. PICK v : v = Append(<<a>>, b) OBVIOUS
<1>2. PICK w : w = <<a, b>> OBVIOUS
<1>3. <<a>> \in Seq(S) OBVIOUS
<1>4. v \in Seq(S) /\ Len(v) = 2 /\ v[1] = a /\ v[2] = b BY <1>1, <1>3
<1>5. w \in Seq(S) /\ Len(w) = 2 /\ w[1] = a /\ w[2] = b BY <1>2
<1>6. v \in [1..2 -> S] /\ w \in [1..2 -> S] BY <1>4, <1>5
<1>7. \A i \in 1..2 : i = 1 \/ i = 2 OBVIOUS
<1>8. \A i \in 1..2 : v[i] = w[i] BY <1>4, <1>5, <1>7
<1>9. v = w BY <1>6, <1>8
<1> QED BY <1>1, <1>2, <1>9

LEMMA DecideFacts ==
  ASSUME IInv, NEW p \in Proposals, NEW to \in {"confirmed", "rejected", "conflict"},
         prop[p].status = "pending", Decide(p, to), res' \in [Resources -> Row],
         UNCHANGED <<rule, con>>
  PROVE  /\ Shapes' /\ AuditMatches'
         /\ \A q \in Proposals : prop[q].status = "confirmed" => prop'[q] = prop[q]
         /\ prop'[p].status = to /\ prop'[p].items = prop[p].items
<1>1. prop[p] \in PropRow /\ Len(prop[p].items) \in {1, 2} BY DEF IInv, Shapes
<1>2. PICK row : row = [prop[p] EXCEPT !.status = to] OBVIOUS
<1>3. row \in PropRow /\ row.status = to /\ row.items = prop[p].items BY <1>1, <1>2 DEF PropRow
<1>4. prop' = [prop EXCEPT ![p] = row] BY <1>2 DEF Decide
<1>5. audit[p] = <<"proposed">> BY DEF IInv, AuditMatches
<1>6. Append(<<"proposed">>, to) = <<"proposed", to>>
  <2>1. \A S : \A a \in S, b \in S : Append(<<a>>, b) = <<a, b>> BY AppendToOne
  <2>2. PICK S : S = {"proposed", "confirmed", "rejected", "conflict"} OBVIOUS
  <2>3. "proposed" \in S /\ to \in S BY <2>2
  <2> QED BY <2>1, <2>3, Zenon
<1>7. audit' = [audit EXCEPT ![p] = <<"proposed", to>>] BY <1>5, <1>6 DEF Decide
<1>8. <<"proposed", to>> \in Seq({"proposed", "confirmed", "rejected", "conflict"}) OBVIOUS
<1>9. Shapes' BY <1>1, <1>3, <1>4, <1>7, <1>8, PropShapes DEF IInv
<1>10. AuditMatches' BY <1>3, <1>4, <1>7, TrailMatches DEF IInv
<1>11. \A q \in Proposals : prop[q].status = "confirmed" => prop'[q] = prop[q]
  BY <1>4 DEF IInv, Shapes
<1>12. prop'[p] = row BY <1>4 DEF IInv, Shapes
<1> QED BY <1>3, <1>9, <1>10, <1>11, <1>12

(* rejected, or in conflict with a source that changed *)
LEMMA RefuseInv ==
  ASSUME IInv, NEW p \in Proposals, RejectIngestion(p) \/ ConfirmConflicts(p)
  PROVE  IInv'
<1>1. PICK to \in {"rejected", "conflict"} : Decide(p, to)
  BY DEF RejectIngestion, ConfirmConflicts
<1>2. prop[p].status = "pending" /\ UNCHANGED <<res, rule, con>>
  BY DEF RejectIngestion, ConfirmConflicts
<1>3. res' \in [Resources -> Row] /\ to \in {"confirmed", "rejected", "conflict"}
  BY <1>2 DEF IInv, Shapes
<1>4. /\ Shapes' /\ AuditMatches'
      /\ \A q \in Proposals : prop[q].status = "confirmed" => prop'[q] = prop[q]
  BY <1>1, <1>2, <1>3, DecideFacts
<1>5. \A r \in Resources : Grown(res[r], res'[r], Direct)
  BY <1>2, SameGrows DEF IInv, Shapes
<1>6. OnlyConfirmedWrite' /\ VersionsStand' BY <1>4, <1>5, VersionsKept DEF IInv, Authors
<1> QED BY <1>4, <1>6 DEF IInv

(* the resources of a confirmed proposal *)
LEMMA WithItemGrows ==
  ASSUME NEW table \in [Resources -> Row], NEW i \in AnyItem, NEW p \in Authors
  PROVE  /\ WithItem(table, i, p) \in [Resources -> Row]
         /\ \A r \in Resources : Grown(table[r], WithItem(table, i, p)[r], p)
         /\ \A r \in Resources : i.r # r => WithItem(table, i, p)[r] = table[r]
<1>1. i.r \in Resources /\ i.c \in Contents BY DEF AnyItem
<1>2. table[i.r] \in Row BY <1>1
<1>3. PICK new : new = Ingested(table[i.r], i.c, p) OBVIOUS
<1>4. Grown(table[i.r], new, p) BY <1>1, <1>2, <1>3, IngestedGrows
<1>5. WithItem(table, i, p) = [table EXCEPT ![i.r] = new] BY <1>3 DEF WithItem
<1>6. new \in Row BY <1>4 DEF Grown
<1>7. WithItem(table, i, p)[i.r] = new BY <1>1, <1>5
<1>8. \A r \in Resources : i.r # r => WithItem(table, i, p)[r] = table[r] BY <1>5
<1>9. \A r \in Resources : Grown(table[r], table[r], p) BY SameGrows
<1> QED BY <1>1, <1>4, <1>5, <1>6, <1>7, <1>8, <1>9

LEMMA WithItemsGrow ==
  ASSUME NEW table \in [Resources -> Row], NEW items \in Seq(AnyItem), Len(items) \in {1, 2},
         NEW p \in Authors
  PROVE  /\ WithItems(table, items, p) \in [Resources -> Row]
         /\ \A r \in Resources : Grown(table[r], WithItems(table, items, p)[r], p)
         /\ \A r \in Resources : (\A n \in 1..Len(items) : items[n].r # r) =>
              WithItems(table, items, p)[r] = table[r]
<1>1. items[1] \in AnyItem OBVIOUS
<1>2. PICK mid : mid = WithItem(table, items[1], p) OBVIOUS
<1>3. /\ mid \in [Resources -> Row] /\ \A r \in Resources : Grown(table[r], mid[r], p)
      /\ \A r \in Resources : items[1].r # r => mid[r] = table[r]
  BY <1>1, <1>2, WithItemGrows
<1>4. CASE Len(items) = 1
  <2>1. WithItems(table, items, p) = mid BY <1>2, <1>4 DEF WithItems
  <2>2. \A r \in Resources : (\A n \in 1..Len(items) : items[n].r # r) => items[1].r # r BY <1>4
  <2> QED BY <2>1, <2>2, <1>3
<1>5. CASE Len(items) = 2
  <2>1. items[2] \in AnyItem
    <3>1. \A n \in 1..Len(items) : items[n] \in AnyItem OBVIOUS
    <3>2. 2 \in 1..Len(items) BY <1>5
    <3> QED BY <3>1, <3>2
  <2>2. PICK end : end = WithItem(mid, items[2], p) OBVIOUS
  <2>3. /\ end \in [Resources -> Row] /\ \A r \in Resources : Grown(mid[r], end[r], p)
        /\ \A r \in Resources : items[2].r # r => end[r] = mid[r]
    BY <2>1, <2>2, <1>3, WithItemGrows
  <2>4. WithItems(table, items, p) = end BY <1>2, <1>5, <2>2 DEF WithItems
  <2>5. \A r \in Resources : Grown(table[r], end[r], p) BY <1>3, <2>3, GrowthComposes
  <2>6. \A r \in Resources : (\A n \in 1..Len(items) : items[n].r # r) =>
          items[1].r # r /\ items[2].r # r
    BY <1>5
  <2>7. \A r \in Resources : (\A n \in 1..Len(items) : items[n].r # r) => end[r] = table[r]
    BY <1>3, <2>3, <2>6
  <2> QED BY <2>3, <2>4, <2>5, <2>7
<1> QED BY <1>4, <1>5

LEMMA ConfirmInv ==
  ASSUME IInv, NEW p \in Proposals, ConfirmIngestion(p) PROVE IInv'
<1>1. PICK items : items = prop[p].items OBVIOUS
<1>2. /\ prop[p].status = "pending" /\ SourcesUnchanged(p) /\ Decide(p, "confirmed")
      /\ res' = WithItems(res, items, p) /\ UNCHANGED <<rule, con>>
  BY <1>1 DEF ConfirmIngestion
<1>3. items \in Seq(AnyItem) /\ Len(items) \in {1, 2}
  BY <1>1, <1>2 DEF IInv, Shapes, PropRow
<1>4. p \in Authors /\ res \in [Resources -> Row] BY DEF Authors, IInv, Shapes
<1>5. /\ res' \in [Resources -> Row]
      /\ \A r \in Resources : Grown(res[r], res'[r], p)
      /\ \A r \in Resources : (\A n \in 1..Len(items) : items[n].r # r) => res'[r] = res[r]
  BY <1>2, <1>3, <1>4, WithItemsGrow
<1>6. /\ Shapes' /\ AuditMatches'
      /\ \A q \in Proposals : prop[q].status = "confirmed" => prop'[q] = prop[q]
      /\ prop'[p].status = "confirmed" /\ prop'[p].items = items
  BY <1>1, <1>2, <1>5, DecideFacts
<1>7. ASSUME NEW r \in Resources, Len(res'[r].versions) > Len(res[r].versions)
      PROVE  \E n \in 1..Len(items) : items[n].r = r /\ items[n].base = Len(res[r].versions)
  <2>1. Len(res[r].versions) \in Nat BY <1>4 DEF Row
  <2>2. res'[r] # res[r] BY <1>7, <2>1
  <2>3. PICK n \in 1..Len(items) : items[n].r = r BY <1>5, <2>2
  <2>4. n \in DOMAIN prop[p].items BY <1>1, <1>3
  <2>5. Current(res[items[n].r]) = items[n].base BY <1>1, <1>2, <2>4 DEF SourcesUnchanged
  <2> QED BY <2>3, <2>5 DEF Current
<1>8. OnlyConfirmedWrite' /\ VersionsStand'
  BY <1>3, <1>4, <1>5, <1>6, <1>7, VersionsKept DEF IInv
<1> QED BY <1>6, <1>8 DEF IInv

LEMMA IngestInv ==
  ASSUME IInv, NEW r \in Resources, NEW c \in Contents, IngestResource(r, c) PROVE IInv'
<1>1. PICK new : new = Ingested(res[r], c, Direct) OBVIOUS
<1>2. res \in [Resources -> Row] /\ Direct \in Authors BY DEF IInv, Shapes, Authors
<1>3. Grown(res[r], new, Direct) BY <1>1, <1>2, IngestedGrows
<1>4. res' = [res EXCEPT ![r] = new] BY <1>1 DEF IngestResource
<1>5. \A x \in Resources : Grown(res[x], res[x], Direct) BY <1>2, SameGrows
<1>6. \A x \in Resources : Grown(res[x], res'[x], Direct) BY <1>2, <1>3, <1>4, <1>5
<1>7. new \in Row BY <1>3 DEF Grown
<1>8. UNCHANGED <<prop, audit, rule, con>> BY DEF IngestResource
<1>9. Shapes' BY <1>2, <1>4, <1>7, <1>8 DEF IInv, Shapes
<1>10. AuditMatches' BY <1>8 DEF IInv, AuditMatches
<1>11. OnlyConfirmedWrite' /\ VersionsStand' BY <1>2, <1>6, <1>8, VersionsKept DEF IInv
<1> QED BY <1>9, <1>10, <1>11 DEF IInv

LEMMA NextInv == ASSUME IInv, [Next]_storeVars PROVE IInv'
<1>1. ASSUME NEW r \in Resources, NEW c \in Contents, IngestResource(r, c) PROVE IInv'
  BY <1>1, IngestInv
<1>2. ASSUME NEW r \in Resources, ArchiveResource(r) PROVE IInv'
  BY <1>2, ArchiveInv
<1>3. ASSUME NEW p \in Proposals, NEW w \in Wanted, ProposeIngestion(p, <<w>>) PROVE IInv'
  <2>1. <<w>> \in Seq(Resources \X Contents) /\ Len(<<w>>) = 1 BY DEF Wanted
  <2> QED BY <1>3, <2>1, ProposeInv
<1>4. ASSUME NEW p \in Proposals, NEW w \in Wanted, NEW x \in Wanted, ProposeIngestion(p, <<w, x>>)
      PROVE  IInv'
  <2>1. <<w, x>> \in Seq(Resources \X Contents) /\ Len(<<w, x>>) = 2 BY DEF Wanted
  <2> QED BY <1>4, <2>1, ProposeInv
<1>5. ASSUME NEW p \in Proposals, ConfirmIngestion(p) \/ ConfirmConflicts(p) \/ RejectIngestion(p)
      PROVE  IInv'
  BY <1>5, ConfirmInv, RefuseInv
<1>6. ASSUME NEW u \in Rules, ProposeRule(u) \/ ConfirmRule(u) \/ RejectRule(u) \/ RevokeRule(u)
      PROVE  IInv'
  BY <1>6, RuleStepInv DEF ProposeRule, ConfirmRule, RejectRule, RevokeRule, RuleStatus
<1>7. CASE Consolidate BY <1>7, ConsolidateInv
<1>8. CASE UNCHANGED storeVars
  BY <1>8 DEF storeVars, IInv, Shapes, OnlyConfirmedWrite, AuditMatches, VersionsStand
<1> QED BY <1>1, <1>2, <1>3, <1>4, <1>5, <1>6, <1>7, <1>8 DEF Next

-----------------------------------------------------------------------------
(* In every reachable state the tables have their shapes, every version a    *)
(* proposal made stands on what that proposal was based on, and the audit    *)
(* trail of a proposal tells its status.                                     *)
THEOREM InductiveInvariant == Spec => []IInv
<1>1. StoreInit => IInv BY InitInv
<1>2. IInv /\ [Next]_storeVars => IInv' BY NextInv
<1> QED BY <1>1, <1>2, PTL DEF Spec

(* A proposal is inert until it is confirmed: nothing else it does makes a   *)
(* version (propose_ingestion, confirm_ingestion, reject_ingestion).         *)
THEOREM InertTheorem == Spec => []InertUntilConfirmed
<1>1. ASSUME IInv PROVE InertUntilConfirmed
  <2>1. \A r \in Resources : DOMAIN res[r].versions = 1..Len(res[r].versions)
    <3>1. \A r \in Resources : res[r].versions \in Seq(AnyVersion) BY <1>1 DEF IInv, Shapes, Row
    <3> QED BY <3>1
  <2>2. \A p \in Proposals : prop[p].status \in {"none", "pending", "confirmed", "rejected", "conflict"}
    BY <1>1 DEF IInv, Shapes, PropRow
  <2>3. ASSUME NEW p \in Proposals
        PROVE  audit[p] = CASE prop[p].status = "none" -> <<>>
                            [] prop[p].status = "pending" -> <<"proposed">>
                            [] OTHER -> <<"proposed", prop[p].status>>
    <3>1. /\ prop[p].status = "none" => audit[p] = <<>>
          /\ prop[p].status = "pending" => audit[p] = <<"proposed">>
          /\ prop[p].status \in {"confirmed", "rejected", "conflict"} => audit[p] = <<"proposed", prop[p].status>>
      BY <1>1 DEF IInv, AuditMatches
    <3> QED BY <2>2, <3>1
  <2> QED BY <1>1, <2>1, <2>3 DEF IInv, OnlyConfirmedWrite, InertUntilConfirmed
<1> QED BY <1>1, InductiveInvariant, PTL

(* Confirming never buries a version the proposer has not seen               *)
(* (confirm_ingestion compares every base version before it writes).         *)
THEOREM NothingBuriedTheorem == Spec => []NothingBuriedUnseen
<1>1. ASSUME IInv PROVE NothingBuriedUnseen
  <2> SUFFICES ASSUME NEW r \in Resources, NEW i \in DOMAIN res[r].versions,
                      res[r].versions[i].by # Direct
               PROVE  \E n \in DOMAIN prop[res[r].versions[i].by].items :
                        /\ prop[res[r].versions[i].by].items[n].r = r
                        /\ prop[res[r].versions[i].by].items[n].base < i
                        /\ \A j \in (prop[res[r].versions[i].by].items[n].base + 1)..i :
                             res[r].versions[j].by = res[r].versions[i].by
    BY DEF NothingBuriedUnseen
  <2>1. res[r].versions \in Seq(AnyVersion) BY <1>1 DEF IInv, Shapes, Row
  <2>2. i \in 1..Len(res[r].versions) /\ res[r].versions[i] \in AnyVersion BY <2>1
  <2>3. res[r].versions[i].by \in Proposals BY <2>2 DEF AnyVersion, Authors
  <2>4. prop[res[r].versions[i].by].items \in Seq(AnyItem) BY <1>1, <2>3 DEF IInv, Shapes, PropRow
  <2>5. DOMAIN prop[res[r].versions[i].by].items = 1..Len(prop[res[r].versions[i].by].items) BY <2>4
  <2>6. Stands(res[r].versions, prop[res[r].versions[i].by].items, r, i)
    BY <1>1, <2>2 DEF IInv, VersionsStand
  <2> QED BY <2>5, <2>6 DEF Stands
<1> QED BY <1>1, InductiveInvariant, PTL

(* What was decided stays decided: no method writes a decided proposal, and  *)
(* a rule is revoked after it was accepted and is never taken up again       *)
(* (confirm_ingestion, reject_ingestion, _decide_rule, revoke_rule).         *)
THEOREM DecisionsTheorem == Spec => DecisionsStand
<1> DEFINE
      Decided(p) == prop[p].status \in {"confirmed", "rejected", "conflict"} => prop'[p] = prop[p]
      RuleStands(u) == /\ rule[u] \in {"rejected", "revoked"} => rule'[u] = rule[u]
                       /\ rule'[u] = "revoked" => rule[u] \in {"accepted", "revoked"}
<1>1. ASSUME IInv, Next
      PROVE  (\A p \in Proposals : Decided(p)) /\ (\A u \in Rules : RuleStands(u))
  <2>1. CASE UNCHANGED <<prop, rule>> BY <2>1
  <2>2. ASSUME NEW q \in Proposals, NEW row, prop[q].status \in {"none", "pending"},
               prop' = [prop EXCEPT ![q] = row], UNCHANGED rule
        PROVE  (\A p \in Proposals : Decided(p)) /\ (\A u \in Rules : RuleStands(u))
    BY <1>1, <2>2 DEF IInv, Shapes
  <2>3. ASSUME NEW q \in Proposals, NEW to, prop[q].status = "pending", Decide(q, to), UNCHANGED rule
        PROVE  (\A p \in Proposals : Decided(p)) /\ (\A u \in Rules : RuleStands(u))
    <3>1. PICK row : row = [prop[q] EXCEPT !.status = to] OBVIOUS
    <3>2. prop' = [prop EXCEPT ![q] = row] BY <2>3, <3>1 DEF Decide
    <3> QED BY <2>2, <2>3, <3>2
  <2>4. ASSUME NEW q \in Proposals, NEW want, ProposeIngestion(q, want)
        PROVE  (\A p \in Proposals : Decided(p)) /\ (\A u \in Rules : RuleStands(u))
    <3>1. \E row : prop' = [prop EXCEPT ![q] = row] BY <2>4 DEF ProposeIngestion
    <3> QED BY <2>2, <2>4, <3>1 DEF ProposeIngestion
  <2>5. ASSUME NEW q \in Proposals, ConfirmIngestion(q) \/ ConfirmConflicts(q) \/ RejectIngestion(q)
        PROVE  (\A p \in Proposals : Decided(p)) /\ (\A u \in Rules : RuleStands(u))
    BY <2>3, <2>5 DEF ConfirmIngestion, ConfirmConflicts, RejectIngestion
  <2>6. ASSUME NEW w \in Rules, ProposeRule(w) \/ ConfirmRule(w) \/ RejectRule(w) \/ RevokeRule(w)
        PROVE  (\A p \in Proposals : Decided(p)) /\ (\A u \in Rules : RuleStands(u))
    <3>1. UNCHANGED prop
      BY <2>6 DEF ProposeRule, ConfirmRule, RejectRule, RevokeRule, RuleStep
    <3>2. PICK from, to : /\ rule[w] = from /\ rule' = [rule EXCEPT ![w] = to]
                          /\ from \notin {"rejected", "revoked"} /\ (to = "revoked" => from = "accepted")
      BY <2>6 DEF ProposeRule, ConfirmRule, RejectRule, RevokeRule, RuleStep
    <3> QED BY <1>1, <3>1, <3>2 DEF IInv, Shapes
  <2>7. CASE Consolidate
    BY <2>1, <2>7 DEF Consolidate, ScanResources, MarkDuplicate, SetSupersedes, MarkConflict, EndConsolidation
  <2>8. ASSUME NEW r \in Resources, ArchiveResource(r) \/ \E c \in Contents : IngestResource(r, c)
        PROVE  UNCHANGED <<prop, rule>>
    BY <2>8 DEF IngestResource, ArchiveResource
  <2> QED BY <1>1, <2>1, <2>4, <2>5, <2>6, <2>7, <2>8 DEF Next
<1>2. IInv /\ [Next]_storeVars
        => [/\ \A p \in Proposals : Decided(p)
            /\ \A u \in Rules : RuleStands(u)]_storeVars
  BY <1>1
<1> QED BY <1>2, InductiveInvariant, PTL DEF Spec, DecisionsStand

-----------------------------------------------------------------------------
(* The causes of the marks.  A consolidation marks what its scan found, so   *)
(* the pairs and the clashes it still has to write must have their causes;   *)
(* texts once said stay in the versions, whatever is ingested in between.    *)
(* That the kept resource of a group is one of the group needs an order of   *)
(* updated_at in which every resource that exists has a place.               *)

Said(r) == {res[r].versions[i].c : i \in 1..Len(res[r].versions)}
Alike(r, s) == r # s /\ \E c \in Said(r), d \in Said(s) : Norm[c] = Norm[d]
Contrary(r, s) == r # s /\ \E c \in Said(r), d \in Said(s) : {c, d} \in Opposed

Present ==
  /\ recency \in Seq(Resources)
  /\ \A r \in Resources : res[r].status # "none" =>
       Len(res[r].versions) > 0 /\ \E i \in 1..Len(recency) : recency[i] = r

Causes ==
  /\ DOMAIN con = {"busy", "dups", "link", "clash"}
  /\ \A d \in con.dups \cup con.link : d \in Pairs /\ Alike(d[1], d[2])
  /\ \A r \in con.clash : r \in Resources /\ \E s \in Resources : Contrary(r, s)
  /\ \A r \in Resources :
       /\ res[r].mark = "superseded" => \E s \in Resources : Alike(r, s)
       /\ res[r].mark = "conflict" => \E s \in Resources : Contrary(r, s)

CInv == IInv /\ Present /\ Causes

LEMMA GrownSays ==
  ASSUME IInv, \A r \in Resources : \E a : Grown(res[r], res'[r], a)
  PROVE  \A r \in Resources : Said(r) \subseteq Said(r)'
<1> SUFFICES ASSUME NEW r \in Resources, NEW i \in 1..Len(res[r].versions)
             PROVE  res[r].versions[i].c \in Said(r)'
  BY DEF Said
<1>1. PICK a : Grown(res[r], res'[r], a) OBVIOUS
<1>2. res'[r] \in Row /\ res[r] \in Row BY <1>1 DEF Grown, IInv, Shapes
<1>3. Len(res[r].versions) \in Nat /\ Len(res'[r].versions) \in Nat BY <1>2 DEF Row
<1>4. i \in 1..Len(res'[r].versions) /\ res'[r].versions[i] = res[r].versions[i]
  BY <1>1, <1>3 DEF Grown
<1> QED BY <1>4 DEF Said

(* the marks of a step that only writes causes that are known *)
LEMMA CausesKept ==
  ASSUME Causes, DOMAIN con' = DOMAIN con, \A r \in Resources : Said(r) \subseteq Said(r)',
         \A d \in con'.dups \cup con'.link : d \in con.dups \cup con.link \/ (d \in Pairs /\ Alike(d[1], d[2])),
         \A r \in con'.clash : r \in con.clash \/ (r \in Resources /\ \E s \in Resources : Contrary(r, s)),
         \A r \in Resources :
           /\ res'[r].mark = "superseded" => res[r].mark = "superseded" \/ \E d \in con.dups : d[1] = r
           /\ res'[r].mark = "conflict" => res[r].mark = "conflict" \/ r \in con.clash
  PROVE  Causes'
<1>1. ASSUME NEW r \in Resources, NEW s \in Resources PROVE Alike(r, s) => Alike(r, s)'
  <2>1. Said(r) \subseteq Said(r)' /\ Said(s) \subseteq Said(s)' OBVIOUS
  <2> QED BY <2>1 DEF Alike
<1>2. ASSUME NEW r \in Resources, NEW s \in Resources PROVE Contrary(r, s) => Contrary(r, s)'
  <2>1. Said(r) \subseteq Said(r)' /\ Said(s) \subseteq Said(s)' OBVIOUS
  <2> QED BY <2>1 DEF Contrary
<1>3. ASSUME NEW d \in con'.dups \cup con'.link PROVE d \in Pairs /\ Alike(d[1], d[2])'
  <2>1. d \in Pairs /\ Alike(d[1], d[2]) BY <1>3 DEF Causes
  <2>2. d[1] \in Resources /\ d[2] \in Resources BY <2>1 DEF Pairs
  <2> QED BY <1>1, <2>1, <2>2
<1>4. ASSUME NEW r \in con'.clash PROVE r \in Resources /\ \E s \in Resources : Contrary(r, s)'
  <2>1. r \in Resources /\ \E s \in Resources : Contrary(r, s) BY <1>4 DEF Causes
  <2> QED BY <1>2, <2>1
<1>5. ASSUME NEW r \in Resources, res'[r].mark = "superseded" PROVE \E s \in Resources : Alike(r, s)'
  <2>1. \E s \in Resources : Alike(r, s)
    <3>1. CASE res[r].mark = "superseded" BY <3>1 DEF Causes
    <3>2. CASE \E d \in con.dups : d[1] = r
      <4>1. PICK d \in con.dups : d[1] = r BY <3>2
      <4>2. d \in Pairs /\ Alike(d[1], d[2]) BY <4>1 DEF Causes
      <4>3. d[2] \in Resources BY <4>2 DEF Pairs
      <4> QED BY <4>1, <4>2, <4>3
    <3> QED BY <1>5, <3>1, <3>2
  <2> QED BY <1>1, <2>1
<1>6. ASSUME NEW r \in Resources, res'[r].mark = "conflict" PROVE \E s \in Resources : Contrary(r, s)'
  <2>1. \E s \in Resources : Contrary(r, s) BY <1>6 DEF Causes
  <2> QED BY <1>2, <2>1
<1>7. DOMAIN con' = {"busy", "dups", "link", "clash"} BY DEF Causes
<1> QED BY <1>3, <1>4, <1>5, <1>6, <1>7 DEF Causes

(* a step that finds nothing new *)
LEMMA CausesRemain ==
  ASSUME Causes, DOMAIN con' = DOMAIN con, \A r \in Resources : Said(r) \subseteq Said(r)',
         con'.dups \cup con'.link \subseteq con.dups \cup con.link, con'.clash \subseteq con.clash,
         \A r \in Resources :
           \/ res'[r].mark = res[r].mark
           \/ res'[r].mark = "superseded" /\ \E d \in con.dups : d[1] = r
           \/ res'[r].mark = "conflict" /\ r \in con.clash
  PROVE  Causes'
<1>1. \A d \in con'.dups \cup con'.link : d \in con.dups \cup con.link \/ (d \in Pairs /\ Alike(d[1], d[2]))
  OBVIOUS
<1>2. \A r \in con'.clash : r \in con.clash \/ (r \in Resources /\ \E s \in Resources : Contrary(r, s))
  OBVIOUS
<1>3. \A r \in Resources :
        /\ res'[r].mark = "superseded" => res[r].mark = "superseded" \/ \E d \in con.dups : d[1] = r
        /\ res'[r].mark = "conflict" => res[r].mark = "conflict" \/ r \in con.clash
  OBVIOUS
<1> QED BY <1>1, <1>2, <1>3, CausesKept

(* a resource that is touched is in the order, and the others remain in it *)
LEMMA TouchFacts ==
  ASSUME NEW seq \in Seq(Resources), NEW r \in Resources
  PROVE  /\ Touch(r, seq) \in Seq(Resources)
         /\ \E i \in 1..Len(Touch(r, seq)) : Touch(r, seq)[i] = r
         /\ \A j \in 1..Len(seq) : \E i \in 1..Len(Touch(r, seq)) : Touch(r, seq)[i] = seq[j]
<1>0. PICK T : T = Resources \ {r} OBVIOUS
<1>a. /\ Selected(seq, T) \in Seq(Resources)
      /\ \A j \in 1..Len(seq) : seq[j] \in T =>
           \E i \in 1..Len(Selected(seq, T)) : Selected(seq, T)[i] = seq[j]
  BY SelectedElements
<1>1. PICK w : w = Selected(seq, T) OBVIOUS
<1>2. /\ w \in Seq(Resources)
      /\ \A j \in 1..Len(seq) : seq[j] \in T => \E i \in 1..Len(w) : w[i] = seq[j]
  BY <1>a, <1>1
<1>3. PICK t : t = <<r>> \o w OBVIOUS
<1>4. /\ t \in Seq(Resources) /\ Len(w) \in Nat /\ Len(t) = Len(w) + 1
      /\ t[1] = r /\ \A i \in 1..Len(w) : t[i + 1] = w[i]
  BY <1>2, <1>3
<1>5. 1 \in 1..Len(t) /\ \A i \in 1..Len(w) : i + 1 \in 1..Len(t) BY <1>4
<1>6. Touch(r, seq) = t BY <1>0, <1>1, <1>3 DEF Touch
<1>7. ASSUME NEW j \in 1..Len(seq) PROVE \E i \in 1..Len(t) : t[i] = seq[j]
  <2>1. CASE seq[j] = r BY <1>4, <1>5, <2>1
  <2>2. CASE seq[j] # r
    <3>1. seq[j] \in T BY <1>0, <2>2
    <3>2. PICK i \in 1..Len(w) : w[i] = seq[j] BY <1>2, <3>1
    <3> QED BY <1>4, <1>5, <3>2
  <2> QED BY <2>1, <2>2
<1> QED BY <1>4, <1>5, <1>6, <1>7

LEMMA IngestedPresent ==
  ASSUME NEW row \in Row, NEW c \in Contents, NEW a \in Authors
  PROVE  Ingested(row, c, a).mark = row.mark /\ Len(Ingested(row, c, a).versions) > 0
<1>1. PICK vs : vs = row.versions OBVIOUS
<1>2. vs \in Seq(AnyVersion) BY <1>1 DEF Row
<1>3. PICK v : v = Append(vs, [c |-> c, by |-> a]) OBVIOUS
<1>4. CASE vs # <<>> /\ Text(row) = c
  <2>1. Ingested(row, c, a) = [row EXCEPT !.status = "active", !.versions = vs]
    BY <1>1, <1>4 DEF Ingested
  <2>2. Len(vs) > 0 BY <1>2, <1>4
  <2>3. Ingested(row, c, a).versions = vs /\ Ingested(row, c, a).mark = row.mark BY <2>1 DEF Row
  <2> QED BY <2>2, <2>3
<1>5. CASE ~(vs # <<>> /\ Text(row) = c)
  <2>1. Ingested(row, c, a) = [row EXCEPT !.status = "active", !.versions = v]
    BY <1>1, <1>3, <1>5 DEF Ingested
  <2>2. [c |-> c, by |-> a] \in AnyVersion BY DEF AnyVersion
  <2>3. Len(v) > 0 BY <1>2, <1>3, <2>2
  <2>4. Ingested(row, c, a).versions = v /\ Ingested(row, c, a).mark = row.mark BY <2>1 DEF Row
  <2> QED BY <2>3, <2>4
<1> QED BY <1>4, <1>5

LEMMA IngestPresent ==
  ASSUME CInv, NEW r \in Resources, NEW c \in Contents, IngestResource(r, c)
  PROVE  Present' /\ \A x \in Resources : res'[x].mark = res[x].mark
<1>1. PICK new : new = Ingested(res[r], c, Direct) OBVIOUS
<1>2. res \in [Resources -> Row] /\ Direct \in Authors BY DEF CInv, IInv, Shapes, Authors
<1>3. new.mark = res[r].mark /\ Len(new.versions) > 0 BY <1>1, <1>2, IngestedPresent
<1>4. /\ res' = [res EXCEPT ![r] = new] /\ recency' = Touch(r, recency)
      /\ recency \in Seq(Resources)
  BY <1>1 DEF IngestResource, CInv, Present
<1>5. \A x \in Resources : x # r => res'[x] = res[x] BY <1>2, <1>4
<1>6. res'[r] = new BY <1>2, <1>4
<1>a. PICK new2 : new2 = Touch(r, recency) OBVIOUS
<1>b. /\ new2 \in Seq(Resources) /\ \E i \in 1..Len(new2) : new2[i] = r
      /\ \A j \in 1..Len(recency) : \E i \in 1..Len(new2) : new2[i] = recency[j]
  BY <1>4, <1>a, TouchFacts
<1>c. recency' = new2 BY <1>4, <1>a
<1>d. ASSUME NEW x \in Resources, res'[x].status # "none"
      PROVE  Len(res'[x].versions) > 0 /\ \E i \in 1..Len(new2) : new2[i] = x
  <2>1. CASE x = r BY <1>3, <1>6, <1>b, <2>1
  <2>2. CASE x # r
    <3>1. Len(res[x].versions) > 0 /\ \E j \in 1..Len(recency) : recency[j] = x
      BY <1>5, <1>d, <2>2 DEF CInv, Present
    <3> QED BY <1>5, <1>b, <2>2, <3>1
  <2> QED BY <2>1, <2>2
<1>7. Present' BY <1>b, <1>c, <1>d DEF Present
<1> QED BY <1>3, <1>5, <1>6, <1>7

LEMMA ItemsPresent ==
  ASSUME NEW table \in [Resources -> Row], NEW items \in Seq(AnyItem), Len(items) \in {1, 2},
         NEW p \in Authors
  PROVE  /\ \A r \in Resources : WithItems(table, items, p)[r].mark = table[r].mark
         /\ \A n \in 1..Len(items) : Len(WithItems(table, items, p)[items[n].r].versions) > 0
<1>1. ASSUME NEW tab \in [Resources -> Row], NEW i \in AnyItem
      PROVE  /\ \A r \in Resources : WithItem(tab, i, p)[r].mark = tab[r].mark
             /\ Len(WithItem(tab, i, p)[i.r].versions) > 0
  <2>1. i.r \in Resources /\ i.c \in Contents /\ tab[i.r] \in Row BY DEF AnyItem
  <2>2. PICK new : new = Ingested(tab[i.r], i.c, p) OBVIOUS
  <2>3. new.mark = tab[i.r].mark /\ Len(new.versions) > 0 BY <2>1, <2>2, IngestedPresent
  <2>4. WithItem(tab, i, p) = [tab EXCEPT ![i.r] = new] BY <2>2 DEF WithItem
  <2> QED BY <2>1, <2>3, <2>4
<1>2. \A n \in 1..Len(items) : items[n] \in AnyItem OBVIOUS
<1>3. PICK mid : mid = WithItem(table, items[1], p) OBVIOUS
<1>4. /\ mid \in [Resources -> Row] /\ \A r \in Resources : mid[r].mark = table[r].mark
      /\ Len(mid[items[1].r].versions) > 0
  BY <1>1, <1>2, <1>3, WithItemGrows
<1>5. CASE Len(items) = 1
  <2>1. WithItems(table, items, p) = mid BY <1>3, <1>5 DEF WithItems
  <2>2. \A n \in 1..Len(items) : n = 1 BY <1>5
  <2> QED BY <1>4, <2>1, <2>2
<1>6. CASE Len(items) = 2
  <2>1. PICK end : end = WithItem(mid, items[2], p) OBVIOUS
  <2>2. 1 \in 1..Len(items) /\ 2 \in 1..Len(items) BY <1>6
  <2>3. items[1] \in AnyItem /\ items[2] \in AnyItem BY <1>2, <2>2
  <2>4. /\ \A r \in Resources : end[r].mark = mid[r].mark /\ Grown(mid[r], end[r], p)
        /\ Len(end[items[2].r].versions) > 0
    BY <1>1, <1>4, <2>1, <2>3, WithItemGrows
  <2>5. WithItems(table, items, p) = end BY <1>3, <1>6, <2>1 DEF WithItems
  <2>6. Len(end[items[1].r].versions) > 0
    <3>1. items[1].r \in Resources BY <2>3 DEF AnyItem
    <3>2. Grown(mid[items[1].r], end[items[1].r], p) /\ mid[items[1].r] \in Row BY <1>4, <2>4, <3>1
    <3>3. Len(mid[items[1].r].versions) <= Len(end[items[1].r].versions) /\ end[items[1].r] \in Row
      BY <3>2 DEF Grown
    <3>4. Len(mid[items[1].r].versions) \in Nat /\ Len(end[items[1].r].versions) \in Nat
      BY <3>2, <3>3 DEF Row
    <3> QED BY <1>4, <3>3, <3>4
  <2>7. \A n \in 1..Len(items) : n = 1 \/ n = 2 BY <1>6
  <2> QED BY <1>4, <2>4, <2>5, <2>6, <2>7
<1> QED BY <1>5, <1>6

LEMMA TouchItemsFacts ==
  ASSUME NEW seq \in Seq(Resources), NEW items \in Seq(AnyItem), Len(items) \in {1, 2}
  PROVE  /\ TouchItems(items, seq) \in Seq(Resources)
         /\ \A n \in 1..Len(items) :
              \E i \in 1..Len(TouchItems(items, seq)) : TouchItems(items, seq)[i] = items[n].r
         /\ \A j \in 1..Len(seq) :
              \E i \in 1..Len(TouchItems(items, seq)) : TouchItems(items, seq)[i] = seq[j]
<1>0. \A n \in 1..Len(items) : items[n] \in AnyItem OBVIOUS
<1>1. \A n \in 1..Len(items) : items[n].r \in Resources BY <1>0 DEF AnyItem
<1>2. 1 \in 1..Len(items)
  <2>1. CASE Len(items) = 1 BY <2>1
  <2>2. CASE Len(items) = 2 BY <2>2
  <2> QED BY <2>1, <2>2
<1>3. PICK mid : mid = Touch(items[1].r, seq) OBVIOUS
<1>4. /\ mid \in Seq(Resources) /\ \E i \in 1..Len(mid) : mid[i] = items[1].r
      /\ \A j \in 1..Len(seq) : \E i \in 1..Len(mid) : mid[i] = seq[j]
  BY <1>1, <1>2, <1>3, TouchFacts
<1>5. CASE Len(items) = 1
  <2>1. TouchItems(items, seq) = mid BY <1>3, <1>5 DEF TouchItems
  <2>2. \A n \in 1..Len(items) : n = 1 BY <1>5
  <2> QED BY <1>4, <2>1, <2>2
<1>6. CASE Len(items) = 2
  <2>0. PICK r : r = items[2].r OBVIOUS
  <2>1. PICK end : end = Touch(r, mid) OBVIOUS
  <2>2. r \in Resources
    <3>1. 2 \in 1..Len(items) BY <1>6
    <3> QED BY <1>1, <2>0, <3>1
  <2>3. /\ end \in Seq(Resources) /\ \E i \in 1..Len(end) : end[i] = r
        /\ \A j \in 1..Len(mid) : \E i \in 1..Len(end) : end[i] = mid[j]
    <3>1. mid \in Seq(Resources) BY <1>4
    <3>2. /\ Touch(r, mid) \in Seq(Resources)
          /\ \E i \in 1..Len(Touch(r, mid)) : Touch(r, mid)[i] = r
          /\ \A j \in 1..Len(mid) : \E i \in 1..Len(Touch(r, mid)) : Touch(r, mid)[i] = mid[j]
      BY <2>2, <3>1, TouchFacts
    <3> QED BY <2>1, <3>2
  <2>4. TouchItems(items, seq) = end BY <1>3, <1>6, <2>0, <2>1 DEF TouchItems
  <2>5. \E i \in 1..Len(end) : end[i] = items[1].r BY <1>4, <2>3
  <2>6. \A j \in 1..Len(seq) : \E i \in 1..Len(end) : end[i] = seq[j] BY <1>4, <2>3
  <2>7. \A n \in 1..Len(items) : n = 1 \/ n = 2 BY <1>6
  <2> QED BY <2>0, <2>3, <2>4, <2>5, <2>6, <2>7
<1> QED BY <1>5, <1>6

LEMMA ConfirmPresent ==
  ASSUME CInv, NEW p \in Proposals, ConfirmIngestion(p)
  PROVE  /\ Present' /\ \A r \in Resources : res'[r].mark = res[r].mark
         /\ \A r \in Resources : Grown(res[r], res'[r], p)
<1>1. PICK items : items = prop[p].items OBVIOUS
<1>2. /\ prop[p].status = "pending" /\ res' = WithItems(res, items, p)
      /\ recency' = TouchItems(items, recency) /\ recency \in Seq(Resources)
  BY <1>1 DEF ConfirmIngestion, CInv, Present
<1>3. items \in Seq(AnyItem) /\ Len(items) \in {1, 2}
  BY <1>1, <1>2 DEF CInv, IInv, Shapes, PropRow
<1>4. p \in Authors /\ res \in [Resources -> Row] BY DEF Authors, CInv, IInv, Shapes
<1>5. /\ \A r \in Resources : Grown(res[r], res'[r], p)
      /\ \A r \in Resources : (\A n \in 1..Len(items) : items[n].r # r) => res'[r] = res[r]
  BY <1>2, <1>3, <1>4, WithItemsGrow
<1>6. /\ \A r \in Resources : res'[r].mark = res[r].mark
      /\ \A n \in 1..Len(items) : Len(res'[items[n].r].versions) > 0
  BY <1>2, <1>3, <1>4, ItemsPresent
<1>7. /\ recency' \in Seq(Resources)
      /\ \A n \in 1..Len(items) : \E i \in 1..Len(recency') : recency'[i] = items[n].r
      /\ \A j \in 1..Len(recency) : \E i \in 1..Len(recency') : recency'[i] = recency[j]
  BY <1>2, <1>3, TouchItemsFacts
<1>8. ASSUME NEW r \in Resources, res'[r].status # "none"
      PROVE  Len(res'[r].versions) > 0 /\ \E i \in 1..Len(recency') : recency'[i] = r
  <2>1. CASE \E n \in 1..Len(items) : items[n].r = r BY <1>6, <1>7, <2>1
  <2>2. CASE \A n \in 1..Len(items) : items[n].r # r
    <3>1. res'[r] = res[r] BY <1>5, <2>2
    <3>2. Len(res[r].versions) > 0 /\ \E j \in 1..Len(recency) : recency[j] = r
      BY <1>8, <3>1 DEF CInv, Present
    <3> QED BY <1>7, <3>1, <3>2
  <2> QED BY <2>1, <2>2
<1> QED BY <1>5, <1>6, <1>7, <1>8 DEF Present

(* what a scan finds *)
Actives == {r \in Resources : res[r].status = "active"}

LEMMA NewestInGroup ==
  ASSUME Present, NEW S \in SUBSET Actives, S # {} PROVE Newest(S) \in S
<1> DEFINE P == {Place(r) : r \in S}
<1>1. ASSUME NEW r \in S PROVE Place(r) \in Nat
  <2>1. r \in Resources /\ res[r].status = "active" BY DEF Actives
  <2>2. \E i \in 1..Len(recency) : recency[i] = r BY <2>1 DEF Present
  <2>3. recency \in Seq(Resources) BY DEF Present
  <2>4. DOMAIN recency = 1..Len(recency) BY <2>3
  <2>5. Place(r) \in 1..Len(recency) BY <2>2, <2>4 DEF Place
  <2> QED BY <2>3, <2>5
<1>2. P \subseteq Nat /\ P # {} BY <1>1
<1>3. PICK m \in P : \A k \in P : m <= k
  <2> HIDE DEF P
  <2> QED BY <1>2, LeastElement
<1>4. \E r \in S : \A s \in S : Place(r) <= Place(s) BY <1>3
<1> QED BY <1>4 DEF Newest

LEMMA DuplicatesShare ==
  ASSUME Present, NEW S \in SUBSET Actives, NEW key, NEW d \in Duplicates(S, key)
  PROVE  d \in S \X S /\ d[1] # d[2] /\ key[d[1]] = key[d[2]]
<1>1. PICK r \in S : d = <<r, Newest({s \in S : key[s] = key[r]})>>
                     /\ r # Newest({s \in S : key[s] = key[r]})
  BY DEF Duplicates
<1>2. PICK G : G = {s \in S : key[s] = key[r]} OBVIOUS
<1>3. G \in SUBSET Actives /\ G # {} BY <1>2
<1>4. Newest(G) \in G BY <1>3, NewestInGroup
<1> QED BY <1>1, <1>2, <1>4

LEMMA ActiveSays == ASSUME CInv, NEW r \in Actives PROVE r \in Resources /\ Text(res[r]) \in Said(r)
<1>1. r \in Resources /\ Len(res[r].versions) > 0 BY DEF Actives, CInv, Present
<1>2. res[r] \in Row BY <1>1 DEF CInv, IInv, Shapes
<1>3. Len(res[r].versions) \in Nat BY <1>2 DEF Row
<1>4. Len(res[r].versions) \in 1..Len(res[r].versions) BY <1>1, <1>3
<1> QED BY <1>1, <1>4 DEF Text, Current, Said

LEMMA DupsAreAlike ==
  ASSUME CInv, NEW d \in Dups(Actives) PROVE d \in Pairs /\ Alike(d[1], d[2])
<1> DEFINE key == [r \in Actives |-> Text(res[r])]
           exact == Duplicates(Actives, key)
           left == Actives \ {e[1] : e \in exact}
           norm == [r \in left |-> Norm[Text(res[r])]]
<1>0. Present BY DEF CInv
<1>1. d \in exact \/ d \in Duplicates(left, norm) BY DEF Dups
<1>2. d \in Actives \X Actives /\ d[1] # d[2] /\ Norm[Text(res[d[1]])] = Norm[Text(res[d[2]])]
  <2>1. CASE d \in exact
    <3>1. d \in Actives \X Actives /\ d[1] # d[2] /\ key[d[1]] = key[d[2]]
      <4> HIDE DEF key
      <4> QED BY <1>0, <2>1, DuplicatesShare
    <3> QED BY <3>1
  <2>2. CASE d \in Duplicates(left, norm)
    <3>1. left \in SUBSET Actives OBVIOUS
    <3>2. d \in left \X left /\ d[1] # d[2] /\ norm[d[1]] = norm[d[2]]
      <4> HIDE DEF norm, left
      <4> QED BY <1>0, <2>2, <3>1, DuplicatesShare
    <3> QED BY <3>1, <3>2
  <2> QED BY <1>1, <2>1, <2>2
<1> HIDE DEF key, exact, left, norm
<1>3. d[1] \in Actives /\ d[2] \in Actives /\ d = <<d[1], d[2]>> BY <1>2
<1>4. /\ d[1] \in Resources /\ Text(res[d[1]]) \in Said(d[1])
      /\ d[2] \in Resources /\ Text(res[d[2]]) \in Said(d[2])
  BY <1>3, ActiveSays
<1>5. d \in Pairs BY <1>3, <1>4 DEF Pairs
<1> QED BY <1>2, <1>4, <1>5 DEF Alike

LEMMA ClashesAreContrary ==
  ASSUME CInv, NEW r \in Clashes(Actives)
  PROVE  r \in Resources /\ \E s \in Resources : Contrary(r, s)
<1>1. r \in Actives /\ \E s \in Actives \ {r} : {Text(res[r]), Text(res[s])} \in Opposed BY DEF Clashes
<1>2. PICK s \in Actives \ {r} : {Text(res[r]), Text(res[s])} \in Opposed BY <1>1
<1>3. /\ r \in Resources /\ Text(res[r]) \in Said(r)
      /\ s \in Resources /\ Text(res[s]) \in Said(s)
  BY <1>1, <1>2, ActiveSays
<1>4. Contrary(r, s) BY <1>2, <1>3 DEF Contrary
<1> QED BY <1>3, <1>4

LEMMA CInit == StoreInit => CInv
<1> SUFFICES ASSUME StoreInit PROVE CInv OBVIOUS
<1>1. <<>> \in Seq(Resources) OBVIOUS
<1>2. Present BY <1>1 DEF StoreInit, Present, NoResource
<1>3. Causes BY DEF StoreInit, Causes, NoResource, Idle
<1> QED BY <1>2, <1>3, InitInv DEF CInv

(* a step that leaves the texts and the order alone *)
LEMMA RemarkPresent ==
  ASSUME CInv, IInv', recency' = recency,
         \A r \in Resources : res'[r].versions = res[r].versions /\ res'[r].status = res[r].status
  PROVE  Present' /\ \A r \in Resources : Said(r) \subseteq Said(r)'
<1>1. Present' BY DEF CInv, Present
<1>2. \A r \in Resources : Said(r)' = Said(r) BY DEF Said
<1> QED BY <1>1, <1>2

LEMMA ConsolidateCauses == ASSUME CInv, Consolidate PROVE CInv'
<1>0. IInv /\ IInv' /\ Causes BY ConsolidateInv DEF CInv
<1>1. res \in [Resources -> Row] BY <1>0 DEF IInv, Shapes
<1>b. DOMAIN con = {"busy", "dups", "link", "clash"} BY DEF CInv, Causes
<1>c. con.dups \subseteq con.dups \cup con.link OBVIOUS
<1>2. CASE ScanResources
  <2>1. con' = [busy |-> TRUE, dups |-> Dups(Actives), link |-> {}, clash |-> Clashes(Actives)]
        /\ UNCHANGED <<res, recency>>
    BY <1>2 DEF ScanResources, Actives
  <2>2. Present' /\ \A r \in Resources : Said(r) \subseteq Said(r)' BY <1>0, <2>1, RemarkPresent
  <2>3. \A d \in con'.dups \cup con'.link : d \in Pairs /\ Alike(d[1], d[2])
    BY <2>1, DupsAreAlike
  <2>4. \A r \in con'.clash : r \in Resources /\ \E s \in Resources : Contrary(r, s)
    BY <2>1, ClashesAreContrary
  <2>5. Causes' BY <1>0, <1>b, <2>1, <2>2, <2>3, <2>4, CausesKept
  <2> QED BY <1>0, <2>2, <2>5 DEF CInv
<1>3. CASE MarkDuplicate
  <2>1. PICK d \in con.dups :
          /\ res' = [res EXCEPT ![d[1]] = [res[d[1]] EXCEPT !.mark = "superseded"]]
          /\ con' = [con EXCEPT !.dups = @ \ {d}, !.link = {d}]
    BY <1>3 DEF MarkDuplicate
  <2>2. recency' = recency BY <1>3 DEF MarkDuplicate
  <2>3. d[1] \in Resources BY <1>0 DEF IInv, Shapes
  <2>4. \A r \in Resources : r # d[1] => res'[r] = res[r] BY <1>1, <2>1
  <2>5. /\ res'[d[1]].versions = res[d[1]].versions /\ res'[d[1]].status = res[d[1]].status
        /\ res'[d[1]].mark = "superseded"
    BY <1>1, <2>1, <2>3 DEF Row
  <2>6. Present' /\ \A r \in Resources : Said(r) \subseteq Said(r)'
    BY <1>0, <2>2, <2>4, <2>5, RemarkPresent
  <2>7. con' = [con EXCEPT !.dups = con.dups \ {d}, !.link = {d}] BY <2>1
  <2>8. con'.dups \cup con'.link \subseteq con.dups \cup con.link /\ con'.clash \subseteq con.clash
    BY <1>b, <1>c, <2>7
  <2>9. \A r \in Resources : \/ res'[r].mark = res[r].mark
                             \/ res'[r].mark = "superseded" /\ \E e \in con.dups : e[1] = r
    BY <2>4, <2>5
  <2>10. Causes' BY <1>0, <1>b, <2>6, <2>7, <2>8, <2>9, CausesRemain
  <2> QED BY <1>0, <2>6, <2>10 DEF CInv
<1>4. CASE SetSupersedes
  <2>1. PICK d \in con.link : res' = [res EXCEPT ![d[2]] = [res[d[2]] EXCEPT !.supersedes = {d[1]}]]
    BY <1>4 DEF SetSupersedes
  <2>2. recency' = recency /\ con' = [con EXCEPT !.link = {}] BY <1>4 DEF SetSupersedes
  <2>3. \A r \in Resources : /\ res'[r].versions = res[r].versions /\ res'[r].status = res[r].status
                             /\ res'[r].mark = res[r].mark
    <3> TAKE r \in Resources
    <3>1. CASE r = d[2] BY <1>1, <2>1, <3>1 DEF Row
    <3>2. CASE r # d[2] BY <1>1, <2>1, <3>2
    <3> QED BY <3>1, <3>2
  <2>4. Present' /\ \A r \in Resources : Said(r) \subseteq Said(r)'
    BY <1>0, <2>2, <2>3, RemarkPresent
  <2>5. con'.dups \cup con'.link \subseteq con.dups \cup con.link /\ con'.clash \subseteq con.clash
    BY <1>b, <2>2
  <2>6. Causes' BY <1>0, <1>b, <2>2, <2>3, <2>4, <2>5, CausesRemain
  <2> QED BY <1>0, <2>4, <2>6 DEF CInv
<1>5. CASE MarkConflict
  <2>1. PICK x \in con.clash :
          /\ res' = [res EXCEPT ![x] = [res[x] EXCEPT !.mark = "conflict"]]
          /\ con' = [con EXCEPT !.clash = @ \ {x}]
    BY <1>5 DEF MarkConflict
  <2>2. recency' = recency BY <1>5 DEF MarkConflict
  <2>3. x \in Resources BY <1>0 DEF Causes
  <2>4. \A r \in Resources : r # x => res'[r] = res[r] BY <1>1, <2>1
  <2>5. /\ res'[x].versions = res[x].versions /\ res'[x].status = res[x].status
        /\ res'[x].mark = "conflict"
    BY <1>1, <2>1, <2>3 DEF Row
  <2>6. Present' /\ \A r \in Resources : Said(r) \subseteq Said(r)'
    BY <1>0, <2>2, <2>4, <2>5, RemarkPresent
  <2>7. con' = [con EXCEPT !.clash = con.clash \ {x}] BY <2>1
  <2>8. con'.dups \cup con'.link \subseteq con.dups \cup con.link /\ con'.clash \subseteq con.clash
    BY <1>b, <2>7
  <2>9. \A r \in Resources : res'[r].mark = res[r].mark \/ (res'[r].mark = "conflict" /\ r \in con.clash)
    BY <2>4, <2>5
  <2>10. Causes' BY <1>0, <1>b, <2>6, <2>7, <2>8, <2>9, CausesRemain
  <2> QED BY <1>0, <2>6, <2>10 DEF CInv
<1>6. CASE EndConsolidation
  <2>1. con' = Idle /\ UNCHANGED <<res, recency>> BY <1>6 DEF EndConsolidation
  <2>2. Present' /\ \A r \in Resources : Said(r) \subseteq Said(r)' BY <1>0, <2>1, RemarkPresent
  <2>3. con'.dups \cup con'.link \subseteq con.dups \cup con.link /\ con'.clash \subseteq con.clash
    BY <2>1 DEF Idle
  <2>a. DOMAIN con' = DOMAIN con BY <1>b, <2>1 DEF Idle
  <2>4. Causes' BY <1>0, <2>1, <2>2, <2>3, <2>a, CausesRemain
  <2> QED BY <1>0, <2>2, <2>4 DEF CInv
<1> QED BY <1>2, <1>3, <1>4, <1>5, <1>6 DEF Consolidate

LEMMA WriteCauses ==
  ASSUME CInv, IInv', Present', con' = con, \A r \in Resources : res'[r].mark = res[r].mark,
         \A r \in Resources : \E a : Grown(res[r], res'[r], a)
  PROVE  CInv'
<1>1. \A r \in Resources : Said(r) \subseteq Said(r)' BY GrownSays DEF CInv
<1>2. con'.dups \cup con'.link \subseteq con.dups \cup con.link /\ con'.clash \subseteq con.clash
  OBVIOUS
<1>3. Causes' BY <1>1, <1>2, CausesRemain DEF CInv
<1> QED BY <1>3 DEF CInv

LEMMA CNext == ASSUME CInv, [Next]_storeVars PROVE CInv'
<1>0. IInv /\ IInv' /\ res \in [Resources -> Row] BY NextInv DEF CInv, IInv, Shapes
<1>1. ASSUME NEW r \in Resources, NEW c \in Contents, IngestResource(r, c) PROVE CInv'
  <2>1. Present' /\ \A x \in Resources : res'[x].mark = res[x].mark BY <1>1, IngestPresent
  <2>2. PICK new : new = Ingested(res[r], c, Direct) OBVIOUS
  <2>3. Grown(res[r], new, Direct) BY <1>0, <2>2, IngestedGrows DEF Authors
  <2>4. res' = [res EXCEPT ![r] = new] /\ con' = con BY <1>1, <2>2 DEF IngestResource
  <2>5. \A x \in Resources : Grown(res[x], res[x], Direct) BY <1>0, SameGrows
  <2>6. \A x \in Resources : Grown(res[x], res'[x], Direct) BY <1>0, <2>3, <2>4, <2>5
  <2> QED BY <1>0, <2>1, <2>4, <2>6, WriteCauses
<1>2. ASSUME NEW r \in Resources, ArchiveResource(r) PROVE CInv'
  <2>1. /\ res[r].status = "active" /\ recency' = Touch(r, recency) /\ con' = con
        /\ res' = [res EXCEPT ![r] = [res[r] EXCEPT !.status = "archived"]]
    BY <1>2 DEF ArchiveResource
  <2>2. \A x \in Resources : x # r => res'[x] = res[x] BY <1>0, <2>1
  <2>3. res'[r].versions = res[r].versions /\ res'[r].mark = res[r].mark BY <1>0, <2>1 DEF Row
  <2>4. Present'
    <3>1. recency \in Seq(Resources) BY DEF CInv, Present
    <3>2. /\ recency' \in Seq(Resources) /\ \E i \in 1..Len(recency') : recency'[i] = r
          /\ \A j \in 1..Len(recency) : \E i \in 1..Len(recency') : recency'[i] = recency[j]
      BY <2>1, <3>1, TouchFacts
    <3>3. Len(res[r].versions) > 0 BY <2>1 DEF CInv, Present
    <3> QED BY <2>2, <2>3, <3>2, <3>3 DEF CInv, Present
  <2>5. \A x \in Resources : res'[x].versions = res[x].versions /\ res'[x].mark = res[x].mark
    BY <2>2, <2>3
  <2>6. \A x \in Resources : Said(x) \subseteq Said(x)' BY <2>5 DEF Said
  <2>7. con'.dups \cup con'.link \subseteq con.dups \cup con.link /\ con'.clash \subseteq con.clash
    BY <2>1
  <2>8. Causes' BY <2>1, <2>5, <2>6, <2>7, CausesRemain DEF CInv
  <2> QED BY <1>0, <2>4, <2>8 DEF CInv
<1>3. ASSUME NEW p \in Proposals, ConfirmIngestion(p) PROVE CInv'
  <2>1. con' = con BY <1>3 DEF ConfirmIngestion
  <2> QED BY <1>0, <1>3, <2>1, ConfirmPresent, WriteCauses
<1>4. ASSUME UNCHANGED <<res, recency, con>> PROVE CInv'
  <2>1. Present' BY <1>4 DEF CInv, Present
  <2>2. \A r \in Resources : Said(r) \subseteq Said(r)' BY <1>4 DEF Said
  <2>3. con'.dups \cup con'.link \subseteq con.dups \cup con.link /\ con'.clash \subseteq con.clash
    BY <1>4
  <2>4. Causes' BY <1>4, <2>2, <2>3, CausesRemain DEF CInv
  <2> QED BY <1>0, <2>1, <2>4 DEF CInv
<1>5. CASE Consolidate BY <1>5, ConsolidateCauses
<1>6. ASSUME NEW p \in Proposals, NEW want, ProposeIngestion(p, want) PROVE UNCHANGED <<res, recency, con>>
  BY <1>6 DEF ProposeIngestion
<1>7. ASSUME NEW p \in Proposals, ConfirmConflicts(p) \/ RejectIngestion(p) PROVE UNCHANGED <<res, recency, con>>
  BY <1>7 DEF ConfirmConflicts, RejectIngestion
<1>8. ASSUME NEW u \in Rules, ProposeRule(u) \/ ConfirmRule(u) \/ RejectRule(u) \/ RevokeRule(u)
      PROVE  UNCHANGED <<res, recency, con>>
  BY <1>8 DEF ProposeRule, ConfirmRule, RejectRule, RevokeRule, RuleStep
<1>9. CASE UNCHANGED storeVars BY <1>4, <1>9 DEF storeVars
<1> QED BY <1>1, <1>2, <1>3, <1>4, <1>5, <1>6, <1>7, <1>8, <1>9 DEF Next

(* Whatever is ingested, archived or confirmed between a scan and its        *)
(* writes, a mark that hides a resource has a cause in what was once said    *)
(* (consolidate, set_consolidation_status).                                  *)
THEOREM MarksTheorem == Spec => []MarksHaveCause
<1>1. StoreInit => CInv BY CInit
<1>2. CInv /\ [Next]_storeVars => CInv' BY CNext
<1>3. CInv => MarksHaveCause
  <2> SUFFICES ASSUME CInv PROVE MarksHaveCause OBVIOUS
  <2>1. ASSUME NEW r \in Resources PROVE {v.c : v \in Range(res[r].versions)} = Said(r)
    <3>1. res[r].versions \in Seq(AnyVersion) BY DEF CInv, IInv, Shapes, Row
    <3>2. DOMAIN res[r].versions = 1..Len(res[r].versions) BY <3>1
    <3> QED BY <3>2 DEF Range, Said
  <2>2. ASSUME NEW r \in Resources, NEW s \in Resources, Alike(r, s)
        PROVE  \E c \in {v.c : v \in Range(res[r].versions)}, d \in {v.c : v \in Range(res[s].versions)} :
                 Norm[c] = Norm[d]
    BY <2>1, <2>2, Zenon DEF Alike
  <2>3. ASSUME NEW r \in Resources, NEW s \in Resources, Contrary(r, s)
        PROVE  \E c \in {v.c : v \in Range(res[r].versions)}, d \in {v.c : v \in Range(res[s].versions)} :
                 {c, d} \in Opposed
    BY <2>1, <2>3, Zenon DEF Contrary
  <2>4. ASSUME NEW r \in Resources, res[r].mark = "superseded"
        PROVE  \E s \in Resources \ {r} : Alike(r, s)
    BY <2>4 DEF CInv, Causes, Alike
  <2>5. ASSUME NEW r \in Resources, res[r].mark = "conflict"
        PROVE  \E s \in Resources \ {r} : Contrary(r, s)
    BY <2>5 DEF CInv, Causes, Contrary
  <2> QED BY <2>2, <2>3, <2>4, <2>5, Zenon DEF MarksHaveCause
<1> QED BY <1>1, <1>2, <1>3, PTL DEF Spec
=============================================================================
