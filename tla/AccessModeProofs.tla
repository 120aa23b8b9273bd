-------------------------- MODULE AccessModeProofs --------------------------
(***************************************************************************)
(* Proofs about AccessMode for every set of principals, gateway threads,   *)
(* windows and tools, every time-to-live and busy timeout, with or without *)
(* faults.                                                                 *)
(*                                                                         *)
(* The inductive invariant is IInv.  A step changes at most one grant and  *)
(* at most one turn: GrantStep and TurnStep reduce the invariant of all    *)
(* places and hosts to that of the one the step is about, and each action  *)
(* has a lemma that uses them.                                             *)
(***************************************************************************)
EXTENDS AccessMode, TLAPS

IInv == TypeOK /\ ModeInv

USE DEF Never

RunStates == {"idle", "submitted", "running", "executing", "queued", "blocked"}

-----------------------------------------------------------------------------
(* Constants of record type are of their types.                              *)
LEMMA ConstantTypes ==
  /\ NoGrant \in GrantType /\ NoGrant.mode = "controlled"
  /\ NoTurn \in TurnType /\ NoTurn.mode = "controlled" /\ NoTurn.at = "idle"
  /\ NoTurn.pending = NoGrant
  /\ NoChoice \in ChoiceType
  /\ NoRequest \in [at : {"idle", "found", "clearing"}, since : Nat]
<1>1. NoGrant \in GrantType /\ NoGrant.mode = "controlled"
  BY DEF NoGrant, GrantType, Modes
<1>2. 0 \in Nat /\ "idle" \in RunStates /\ "controlled" \in Modes
  BY DEF RunStates, Modes
<1>3. NoTurn \in TurnType /\ NoTurn.mode = "controlled" /\ NoTurn.at = "idle"
      /\ NoTurn.pending = NoGrant
  BY <1>1, <1>2 DEF NoTurn, TurnAt, TurnType, RunStates
<1>4. NoChoice \in ChoiceType
  BY DEF NoChoice, ChoiceType, Modes
<1>5. NoRequest \in [at : {"idle", "found", "clearing"}, since : Nat]
  BY DEF NoRequest
<1> QED
  BY <1>1, <1>3, <1>4, <1>5

(* A turn that is put together from its parts calls no tool yet.             *)
LEMMA TurnAtFacts ==
  ASSUME NEW at \in RunStates, NEW by \in Principals \cup {NoOne},
         NEW mode \in Modes, NEW since \in Nat, NEW pending \in GrantType
  PROVE  /\ TurnAt(at, by, mode, since, pending) \in TurnType
         /\ TurnAt(at, by, mode, since, pending).mode = mode
BY DEF TurnAt, TurnType, RunStates

(* A grant is written with the mode chosen and lives for that mode's time.   *)
LEMMA GrantOfFacts ==
  ASSUME NEW p \in Principals, NEW mode \in Modes, NEW t \in Int
  PROVE  /\ GrantOf(p, mode, t) \in GrantType
         /\ GrantOf(p, mode, t).mode = mode
         /\ mode = "full_access" => /\ GrantOf(p, mode, t).by = p
                                    /\ GrantOf(p, mode, t).expiresAt = t + FullTtl
<1>1. CASE mode = "controlled"
  BY <1>1, ConstantTypes DEF GrantOf
<1>2. CASE mode # "controlled"
  <2>1. GrantOf(p, mode, t) = [by |-> p, mode |-> mode, expiresAt |-> t + Ttl(mode)]
    BY <1>2 DEF GrantOf
  <2>2. Ttl(mode) \in Int /\ (mode = "full_access" => Ttl(mode) = FullTtl)
    BY TimeAssumption DEF Ttl
  <2> QED
    BY <2>1, <2>2 DEF GrantType
<1> QED
  BY <1>1, <1>2

(* A read leaves the grant or removes it.                                    *)
LEMMA KeptFacts ==
  ASSUME NEW g, NEW p, NEW t
  PROVE  Kept(g, p, t) = g \/ Kept(g, p, t) = NoGrant
BY DEF Kept

(* Full access is read only from a grant of the reader that has not expired. *)
LEMMA ModeForFacts ==
  ASSUME NEW g \in GrantType, NEW p \in Principals, NEW t \in Int
  PROVE  /\ ModeFor(g, p, t) \in Modes
         /\ ModeFor(g, p, t) = "full_access" =>
              g.mode = "full_access" /\ g.by = p /\ t < g.expiresAt
         /\ ModeFor(g, p, t) \in {g.mode, "controlled"}
BY DEF ModeFor, Holds, GrantType, Modes

(* Nobody's grant binds nobody.                                              *)
LEMMA NobodyHolds ==
  ASSUME NEW p \in Principals, NEW t
  PROVE  ModeFor(NoGrant, p, t) = "controlled"
BY PlaceAssumption DEF ModeFor, Holds, NoGrant

(* Without a grant there is nothing to stand for.                            *)
LEMMA NoGrantInv ==
  ASSUME NEW place, grant'[place] = NoGrant
  PROVE  GrantInv(place)'
BY ConstantTypes DEF GrantInv, StandsFor

-----------------------------------------------------------------------------
(* A step that changes nothing of a place, or of a host, keeps its invariant.*)
LEMMA SamePlace ==
  ASSUME NEW place, GrantInv(place),
         grant'[place] = grant[place], chosen'[place] = chosen[place]
  PROVE  GrantInv(place)'
BY DEF GrantInv, StandsFor

LEMMA SameHost ==
  ASSUME NEW h, TurnInv(h), turn'[h] = turn[h], basis'[h] = basis[h],
         h \in Windows => chosen'[h] = chosen[h]
  PROVE  TurnInv(h)'
BY DEF TurnInv, StandsFor

(* One grant may have gone; no choice was made.                              *)
LEMMA GrantStep ==
  ASSUME IInv, NEW place \in Places, NEW g,
         g = grant[place] \/ g = NoGrant,
         grant' = [grant EXCEPT ![place] = g], chosen' = chosen
  PROVE  /\ grant' \in [Places -> GrantType] /\ chosen' \in [Places -> ChoiceType]
         /\ \A q \in Places : GrantInv(q)'
<1>1. /\ grant \in [Places -> GrantType] /\ chosen \in [Places -> ChoiceType]
      /\ \A q \in Places : GrantInv(q)
  BY DEF IInv, TypeOK, ModeInv
<1>2. g \in GrantType
  BY <1>1, ConstantTypes
<1>3. ASSUME NEW q \in Places PROVE GrantInv(q)'
  <2>1. grant'[q] = grant[q] \/ grant'[q] = NoGrant
    BY <1>1
  <2> QED
    BY <1>1, <2>1, SamePlace, NoGrantInv
<1> QED
  BY <1>1, <1>2, <1>3

(* No grant changed and no choice was made.                                  *)
LEMMA GrantsRest ==
  ASSUME IInv, UNCHANGED <<grant, chosen>>
  PROVE  /\ grant' \in [Places -> GrantType] /\ chosen' \in [Places -> ChoiceType]
         /\ \A q \in Places : GrantInv(q)'
BY SamePlace DEF IInv, TypeOK, ModeInv

(* No turn moved.                                                            *)
LEMMA TurnsRest ==
  ASSUME IInv, UNCHANGED <<turn, basis, chosen>>
  PROVE  /\ turn' \in [Hosts -> TurnType] /\ basis' \in [Hosts -> ChoiceType]
         /\ \A w \in Windows : turn'[w].mode # "read_only"
         /\ \A h \in Hosts : TurnInv(h)'
BY SameHost DEF IInv, TypeOK, ModeInv

(* One turn moved; no choice was made.                                       *)
LEMMA TurnStep ==
  ASSUME IInv, NEW h \in Hosts, NEW v \in TurnType, NEW b \in ChoiceType,
         turn' = [turn EXCEPT ![h] = v], basis' = [basis EXCEPT ![h] = b],
         chosen' = chosen, TurnInv(h)', h \in Windows => v.mode # "read_only"
  PROVE  /\ turn' \in [Hosts -> TurnType] /\ basis' \in [Hosts -> ChoiceType]
         /\ \A w \in Windows : turn'[w].mode # "read_only"
         /\ \A q \in Hosts : TurnInv(q)'
<1>1. /\ turn \in [Hosts -> TurnType] /\ basis \in [Hosts -> ChoiceType]
      /\ \A w \in Windows : turn[w].mode # "read_only"
      /\ \A q \in Hosts : TurnInv(q)
  BY DEF IInv, TypeOK, ModeInv
<1>2. ASSUME NEW q \in Hosts PROVE TurnInv(q)'
  BY <1>1, SameHost
<1>3. ASSUME NEW w \in Windows PROVE turn'[w].mode # "read_only"
  BY <1>1 DEF Hosts
<1> QED
  BY <1>1, <1>2, <1>3

(* The parts together.                                                       *)
LEMMA Assemble ==
  ASSUME /\ grant' \in [Places -> GrantType] /\ chosen' \in [Places -> ChoiceType]
         /\ \A q \in Places : GrantInv(q)',
         /\ turn' \in [Hosts -> TurnType] /\ basis' \in [Hosts -> ChoiceType]
         /\ \A w \in Windows : turn'[w].mode # "read_only"
         /\ \A h \in Hosts : TurnInv(h)',
         live' \in BOOLEAN, now' \in Nat,
         request' \in [Principals -> [at : {"idle", "found", "clearing"}, since : Nat]]
  PROVE  IInv'
BY DEF IInv, TypeOK, ModeInv

LEMMA InitInv == Init => IInv
<1> SUFFICES ASSUME Init PROVE IInv
  OBVIOUS
<1>1. TypeOK
  BY ConstantTypes DEF Init, TypeOK, Hosts
<1>2. ASSUME NEW place \in Places PROVE GrantInv(place)
  BY ConstantTypes DEF Init, GrantInv, StandsFor
<1>3. ASSUME NEW h \in Hosts PROVE TurnInv(h)
  BY ConstantTypes DEF Init, TurnInv, StandsFor
<1> QED
  BY <1>1, <1>2, <1>3 DEF IInv, ModeInv

-----------------------------------------------------------------------------
(* A clock sample lies between the request's own and now.                    *)
LEMMA SampleFacts ==
  ASSUME TypeOK, NEW s \in Nat, NEW t \in SampledAfter(s)
  PROVE  t \in Int /\ t <= now /\ now - t <= BusyTimeout
BY DEF SampledAfter, TypeOK

(* A choice: the grant written stands for it, and no turn rests on the       *)
(* choice at that place from now on.                                         *)
LEMMA ChoiceStep ==
  ASSUME IInv, NEW place \in Places, NEW p \in Principals, NEW mode \in Modes,
         NEW t \in Int, t <= now, Choose(place, p, mode, t),
         place \in Windows => turn[place].at = "idle" /\ mode # "read_only",
         UNCHANGED <<turn, basis>>
  PROVE  /\ grant' \in [Places -> GrantType] /\ chosen' \in [Places -> ChoiceType]
         /\ \A q \in Places : GrantInv(q)'
         /\ turn' \in [Hosts -> TurnType] /\ basis' \in [Hosts -> ChoiceType]
         /\ \A w \in Windows : turn'[w].mode # "read_only"
         /\ \A h \in Hosts : TurnInv(h)'
<1>1. /\ TypeOK /\ now \in Int /\ FullTtl \in Int
      /\ grant \in [Places -> GrantType] /\ chosen \in [Places -> ChoiceType]
      /\ \A q \in Places : GrantInv(q)
      /\ \A h \in Hosts : TurnInv(h)
  BY TimeAssumption DEF IInv, TypeOK, ModeInv
<1>2. PICK g \in GrantType :
        /\ g = GrantOf(p, mode, t) /\ g.mode = mode
        /\ mode = "full_access" => g.by = p /\ g.expiresAt = t + FullTtl
  BY GrantOfFacts
<1>3. PICK c : c = [by |-> p, mode |-> mode, at |-> now]
  OBVIOUS
<1>4. c \in ChoiceType /\ c.by = p /\ c.mode = mode /\ c.at = now
  BY <1>1, <1>3 DEF ChoiceType
<1>5. grant' = [grant EXCEPT ![place] = g] /\ chosen' = [chosen EXCEPT ![place] = c]
  BY <1>2, <1>3 DEF Choose
<1>6. GrantInv(place)'
  BY <1>1, <1>2, <1>5, <1>4 DEF GrantInv, StandsFor
<1>7. ASSUME NEW q \in Places PROVE GrantInv(q)'
  <2>1. CASE q = place
    BY <1>6, <2>1
  <2>2. CASE q # place
    BY <1>1, <1>5, <2>2, SamePlace
  <2> QED
    BY <2>1, <2>2
<1>8. ASSUME NEW h \in Hosts PROVE TurnInv(h)'
  <2>1. CASE h = place /\ h \in Windows
    BY <1>1, <2>1 DEF TurnInv
  <2>2. CASE ~ (h = place /\ h \in Windows)
    <3>1. h \in Windows => chosen'[h] = chosen[h]
      BY <1>1, <1>5, <2>2 DEF Places
    <3> QED
      BY <1>1, <3>1, SameHost
  <2> QED
    BY <2>1, <2>2
<1> QED
  BY <1>1, <1>2, <1>5, <1>7, <1>8, <1>4 DEF IInv, TypeOK

-----------------------------------------------------------------------------
(* Requests about the access mode.                                           *)

RequestType == [at : {"idle", "found", "clearing"}, since : Nat]

LEMMA ReplyFacts ==
  ASSUME TypeOK, NEW p \in Principals, Reply(p)
  PROVE  request' \in [Principals -> RequestType]
BY ConstantTypes DEF TypeOK, Reply, RequestType

LEMMA LookUpInv ==
  ASSUME IInv, NEW p \in Principals, LookUp(p)
  PROVE  IInv'
<1>1. TypeOK /\ UNCHANGED <<grant, live, now, turn, chosen, basis>>
  BY DEF IInv, LookUp
<1>2. [at |-> "found", since |-> now] \in RequestType
  BY <1>1 DEF TypeOK, RequestType
<1>3. request' \in [Principals -> RequestType]
  BY <1>1, <1>2 DEF LookUp, TypeOK, RequestType
<1> QED
  BY <1>1, <1>3, GrantsRest, TurnsRest, Assemble DEF TypeOK, RequestType

LEMMA PutInv ==
  ASSUME IInv, NEW p \in Principals, NEW mode \in Modes, Put(p, mode)
  PROVE  IInv'
<1>1. TypeOK /\ Reply(p) /\ UNCHANGED <<live, now, turn, basis>>
  BY DEF IInv, Put
<1>2. request[p].since \in Nat
  BY <1>1 DEF TypeOK
<1>3. PICK t \in SampledAfter(request[p].since) : Choose(Row, p, mode, t)
  BY DEF Put
<1>4. t \in Int /\ t <= now
  BY <1>1, <1>2, SampleFacts
<1>5. Row \in Places /\ Row \notin Windows
  BY PlaceAssumption DEF Places
<1>6. request' \in [Principals -> RequestType]
  BY <1>1, ReplyFacts
<1> QED
  BY <1>1, <1>3, <1>4, <1>5, <1>6, ChoiceStep, Assemble DEF TypeOK, RequestType

LEMMA GetInv ==
  ASSUME IInv, NEW p \in Principals, Get(p)
  PROVE  IInv'
<1>1. TypeOK /\ Reply(p) /\ UNCHANGED <<live, now, turn, chosen, basis>>
  BY DEF IInv, Get
<1>2. PICK t \in SampledAfter(request[p].since) :
        grant' = [grant EXCEPT ![Row] = Kept(@, p, t)]
  BY DEF Get
<1>3. Row \in Places
  BY DEF Places
<1>4. PICK g : g = Kept(grant[Row], p, t) /\ (g = grant[Row] \/ g = NoGrant)
  BY KeptFacts
<1>5. grant' = [grant EXCEPT ![Row] = g]
  BY <1>2, <1>4
<1>6. request' \in [Principals -> RequestType]
  BY <1>1, ReplyFacts
<1> QED
  BY <1>1, <1>3, <1>4, <1>5, <1>6, GrantStep, TurnsRest, Assemble
     DEF TypeOK, RequestType

LEMMA DeleteInv ==
  ASSUME IInv, NEW p \in Principals, Delete(p)
  PROVE  IInv'
<1>1. TypeOK /\ live' = FALSE /\ UNCHANGED <<grant, now, turn, chosen, basis>>
  BY DEF IInv, Delete
<1>2. request' \in [Principals -> RequestType]
  <2>1. CASE live
    BY <1>1, <2>1 DEF Delete, TypeOK, RequestType
  <2>2. CASE ~ live
    BY <1>1, <2>2, ReplyFacts DEF Delete
  <2> QED
    BY <2>1, <2>2
<1> QED
  BY <1>1, <1>2, GrantsRest, TurnsRest, Assemble DEF TypeOK, RequestType

LEMMA ClearGrantInv ==
  ASSUME IInv, NEW p \in Principals, ClearGrant(p)
  PROVE  IInv'
<1>1. TypeOK /\ Reply(p) /\ UNCHANGED <<live, now, turn, chosen, basis>>
  BY DEF IInv, ClearGrant
<1>2. Row \in Places /\ grant' = [grant EXCEPT ![Row] = NoGrant]
  BY DEF Places, ClearGrant
<1>3. request' \in [Principals -> RequestType]
  BY <1>1, ReplyFacts
<1> QED
  BY <1>1, <1>2, <1>3, GrantStep, TurnsRest, Assemble DEF TypeOK, RequestType

LEMMA RequestFailsInv ==
  ASSUME IInv, NEW p \in Principals, RequestFails(p)
  PROVE  IInv'
<1>1. TypeOK /\ Reply(p) /\ UNCHANGED <<grant, live, now, turn, chosen, basis>>
  BY DEF IInv, RequestFails
<1>2. request' \in [Principals -> RequestType]
  BY <1>1, ReplyFacts
<1> QED
  BY <1>1, <1>2, GrantsRest, TurnsRest, Assemble DEF TypeOK, RequestType

LEMMA SwitchInv ==
  ASSUME IInv, NEW w \in Windows, NEW mode \in {"controlled", "full_access"},
         Switch(w, mode)
  PROVE  IInv'
<1>1. /\ TypeOK /\ turn[w].at = "idle" /\ Choose(w, User[w], mode, now)
      /\ UNCHANGED <<live, now, request, turn, basis>>
  BY DEF IInv, Switch
<1>2. /\ w \in Places /\ User[w] \in Principals /\ mode \in Modes
      /\ mode # "read_only" /\ now \in Int
  BY <1>1, PlaceAssumption DEF Places, Modes, TypeOK
<1> QED
  BY <1>1, <1>2, ChoiceStep, Assemble DEF TypeOK

-----------------------------------------------------------------------------
(* Turns.                                                                    *)

(* BeginAs puts the host into its turn under the given mode.                 *)
LEMMA BeginFacts ==
  ASSUME IInv, NEW h \in Hosts, NEW place \in Places, NEW mode \in Modes,
         BeginAs(h, place, mode), UNCHANGED <<now, chosen>>,
         h \in Windows => mode # "read_only",
         mode = "full_access" =>
           /\ chosen[place].by = turn[h].by /\ chosen[place].mode = "full_access"
           /\ now < chosen[place].at + FullTtl + BusyTimeout
  PROVE  /\ turn' \in [Hosts -> TurnType] /\ basis' \in [Hosts -> ChoiceType]
         /\ \A w \in Windows : turn'[w].mode # "read_only"
         /\ \A q \in Hosts : TurnInv(q)'
<1>1. /\ turn \in [Hosts -> TurnType] /\ chosen \in [Places -> ChoiceType]
      /\ basis \in [Hosts -> ChoiceType] /\ now \in Nat
  BY DEF IInv, TypeOK
<1>2. turn[h].by \in Principals \cup {NoOne}
  BY <1>1 DEF TurnType
<1>3. PICK v : v = TurnAt("running", turn[h].by, mode, now, NoGrant)
  OBVIOUS
<1>4. v \in TurnType /\ v.mode = mode
  BY <1>1, <1>2, <1>3, TurnAtFacts, ConstantTypes DEF RunStates
<1>5. /\ turn' = [turn EXCEPT ![h] = v]
      /\ basis' = [basis EXCEPT ![h] = chosen[place]]
  BY <1>3 DEF BeginAs
<1>6. turn'[h] = v /\ basis'[h] = chosen[place]
  BY <1>1, <1>5
<1>7. TurnInv(h)'
  BY <1>3, <1>6, ConstantTypes DEF TurnInv, TurnAt
<1>8. chosen[place] \in ChoiceType
  BY <1>1
<1> QED
  BY <1>4, <1>5, <1>7, <1>8, TurnStep

LEMMA SubmitInv ==
  ASSUME IInv, NEW h \in Hosts, NEW p \in Principals, Submit(h, p)
  PROVE  IInv'
<1>1. /\ TypeOK /\ UNCHANGED <<live, now, request, chosen, basis>>
      /\ turn[h].at = "idle" /\ now \in Nat
      /\ turn \in [Hosts -> TurnType] /\ basis \in [Hosts -> ChoiceType]
      /\ grant \in [Places -> GrantType]
      /\ basis' = [basis EXCEPT ![h] = basis[h]] /\ basis[h] \in ChoiceType
      /\ \A q \in Places : GrantInv(q)
  BY DEF IInv, Submit, TypeOK, ModeInv
<1>2. "submitted" \in RunStates /\ "controlled" \in Modes /\ 0 \in Nat
  BY DEF RunStates, Modes
<1>3. CASE /\ h \in Gateways /\ live
           /\ turn' = [turn EXCEPT ![h] =
                         TurnAt("submitted", p, "controlled", now, NoGrant)]
           /\ UNCHANGED grant
  <2>1. PICK v \in TurnType :
          v = TurnAt("submitted", p, "controlled", now, NoGrant)
    BY <1>1, <1>2, TurnAtFacts, ConstantTypes
  <2>2. turn' = [turn EXCEPT ![h] = v] /\ turn'[h] = v
    BY <1>1, <1>3, <2>1
  <2>3. h \notin Windows
    BY <1>3, PlaceAssumption
  <2>4. TurnInv(h)'
    BY <2>1, <2>2, <2>3 DEF TurnInv, TurnAt
  <2> QED
    BY <1>1, <1>3, <2>2, <2>3, <2>4, TurnStep, GrantsRest, Assemble DEF TypeOK
<1>4. CASE /\ h \in Windows /\ p = User[h]
           /\ grant' = [grant EXCEPT ![h] = Kept(@, p, now)]
           /\ turn' = [turn EXCEPT ![h] =
                         TurnAt("submitted", p, "controlled", 0, grant'[h])]
  <2>1. h \in Places
    BY <1>4 DEF Places
  <2>2. PICK g : g = Kept(grant[h], p, now) /\ (g = grant[h] \/ g = NoGrant)
    BY KeptFacts
  <2>3. /\ grant' = [grant EXCEPT ![h] = g] /\ grant'[h] = g
        /\ g \in GrantType
    BY <1>1, <1>4, <2>1, <2>2, ConstantTypes
  <2>4. /\ grant' \in [Places -> GrantType] /\ chosen' \in [Places -> ChoiceType]
        /\ \A q \in Places : GrantInv(q)'
    BY <1>1, <2>1, <2>2, <2>3, GrantStep
  <2>5. StandsFor(g, chosen'[h]) /\ g.mode # "read_only"
    BY <1>4, <2>1, <2>3, <2>4 DEF GrantInv
  <2>6. PICK v \in TurnType : /\ v = TurnAt("submitted", p, "controlled", 0, g)
                              /\ v.mode = "controlled"
    BY <1>2, <2>3, TurnAtFacts
  <2>7. turn' = [turn EXCEPT ![h] = v] /\ turn'[h] = v
    BY <1>1, <1>4, <2>3, <2>6
  <2>8. /\ v.pending = g /\ v.at = "submitted"
    BY <2>6 DEF TurnAt
  <2>9. TurnInv(h)'
    BY <2>5, <2>6, <2>7, <2>8 DEF TurnInv
  <2> QED
    BY <1>1, <2>4, <2>6, <2>7, <2>9, TurnStep, Assemble DEF TypeOK
<1> QED
  BY <1>3, <1>4 DEF Submit

LEMMA BeginWindowInv ==
  ASSUME IInv, NEW w \in Windows, BeginWindow(w)
  PROVE  IInv'
<1>1. /\ TypeOK /\ turn[w].at = "submitted" /\ TurnInv(w)
      /\ UNCHANGED <<grant, live, now, request, chosen>>
      /\ w \in Hosts /\ w \in Places
  BY DEF IInv, BeginWindow, ModeInv, Hosts, Places
<1>2. PICK g : g = turn[w].pending
  OBVIOUS
<1>3. PICK mode : mode = ModeFor(g, turn[w].by, now)
  OBVIOUS
<1>4. BeginAs(w, w, mode)
  BY <1>2, <1>3 DEF BeginWindow
<1>5. /\ g.mode # "read_only" /\ StandsFor(g, chosen[w])
      /\ g \in GrantType /\ now \in Nat /\ chosen[w] \in ChoiceType
  BY <1>1, <1>2 DEF TurnInv, TypeOK, TurnType
<1>6. /\ mode \in Modes /\ mode # "read_only"
      /\ mode = "full_access" => /\ g.mode = "full_access" /\ g.by = turn[w].by
                                 /\ now < g.expiresAt
  BY <1>3, <1>5 DEF ModeFor, Holds, GrantType, Modes
<1>7. ASSUME mode = "full_access"
      PROVE  /\ chosen[w].by = turn[w].by /\ chosen[w].mode = "full_access"
             /\ now < chosen[w].at + FullTtl + BusyTimeout
  BY <1>5, <1>6, <1>7, TimeAssumption DEF StandsFor, GrantType, ChoiceType
<1> QED
  BY <1>1, <1>4, <1>6, <1>7, BeginFacts, GrantsRest, Assemble DEF TypeOK

LEMMA BeginTurnInv ==
  ASSUME IInv, NEW h \in Gateways, BeginTurn(h)
  PROVE  IInv'
<1>1. /\ TypeOK /\ UNCHANGED <<live, now, request, chosen>>
      /\ h \in Hosts /\ h \notin Windows /\ Row \in Places
      /\ GrantInv(Row) /\ "controlled" \in Modes
      /\ turn[h].since \in Nat /\ now \in Nat
      /\ grant[Row] \in GrantType /\ chosen[Row] \in ChoiceType
  BY PlaceAssumption DEF IInv, BeginTurn, ModeInv, Hosts, Places, Modes, TypeOK, TurnType
<1>2. CASE BeginAs(h, Row, "controlled") /\ UNCHANGED grant
  BY <1>1, <1>2, BeginFacts, GrantsRest, Assemble DEF TypeOK
<1>3. ASSUME NEW t \in SampledAfter(turn[h].since),
             grant' = [grant EXCEPT ![Row] = Kept(@, turn[h].by, t)],
             BeginAs(h, Row, ModeFor(grant[Row], turn[h].by, t))
      PROVE  IInv'
  <2>1. t \in Int /\ now - t <= BusyTimeout
    BY <1>1, SampleFacts
  <2>2. PICK g : /\ g = Kept(grant[Row], turn[h].by, t)
                 /\ (g = grant[Row] \/ g = NoGrant)
    BY KeptFacts
  <2>3. grant' = [grant EXCEPT ![Row] = g]
    BY <1>3, <2>2
  <2>4. PICK mode : mode = ModeFor(grant[Row], turn[h].by, t)
    OBVIOUS
  <2>5. mode \in Modes
    BY <1>1, <2>4 DEF ModeFor, GrantType, Modes
  <2>6. ASSUME mode = "full_access"
        PROVE  /\ chosen[Row].by = turn[h].by /\ chosen[Row].mode = "full_access"
               /\ now < chosen[Row].at + FullTtl + BusyTimeout
    <3>1. /\ grant[Row].mode = "full_access" /\ grant[Row].by = turn[h].by
          /\ t < grant[Row].expiresAt
      BY <2>4, <2>6 DEF ModeFor, Holds
    <3>2. /\ chosen[Row].by = turn[h].by /\ chosen[Row].mode = "full_access"
          /\ grant[Row].expiresAt <= chosen[Row].at + FullTtl
      BY <1>1, <3>1 DEF GrantInv, StandsFor
    <3>3. /\ grant[Row].expiresAt \in Int /\ chosen[Row].at \in Int
          /\ FullTtl \in Int /\ BusyTimeout \in Int
      BY <1>1, TimeAssumption DEF GrantType, ChoiceType
    <3> QED
      BY <1>1, <2>1, <3>1, <3>2, <3>3
  <2>7. BeginAs(h, Row, mode)
    BY <1>3, <2>4
  <2> QED
    BY <1>1, <2>2, <2>3, <2>5, <2>6, <2>7, GrantStep, BeginFacts, Assemble
       DEF TypeOK
<1> QED
  BY <1>2, <1>3 DEF BeginTurn

(* To moves a running turn on, and changes nothing else of it.               *)
LEMMA ToStep ==
  ASSUME IInv, NEW h \in Hosts, NEW at \in RunStates \ {"submitted"},
         NEW tool \in Tools \cup {NoTool}, To(h, at, tool),
         at = "executing" => Allowed(tool, turn[h].mode),
         UNCHANGED <<grant, live, now, request, chosen, basis>>
  PROVE  IInv'
<1>1. /\ TypeOK /\ turn \in [Hosts -> TurnType] /\ turn[h] \in TurnType
      /\ basis \in [Hosts -> ChoiceType] /\ TurnInv(h)
      /\ h \in Windows => turn[h].mode # "read_only"
      /\ basis' = [basis EXCEPT ![h] = basis[h]] /\ basis[h] \in ChoiceType
  BY DEF IInv, TypeOK, ModeInv
<1>2. PICK v : v = [turn[h] EXCEPT !.at = at, !.tool = tool]
  OBVIOUS
<1>3. /\ v \in TurnType /\ v.at = at /\ v.tool = tool /\ v.by = turn[h].by
      /\ v.mode = turn[h].mode /\ v.since = turn[h].since
      /\ v.pending = turn[h].pending
  BY <1>1, <1>2 DEF TurnType, RunStates
<1>4. turn' = [turn EXCEPT ![h] = v]
  BY <1>2 DEF To
<1>5. turn'[h] = v
  BY <1>1, <1>4
<1>6. TurnInv(h)'
  BY <1>1, <1>3, <1>5 DEF TurnInv, RunStates
<1> QED
  BY <1>1, <1>3, <1>4, <1>6, TurnStep, GrantsRest, Assemble DEF TypeOK

LEMMA CallToolInv ==
  ASSUME IInv, NEW h \in Hosts, NEW tool \in Tools, CallTool(h, tool)
  PROVE  IInv'
<1>1. PICK at \in {"executing", "queued", "blocked"} :
        /\ To(h, at, tool)
        /\ at = "executing" => Allowed(tool, turn[h].mode)
  BY DEF CallTool
<1>2. UNCHANGED <<grant, live, now, request, chosen, basis>>
  BY DEF CallTool
<1>3. at \in RunStates \ {"submitted"}
  BY DEF RunStates
<1> QED
  BY <1>1, <1>2, <1>3, ToStep

LEMMA AnswerInv ==
  ASSUME IInv, NEW h \in Hosts, Answer(h)
  PROVE  IInv'
BY ToStep DEF Answer, RunStates

(* A turn that is over rests on nothing.                                     *)
LEMMA TurnOver ==
  ASSUME IInv, NEW h \in Hosts, turn' = [turn EXCEPT ![h] = NoTurn],
         basis' = [basis EXCEPT ![h] = NoChoice], chosen' = chosen
  PROVE  /\ turn' \in [Hosts -> TurnType] /\ basis' \in [Hosts -> ChoiceType]
         /\ \A w \in Windows : turn'[w].mode # "read_only"
         /\ \A q \in Hosts : TurnInv(q)'
<1>1. turn'[h] = NoTurn
  BY DEF IInv, TypeOK
<1>2. TurnInv(h)'
  BY <1>1, ConstantTypes DEF TurnInv
<1> QED
  BY <1>2, ConstantTypes, TurnStep

LEMMA EndTurnInv ==
  ASSUME IInv, NEW h \in Hosts, EndTurn(h)
  PROVE  IInv'
BY TurnOver, GrantsRest, Assemble DEF EndTurn, IInv, TypeOK

LEMMA CrashInv ==
  ASSUME IInv, NEW h \in Hosts, Crash(h)
  PROVE  IInv'
<1>1. /\ TypeOK /\ UNCHANGED <<live, now, request, chosen>>
      /\ turn' = [turn EXCEPT ![h] = NoTurn]
      /\ basis' = [basis EXCEPT ![h] = NoChoice]
      /\ grant' = [q \in Places |-> IF q = h THEN NoGrant ELSE grant[q]]
  BY DEF IInv, Crash
<1>2. grant' \in [Places -> GrantType]
  BY <1>1, ConstantTypes DEF TypeOK
<1>3. ASSUME NEW q \in Places PROVE GrantInv(q)'
  <2>1. CASE q = h
    BY <1>1, <2>1, NoGrantInv
  <2>2. CASE q # h
    BY <1>1, <2>2, SamePlace DEF IInv, ModeInv
  <2> QED
    BY <2>1, <2>2
<1> QED
  BY <1>1, <1>2, <1>3, TurnOver, Assemble DEF TypeOK

LEMMA TickInv ==
  ASSUME IInv, Tick
  PROVE  IInv'
<1>1. TypeOK /\ now' \in Nat /\ UNCHANGED <<grant, live, request, turn, chosen, basis>>
  BY DEF IInv, TypeOK, Tick
<1> QED
  BY <1>1, GrantsRest, TurnsRest, Assemble DEF TypeOK

-----------------------------------------------------------------------------
(* The invariant is inductive.                                               *)
LEMMA NextInv == IInv /\ [Next]_vars => IInv'
<1> SUFFICES ASSUME IInv, [Next]_vars PROVE IInv'
  OBVIOUS
<1>1. CASE UNCHANGED vars
  BY <1>1, GrantsRest, TurnsRest, Assemble DEF vars, IInv, TypeOK
<1>2. ASSUME NEW p \in Principals,
             \/ LookUp(p) \/ Get(p) \/ Delete(p) \/ ClearGrant(p) \/ RequestFails(p)
             \/ \E mode \in Modes : Put(p, mode)
             \/ \E h \in Hosts : Submit(h, p)
      PROVE  IInv'
  BY <1>2, LookUpInv, GetInv, DeleteInv, ClearGrantInv, RequestFailsInv, PutInv,
     SubmitInv
<1>3. ASSUME NEW w \in Windows,
             \/ BeginWindow(w)
             \/ \E mode \in {"controlled", "full_access"} : Switch(w, mode)
      PROVE  IInv'
  BY <1>3, BeginWindowInv, SwitchInv
<1>4. ASSUME NEW h \in Gateways, BeginTurn(h) PROVE IInv'
  BY <1>4, BeginTurnInv
<1>5. ASSUME NEW h \in Hosts,
             \/ Answer(h) \/ EndTurn(h) \/ Crash(h)
             \/ \E tool \in Tools : CallTool(h, tool)
      PROVE  IInv'
  BY <1>5, AnswerInv, EndTurnInv, CrashInv, CallToolInv
<1>6. CASE Tick
  BY <1>6, TickInv
<1> QED
  BY <1>1, <1>2, <1>3, <1>4, <1>5, <1>6 DEF Next

(* Every reachable state satisfies the inductive invariant: every grant of   *)
(* full access, and every turn that runs with it, stands for a choice.       *)
THEOREM InductiveInvariant == Spec => []IInv
<1> QED
  BY InitInv, NextInv, PTL DEF Spec

(* The types of the columns and of the turns; a window never carries the     *)
(* read-only mode.                                                           *)
THEOREM TypeCorrect == Spec => []TypeOK
<1>1. IInv => TypeOK
  BY DEF IInv
<1> QED
  BY <1>1, InductiveInvariant, PTL

(* What each mode rests on, for all places and hosts.                        *)
THEOREM ModesStandForChoices == Spec => []ModeInv
<1>1. IInv => ModeInv
  BY DEF IInv
<1> QED
  BY <1>1, InductiveInvariant, PTL

(* A tool with side effects that runs unconfirmed is covered by full access, *)
(* and its principal chose that mode where the turn runs, not too long       *)
(* before the turn began (permission_preflight, access_decision).            *)
THEOREM UnattendedTheorem == Spec => []UnattendedWasChosen
<1>1. IInv => UnattendedWasChosen
  <2> SUFFICES ASSUME IInv, NEW h \in Hosts, Unattended(h)
               PROVE  /\ turn[h].tool \notin Denied /\ turn[h].tool \in Trusted
                      /\ EffectiveRank(turn[h].tool) <= RiskRank["medium"]
                      /\ basis[h].by = turn[h].by /\ basis[h].mode = "full_access"
                      /\ turn[h].since < basis[h].at + FullTtl + BusyTimeout
    BY DEF UnattendedWasChosen
  <2>1. TurnInv(h)
    BY DEF IInv, ModeInv
  <2>2. /\ turn[h].mode = "full_access" /\ turn[h].tool \notin Denied
        /\ Preauthorisable(turn[h].tool)
    BY <2>1 DEF TurnInv, Unattended, Allowed
  <2> QED
    BY <2>1, <2>2 DEF TurnInv, Preauthorisable
<1> QED
  BY <1>1, InductiveInvariant, PTL

-----------------------------------------------------------------------------
(* No step changes a grant but by a choice at its place or by removing it,   *)
(* and the clock does not go back.                                           *)
LEMMA GrantChanges ==
  ASSUME IInv, [Next]_vars, NEW place \in Places
  PROVE  /\ now \in Nat /\ now' \in Nat /\ now <= now'
         /\ \/ grant'[place] = grant[place]
            \/ grant'[place] = NoGrant
            \/ \E p \in Principals, mode \in Modes, t \in Int :
                 now' = now /\ Choose(place, p, mode, t)
<1> DEFINE Change(q) ==
      \/ grant'[q] = grant[q]
      \/ grant'[q] = NoGrant
      \/ \E p \in Principals, mode \in Modes, t \in Int :
           now' = now /\ Choose(q, p, mode, t)
<1> DEFINE Goal == now <= now' /\ Change(place)
<1>0. /\ TypeOK /\ now \in Nat /\ grant \in [Places -> GrantType]
      /\ Row \in Places
  BY DEF IInv, TypeOK, Places
<1>1. ASSUME NEW q \in Places, NEW p, NEW t,
             grant' = [grant EXCEPT ![q] = Kept(@, p, t)]
      PROVE  Change(place)
  <2>1. Kept(grant[q], p, t) = grant[q] \/ Kept(grant[q], p, t) = NoGrant
    BY KeptFacts
  <2> QED
    BY <1>0, <1>1, <2>1
<1>2. ASSUME NEW q \in Places, NEW p \in Principals, NEW mode \in Modes,
             NEW t \in Int, now' = now, Choose(q, p, mode, t)
      PROVE  Change(place)
  <2>1. CASE place = q
    BY <1>2, <2>1
  <2>2. CASE place # q
    BY <1>0, <1>2, <2>2 DEF Choose
  <2> QED
    BY <2>1, <2>2
<1>3. CASE UNCHANGED vars
  BY <1>0, <1>3 DEF vars
<1>4. ASSUME NEW p \in Principals,
             LookUp(p) \/ Delete(p) \/ ClearGrant(p) \/ RequestFails(p)
      PROVE  Goal
  BY <1>0, <1>4 DEF LookUp, Delete, ClearGrant, RequestFails
<1>5. ASSUME NEW p \in Principals, Get(p) PROVE Goal
  <2>1. PICK t : grant' = [grant EXCEPT ![Row] = Kept(@, p, t)]
    BY <1>5 DEF Get
  <2>2. Change(place)
    BY <1>0, <1>1, <2>1
  <2> QED
    BY <1>0, <1>5, <2>2 DEF Get
<1>6. ASSUME NEW p \in Principals, NEW mode \in Modes, Put(p, mode) PROVE Goal
  <2>1. PICK t \in SampledAfter(request[p].since) : Choose(Row, p, mode, t)
    BY <1>6 DEF Put
  <2>2. t \in Int
    BY <1>0, <2>1, SampleFacts DEF TypeOK
  <2>3. now' = now
    BY <1>6 DEF Put
  <2> QED
    BY <1>0, <1>2, <2>1, <2>2, <2>3
<1>7. ASSUME NEW p \in Principals, NEW h \in Hosts, Submit(h, p) PROVE Goal
  <2>1. CASE UNCHANGED grant
    BY <1>0, <1>7, <2>1 DEF Submit
  <2>2. CASE h \in Windows /\ grant' = [grant EXCEPT ![h] = Kept(@, p, now)]
    <3>1. Change(place)
      BY <1>1, <2>2 DEF Places
    <3> QED
      BY <1>0, <1>7, <3>1 DEF Submit
  <2> QED
    BY <1>7, <2>1, <2>2 DEF Submit
<1>8. ASSUME NEW w \in Windows, BeginWindow(w) PROVE Goal
  BY <1>0, <1>8 DEF BeginWindow
<1>9. ASSUME NEW w \in Windows, NEW mode \in {"controlled", "full_access"},
             Switch(w, mode)
      PROVE  Goal
  BY <1>0, <1>2, <1>9, PlaceAssumption DEF Switch, Places, Modes
<1>10. ASSUME NEW h \in Gateways, BeginTurn(h) PROVE Goal
  BY <1>0, <1>1, <1>10 DEF BeginTurn
<1>11. ASSUME NEW h \in Hosts,
              \/ Answer(h) \/ EndTurn(h)
              \/ \E tool \in Tools : CallTool(h, tool)
       PROVE  Goal
  BY <1>0, <1>11 DEF Answer, EndTurn, CallTool
<1>12. ASSUME NEW h \in Hosts, Crash(h) PROVE Goal
  BY <1>0, <1>12 DEF Crash
<1>13. CASE Tick
  BY <1>0, <1>13 DEF Tick
<1>14. Goal
  BY <1>3, <1>4, <1>5, <1>6, <1>7, <1>8, <1>9, <1>10, <1>11, <1>12, <1>13 DEF Next
<1>15. now' \in Nat
  BY NextInv DEF IInv, TypeOK
<1> QED
  BY <1>0, <1>14, <1>15

(* Nobody gains full access at a place without choosing it there: reads,     *)
(* deletions, failures, turns and crashes only take it away.                 *)
THEOREM FullAccessTheorem == Spec => FullAccessIsChosen
<1>1. ASSUME IInv, [Next]_vars, NEW place \in Places, NEW p \in Principals,
             ModeFor(grant'[place], p, now') = "full_access",
             ModeFor(grant[place], p, now) # "full_access"
      PROVE  chosen'[place] = [by |-> p, mode |-> "full_access", at |-> now]
  <2>1. /\ grant'[place] \in GrantType /\ grant[place] \in GrantType
        /\ chosen \in [Places -> ChoiceType]
        /\ now \in Nat /\ now' \in Nat /\ now <= now'
    BY <1>1, NextInv, GrantChanges DEF IInv, TypeOK
  <2>2. /\ grant'[place].mode = "full_access" /\ grant'[place].by = p
        /\ now' < grant'[place].expiresAt
    BY <1>1, <2>1, ModeForFacts
  <2>3. grant'[place] # grant[place]
    BY <1>1, <2>1, <2>2 DEF ModeFor, Holds, GrantType
  <2>4. grant'[place] # NoGrant
    BY <2>2, ConstantTypes
  <2>5. PICK q \in Principals, mode \in Modes, t \in Int : Choose(place, q, mode, t)
    BY <1>1, <2>3, <2>4, GrantChanges
  <2>6. grant'[place] = GrantOf(q, mode, t)
    BY <1>1, <2>5 DEF Choose, IInv, TypeOK
  <2>7. mode = "full_access" /\ q = p
    BY <2>2, <2>6, GrantOfFacts
  <2> QED
    BY <2>1, <2>5, <2>7 DEF Choose
<1>2. IInv /\ [Next]_vars =>
        [\A place \in Places, p \in Principals :
           /\ ModeFor(grant'[place], p, now') = "full_access"
           /\ ModeFor(grant[place], p, now) # "full_access"
           => chosen'[place] = [by |-> p, mode |-> "full_access", at |-> now]]_vars
  BY <1>1
<1> QED
  BY <1>2, InductiveInvariant, PTL DEF Spec, FullAccessIsChosen
=============================================================================
