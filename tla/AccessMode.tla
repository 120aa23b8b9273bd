----------------------------- MODULE AccessMode -----------------------------
(***************************************************************************)
(* The access mode of one conversation: the grant row the API gateway      *)
(* keeps (security/permission_store.py), the grants every Streamlit window *)
(* keeps for itself (views/chat.py), the turns that read a mode when they  *)
(* begin, and the preflight that asks it for every tool the model calls    *)
(* (security/access_mode.py, security/permission_gate.py).                 *)
(*                                                                         *)
(* A turn carries its mode to its end.  Between two of its steps others    *)
(* may choose another mode, read the row (which may delete it), delete the *)
(* conversation, or let the grant expire.                                  *)
(***************************************************************************)
EXTENDS Integers

CONSTANTS
  Principals,    \* the actors of the workspace, who all see the conversation
  NoOne,
  Gateways,      \* chat request threads of the API gateways
  Windows,       \* Streamlit sessions
  User,          \* the principal of each window
  Row,           \* the place of the gateway's grant, beside one per window
  Tools,
  NoTool,
  ReadOnlyTools, \* tools declared read-only
  ApprovalTools, \* tools declared to require approval
  Trusted,       \* auto_approval_allowed: neither a plugin nor an MCP tool
  Denied,        \* tools the static capability policy refuses
  DeclaredRisk,  \* the risk a tool declares
  RiskFloor,     \* the floor its name and arguments put under it
  FullTtl,       \* FULL_ACCESS_TTL_SECONDS
  ReadOnlyTtl,   \* READ_ONLY_TTL_SECONDS
  BusyTimeout,   \* BUSY_TIMEOUT_MS: the longest wait for the write lock
  MaxTime,       \* bound of the clock
  Faults         \* may the store fail, may a process die

Hosts == Gateways \cup Windows
Places == {Row} \cup Windows
Risks == {"low", "medium", "high", "critical", "untrusted"}
Modes == {"read_only", "controlled", "full_access"}
Never == -1

ASSUME PlaceAssumption ==
  /\ NoOne \notin Principals /\ NoTool \notin Tools
  /\ Gateways \cap Windows = {} /\ Row \notin Windows
  /\ User \in [Windows -> Principals]
ASSUME ToolAssumption ==
  /\ DeclaredRisk \in [Tools -> Risks] /\ RiskFloor \in [Tools -> Risks]
  /\ ReadOnlyTools \cup ApprovalTools \cup Trusted \cup Denied \subseteq Tools
ASSUME TimeAssumption ==
  /\ FullTtl \in Nat \ {0} /\ ReadOnlyTtl \in Nat \ {0}
  /\ BusyTimeout \in Nat /\ MaxTime \in Nat /\ Faults \in BOOLEAN

VARIABLES
  grant,    \* the grant at each place
  live,     \* does the conversation exist
  now,      \* the wall clock
  request,  \* the access-mode or delete request each principal has under way
  turn,     \* the turn each host runs, with the mode it carries
  chosen,   \* history: the last choice made at each place
  basis     \* history: the choice that stood when a host's turn began

vars == <<grant, live, now, request, turn, chosen, basis>>

-----------------------------------------------------------------------------
(* Grants. *)

NoGrant == [by |-> NoOne, mode |-> "controlled", expiresAt |-> Never]
NoRequest == [at |-> "idle", since |-> 0]
TurnAt(at, by, mode, since, pending) ==
  [at |-> at, by |-> by, mode |-> mode, since |-> since, tool |-> NoTool,
   pending |-> pending]
NoTurn == TurnAt("idle", NoOne, "controlled", 0, NoGrant)
NoChoice == [by |-> NoOne, mode |-> "controlled", at |-> Never]

Ttl(mode) == IF mode = "read_only" THEN ReadOnlyTtl ELSE FullTtl

GrantOf(p, mode, t) ==
  IF mode = "controlled" THEN NoGrant
  ELSE [by |-> p, mode |-> mode, expiresAt |-> t + Ttl(mode)]

(* Mutants of Holds: the binding is not compared, the expiry is not.         *)
HoldsForAnyone(g, p, t) == t < g.expiresAt
HoldsForever(g, p, t) == g.by = p

(* A grant binds one principal until it expires. *)
Holds(g, p, t) == g.by = p /\ t < g.expiresAt

(* The mode a reader gets, and what its read leaves: a grant of somebody     *)
(* else, like an expired one, is deleted.                                    *)
ModeFor(g, p, t) == IF Holds(g, p, t) THEN g.mode ELSE "controlled"
Kept(g, p, t) == IF Holds(g, p, t) THEN g ELSE NoGrant

(* The instants a call that takes effect now may have read from the clock. *)
SampledAfter(s) == {t \in s..now : now - t <= BusyTimeout}

-----------------------------------------------------------------------------
(* The decision on a tool call. *)

RiskRank == [low |-> 0, medium |-> 1, high |-> 2, critical |-> 3, untrusted |-> 4]

(* effective_access_risk: the floor cannot be declared away. *)
EffectiveRank(tool) ==
  IF RiskRank[DeclaredRisk[tool]] >= RiskRank[RiskFloor[tool]]
  THEN RiskRank[DeclaredRisk[tool]] ELSE RiskRank[RiskFloor[tool]]

Free(tool) == tool \in ReadOnlyTools \ ApprovalTools

(* Mutant of Preauthorisable: the risk the tool declares is believed.        *)
PreauthorisableAsDeclared(tool) ==
  tool \in Trusted /\ RiskRank[DeclaredRisk[tool]] <= RiskRank["medium"]

(* Full access covers trusted tools of low and medium risk, whose required   *)
(* role is user.                                                             *)
Preauthorisable(tool) ==
  tool \in Trusted /\ EffectiveRank(tool) <= RiskRank["medium"]

(* permission_preflight: a free tool is not asked about, a denied one never  *)
(* runs; then access_decision, and a durable request when it says confirm.   *)
Allowed(tool, mode) ==
  Free(tool) \/ /\ tool \notin Denied
                /\ mode = "full_access" /\ Preauthorisable(tool)

Refused(tool, mode) ==
  ~ Free(tool) /\ (tool \in Denied \/ mode = "read_only")

-----------------------------------------------------------------------------
Init ==
  /\ grant = [place \in Places |-> NoGrant]
  /\ live = TRUE
  /\ now = 0
  /\ request = [p \in Principals |-> NoRequest]
  /\ turn = [h \in Hosts |-> NoTurn]
  /\ chosen = [place \in Places |-> NoChoice]
  /\ basis = [h \in Hosts |-> NoChoice]

Choose(place, p, mode, t) ==
  /\ grant' = [grant EXCEPT ![place] = GrantOf(p, mode, t)]
  /\ chosen' = [chosen EXCEPT ![place] = [by |-> p, mode |-> mode, at |-> now]]

(* Every route first looks the conversation up. *)
LookUp(p) ==
  /\ request[p].at = "idle" /\ live
  /\ request' = [request EXCEPT ![p] = [at |-> "found", since |-> now]]
  /\ UNCHANGED <<grant, live, now, turn, chosen, basis>>

Reply(p) == request' = [request EXCEPT ![p] = NoRequest]

(* PUT access-mode: controlled deletes the row, another mode overwrites it. *)
Put(p, mode) ==
  /\ request[p].at = "found"
  /\ \E t \in SampledAfter(request[p].since) : Choose(Row, p, mode, t)
  /\ Reply(p)
  /\ UNCHANGED <<live, now, turn, basis>>

(* GET access-mode. *)
Get(p) ==
  /\ request[p].at = "found"
  /\ \E t \in SampledAfter(request[p].since) :
       grant' = [grant EXCEPT ![Row] = Kept(@, p, t)]
  /\ Reply(p)
  /\ UNCHANGED <<live, now, turn, chosen, basis>>

(* DELETE: the conversation first, its grant afterwards and best-effort.    *)
Delete(p) ==
  /\ request[p].at = "found"
  /\ IF live THEN request' = [request EXCEPT ![p].at = "clearing"] ELSE Reply(p)
  /\ live' = FALSE
  /\ UNCHANGED <<grant, now, turn, chosen, basis>>

ClearGrant(p) ==
  /\ request[p].at = "clearing"
  /\ grant' = [grant EXCEPT ![Row] = NoGrant]
  /\ Reply(p)
  /\ UNCHANGED <<live, now, turn, chosen, basis>>

(* The store raises, or the process dies: the request ends, nothing written. *)
RequestFails(p) ==
  /\ Faults /\ request[p].at # "idle"
  /\ Reply(p)
  /\ UNCHANGED <<grant, live, now, turn, chosen, basis>>

(* A window switches between controlled and full access while no turn runs.  *)
Switch(w, mode) ==
  /\ turn[w].at = "idle"
  /\ Choose(w, User[w], mode, now)
  /\ UNCHANGED <<live, now, request, turn, basis>>

(* A message is submitted.  The window attaches its grant; the gateway's     *)
(* thread waits for the gateway's lock.                                      *)
Submit(h, p) ==
  /\ turn[h].at = "idle"
  /\ \/ /\ h \in Gateways /\ live
        /\ turn' = [turn EXCEPT ![h] =
                      TurnAt("submitted", p, "controlled", now, NoGrant)]
        /\ UNCHANGED grant
     \/ /\ h \in Windows /\ p = User[h]
        /\ grant' = [grant EXCEPT ![h] = Kept(@, p, now)]
        /\ turn' = [turn EXCEPT ![h] =
                      TurnAt("submitted", p, "controlled", 0, grant'[h])]
  /\ UNCHANGED <<live, now, request, chosen, basis>>

BeginAs(h, place, mode) ==
  /\ turn' = [turn EXCEPT ![h] =
                TurnAt("running", turn[h].by, mode, now, NoGrant)]
  /\ basis' = [basis EXCEPT ![h] = chosen[place]]

(* Mutants of BeginWindow: the attached grant is not looked at again; the    *)
(* window takes the mode of the gateway's row.                               *)
BeginWindowAsSubmitted(w) ==
  /\ turn[w].at = "submitted"
  /\ BeginAs(w, w, turn[w].pending.mode)
  /\ UNCHANGED <<grant, live, now, request, chosen>>

BeginWindowFromRow(w) ==
  /\ turn[w].at = "submitted"
  /\ BeginAs(w, w, ModeFor(grant[Row], turn[w].by, now))
  /\ UNCHANGED <<grant, live, now, request, chosen>>

(* The window checks the grant it attached once more. *)
BeginWindow(w) ==
  /\ turn[w].at = "submitted"
  /\ BeginAs(w, w, ModeFor(turn[w].pending, turn[w].by, now))
  /\ UNCHANGED <<grant, live, now, request, chosen>>

(* _conversation_access_mode; a store that fails reads as controlled. *)
BeginTurn(h) ==
  /\ turn[h].at = "submitted"
  /\ \/ \E t \in SampledAfter(turn[h].since) :
          /\ grant' = [grant EXCEPT ![Row] = Kept(@, turn[h].by, t)]
          /\ BeginAs(h, Row, ModeFor(grant[Row], turn[h].by, t))
     \/ /\ Faults
        /\ BeginAs(h, Row, "controlled")
        /\ UNCHANGED grant
  /\ UNCHANGED <<live, now, request, chosen>>

To(h, at, tool) == turn' = [turn EXCEPT ![h] = [@ EXCEPT !.at = at, !.tool = tool]]

(* The model calls a tool.  A request that cannot be stored blocks the call. *)
CallTool(h, tool) ==
  LET mode == turn[h].mode IN
  /\ turn[h].at = "running"
  /\ \/ Allowed(tool, mode) /\ To(h, "executing", tool)
     \/ Refused(tool, mode) /\ To(h, "blocked", tool)
     \/ /\ ~ Allowed(tool, mode) /\ ~ Refused(tool, mode)
        /\ To(h, "queued", tool) \/ (Faults /\ To(h, "blocked", tool))
  /\ UNCHANGED <<grant, live, now, request, chosen, basis>>

(* The result goes back to the model, which may call the next tool. *)
Answer(h) ==
  /\ turn[h].at \in {"executing", "queued", "blocked"}
  /\ To(h, "running", NoTool)
  /\ UNCHANGED <<grant, live, now, request, chosen, basis>>

EndTurn(h) ==
  /\ turn[h].at = "running"
  /\ turn' = [turn EXCEPT ![h] = NoTurn]
  /\ basis' = [basis EXCEPT ![h] = NoChoice]
  /\ UNCHANGED <<grant, live, now, request, chosen>>

(* A host dies; a window's grants go with its session. *)
Crash(h) ==
  /\ Faults /\ turn[h].at # "idle"
  /\ turn' = [turn EXCEPT ![h] = NoTurn]
  /\ grant' = [place \in Places |-> IF place = h THEN NoGrant ELSE grant[place]]
  /\ basis' = [basis EXCEPT ![h] = NoChoice]
  /\ UNCHANGED <<live, now, request, chosen>>

Tick == /\ now < MaxTime
        /\ now' = now + 1
        /\ UNCHANGED <<grant, live, request, turn, chosen, basis>>

Next ==
  \/ \E p \in Principals :
       \/ LookUp(p) \/ Get(p) \/ Delete(p) \/ ClearGrant(p) \/ RequestFails(p)
       \/ \E mode \in Modes : Put(p, mode)
       \/ \E h \in Hosts : Submit(h, p)
  \/ \E w \in Windows :
       \/ BeginWindow(w)
       \/ \E mode \in {"controlled", "full_access"} : Switch(w, mode)
  \/ \E h \in Gateways : BeginTurn(h)
  \/ \E h \in Hosts : \/ Answer(h) \/ EndTurn(h) \/ Crash(h)
                      \/ \E tool \in Tools : CallTool(h, tool)
  \/ Tick

Spec == Init /\ [][Next]_vars
-----------------------------------------------------------------------------
(* Properties. *)

GrantType == [by : Principals \cup {NoOne}, mode : Modes, expiresAt : Int]
ChoiceType == [by : Principals \cup {NoOne}, mode : Modes, at : Int]
TurnType == [at : {"idle", "submitted", "running", "executing", "queued", "blocked"},
             by : Principals \cup {NoOne}, mode : Modes, since : Nat,
             tool : Tools \cup {NoTool}, pending : GrantType]

(* Types; a window never carries the read-only mode.                         *)
TypeOK ==
  /\ grant \in [Places -> GrantType]
  /\ live \in BOOLEAN /\ now \in Nat
  /\ request \in [Principals -> [at : {"idle", "found", "clearing"}, since : Nat]]
  /\ turn \in [Hosts -> TurnType]
  /\ chosen \in [Places -> ChoiceType] /\ basis \in [Hosts -> ChoiceType]
  /\ \A w \in Windows : turn[w].mode # "read_only"

Unattended(h) == turn[h].at = "executing" /\ ~ Free(turn[h].tool)

(* What a turn's mode rests on, inductively.  A grant of full access stands  *)
(* for the last choice made at its place and lives no longer than that       *)
(* choice lets it; so does one attached to a message, because a window does  *)
(* not switch while a message waits; a turn with full access rests on the    *)
(* choice that stood when it began; a tool runs because that mode allows it. *)
StandsFor(g, c) ==
  g.mode = "full_access" =>
    c.by = g.by /\ c.mode = "full_access" /\ g.expiresAt <= c.at + FullTtl

GrantInv(place) ==
  /\ StandsFor(grant[place], chosen[place])
  /\ place \in Windows => grant[place].mode # "read_only"

TurnInv(h) ==
  /\ h \in Windows =>
       /\ turn[h].pending.mode # "read_only"
       /\ turn[h].at = "submitted" => StandsFor(turn[h].pending, chosen[h])
  /\ turn[h].mode = "full_access" =>
       /\ basis[h].by = turn[h].by /\ basis[h].mode = "full_access"
       /\ turn[h].since < basis[h].at + FullTtl + BusyTimeout
  /\ turn[h].at = "executing" => Allowed(turn[h].tool, turn[h].mode)

ModeInv == /\ \A place \in Places : GrantInv(place)
           /\ \A h \in Hosts : TurnInv(h)

(* A side effect that nobody confirms is one the server's own risk floor     *)
(* lets pass, in a turn of the principal who chose full access where the     *)
(* turn runs; when the turn began that was the last choice there, and no     *)
(* older than the grant lives plus the time the reading turn may wait for    *)
(* the write lock after it has read the clock.                               *)
UnattendedWasChosen ==
  \A h \in Hosts : Unattended(h) =>
    /\ turn[h].tool \notin Denied /\ turn[h].tool \in Trusted
    /\ EffectiveRank(turn[h].tool) <= RiskRank["medium"]
    /\ basis[h].by = turn[h].by /\ basis[h].mode = "full_access"
    /\ turn[h].since < basis[h].at + FullTtl + BusyTimeout

(* What the gateway would answer p now. *)
ModeOf(p) == ModeFor(grant[Row], p, now)

(* Without a choice at a place nobody gains full access there, whatever      *)
(* reads, deletions, failures, turns and crashes happen.                     *)
FullAccessIsChosen ==
  [][\A place \in Places, p \in Principals :
       /\ ModeFor(grant'[place], p, now') = "full_access"
       /\ ModeFor(grant[place], p, now) # "full_access"
       => chosen'[place] = [by |-> p, mode |-> "full_access", at |-> now]]_vars

(* "Relaxing it must stay an explicit user action" (access_mode.py); that it *)
(* expires is documented.  The code does not keep this: when another         *)
(* principal reads the mode, the row is deleted.                             *)
OnlyUsersRelax ==
  [][\A p \in Principals :
       live /\ now' = now /\ ModeOf(p) = "read_only" /\ ModeOf(p)' # "read_only" =>
         chosen' # chosen]_vars
=============================================================================
