----------------------------- MODULE ModelGateway -----------------------------
(* The model gateway one agent shares among its request threads: failover    *)
(* over a list of candidate models, the cooldown of a model that failed, the *)
(* response cache and its single-flight reservations, and the dedicated      *)
(* vision model that pictures are sent to when one is configured.  Time is   *)
(* abstracted: a cooldown, a cache entry or a wait may end at any moment.    *)
EXTENDS Naturals, Sequences, FiniteSets, Functions, Selection

CONSTANTS
  Threads,      \* request threads
  Primary,      \* the configured model
  Fallbacks,    \* a sequence: the other models, in the order of the fallback list
  Eyes,         \* the dedicated vision model
  Likely,       \* fallbacks whose name says that they see pictures
  Questions,    \* prompts with their history, pictures and cache scope
  Pictures,     \* the questions with pictures
  Pairings,     \* subset of BOOLEAN: is a dedicated vision model configured?
  Mixes,        \* the sets of questions one behaviour may ask (a bound)
  MaxAttempts,  \* llm.failover_max_attempts
  NoOne

Models == {Primary, Eyes} \cup Range(Fallbacks)
Keys == Models \X Questions

ASSUME GatewayAssumption ==
  /\ Fallbacks \in Seq(Range(Fallbacks))
  /\ Pictures \subseteq Questions /\ Likely \subseteq Range(Fallbacks)
  /\ Pairings \subseteq BOOLEAN /\ Mixes \subseteq SUBSET Questions /\ MaxAttempts \in 1..8 /\ NoOne \notin Threads

VARIABLES
  paired,   \* has_vision_pairing
  asked,    \* the questions asked in this behaviour (never changes)
  cooling,  \* the models marked unavailable
  cache,    \* the answer kept for each key: none, part of one, a whole one
  flights,  \* the thread that reserved each key
  thr       \* what each thread is doing

vars == <<paired, asked, cooling, cache, flights, thr>>

(* todo: the models still to try, the current one first; owns: whether the   *)
(* thread reserved the current key; text: what it received from the current  *)
(* model; shown: the models whose text its caller saw; next: what follows    *)
(* the release of the reservation                                            *)
Quiet == [pc |-> "idle", q |-> NoOne, stream |-> FALSE, eyes |-> FALSE, todo |-> <<>>,
          owns |-> FALSE, text |-> "none", shown |-> {}, next |-> "end"]

Init ==
  /\ paired \in Pairings /\ asked \in Mixes
  /\ cooling = {}
  /\ cache = [k \in Keys |-> "none"]
  /\ flights = [k \in Keys |-> NoOne]
  /\ thr = [t \in Threads |-> Quiet]

Model(t) == Head(thr[t].todo)
Key(t) == <<Model(t), thr[t].q>>

-----------------------------------------------------------------------------
(* Choosing the candidates *)

Available(s) == Selected(s, Models \ cooling)

(* vision_fallback_model_ids: the likely ones if there is any *)
VisionFallbacks ==
  LET ok == Available(Fallbacks)
      likely == Selected(ok, Likely)
  IN  IF likely # <<>> THEN likely ELSE ok

ModelAttempts(q) ==
  Available(<<Primary>>) \o (IF q \in Pictures THEN VisionFallbacks ELSE Available(Fallbacks))

(* the model preferred for the task goes first, the list is cut *)
Preferring(p, s) ==
  LET all == <<p>> \o Selected(s, Models \ {p})
  IN  SubSeq(all, 1, IF Len(all) < MaxAttempts THEN Len(all) ELSE MaxAttempts)

(* chat_with_failover and stream_with_failover; with no candidate they raise *)
Start(t) ==
  /\ thr[t].pc = "idle"
  /\ \E q \in asked, s \in BOOLEAN :
       LET eyes == paired /\ q \in Pictures
           attempts == ModelAttempts(q)
       IN  \E p \in IF eyes THEN {Eyes} ELSE Range(attempts) :
             thr' = [thr EXCEPT ![t] = [Quiet EXCEPT !.pc = "acquire", !.q = q, !.stream = s,
                       !.eyes = eyes, !.todo = IF eyes THEN <<p>> ELSE Preferring(p, attempts)]]
  /\ UNCHANGED <<paired, asked, cooling, cache, flights>>

-----------------------------------------------------------------------------
(* ResponseCache.acquire *)

(* a hit counts as a success of the model; a consumer that closes the        *)
(* generator at the cached answer leaves the same behind                     *)
Hit(t) ==
  /\ thr[t].pc = "acquire" /\ cache[Key(t)] # "none"
  /\ cooling' = cooling \ {Model(t)}
  /\ thr' = [thr EXCEPT ![t] = Quiet]
  /\ UNCHANGED <<paired, asked, cache, flights>>

(* the dedicated vision model is asked whatever its cooldown says *)
Asking(e) == IF e THEN "call" ELSE "check"

Reserve(t) ==
  /\ thr[t].pc = "acquire" /\ cache[Key(t)] = "none" /\ flights[Key(t)] = NoOne
  /\ flights' = [flights EXCEPT ![Key(t)] = t]
  /\ thr' = [thr EXCEPT ![t].pc = Asking(thr[t].eyes), ![t].owns = TRUE]
  /\ UNCHANGED <<paired, asked, cooling, cache>>

(* no cache, or a question it cannot take: a request without a reservation *)
Uncached(t) ==
  /\ thr[t].pc = "acquire"
  /\ thr' = [thr EXCEPT ![t].pc = Asking(thr[t].eyes)]
  /\ UNCHANGED <<paired, asked, cooling, cache, flights>>

Block(t) ==
  /\ thr[t].pc = "acquire" /\ cache[Key(t)] = "none" /\ flights[Key(t)] # NoOne
  /\ thr' = [thr EXCEPT ![t].pc = "blocked"]
  /\ UNCHANGED <<paired, asked, cooling, cache, flights>>

(* the deadline passes: the request is made without a reservation *)
GiveUpWaiting(t) ==
  /\ thr[t].pc = "blocked"
  /\ thr' = [thr EXCEPT ![t].pc = Asking(thr[t].eyes)]
  /\ UNCHANGED <<paired, asked, cooling, cache, flights>>

(* the candidates were listed before the wait: look at the cooldown again *)
Check(t) ==
  /\ thr[t].pc = "check"
  /\ thr' = [thr EXCEPT ![t] = IF Model(t) \in cooling
                               THEN [@ EXCEPT !.pc = "release", !.next = "another"]
                               ELSE [@ EXCEPT !.pc = "call"]]
  /\ UNCHANGED <<paired, asked, cooling, cache, flights>>

-----------------------------------------------------------------------------
(* The provider *)

Finish(t, next) == [thr[t] EXCEPT !.pc = "release", !.next = next]

(* a complete answer; the vision path gives up its reservation first *)
Answered(t) ==
  /\ thr[t].pc = "call" /\ ~thr[t].stream
  /\ cooling' = IF thr[t].eyes THEN cooling ELSE cooling \ {Model(t)}
  /\ thr' = [thr EXCEPT ![t] = [IF thr[t].eyes THEN Finish(t, "put") ELSE [@ EXCEPT !.pc = "put"]
                                EXCEPT !.text = "whole", !.shown = thr[t].shown \cup {Model(t)}]]
  /\ UNCHANGED <<paired, asked, cache, flights>>

(* a failure that another model may not have, an empty answer among them *)
Refused(t) ==
  /\ thr[t].pc = "call" /\ ~thr[t].eyes
  /\ cooling' = cooling \cup {Model(t)}
  /\ thr' = [thr EXCEPT ![t] = Finish(t, "another")]
  /\ UNCHANGED <<paired, asked, cache, flights>>

(* a request no model would accept; any failure of the dedicated vision model *)
Rejected(t) ==
  /\ thr[t].pc = "call"
  /\ thr' = [thr EXCEPT ![t] = Finish(t, "end")]
  /\ UNCHANGED <<paired, asked, cooling, cache, flights>>

(* only the complete-answer path tells a model that cannot see *)
CannotSee(t) ==
  /\ thr[t].pc = "call" /\ thr[t].q \in Pictures /\ ~thr[t].eyes /\ ~thr[t].stream
  /\ thr' = [thr EXCEPT ![t] = Finish(t, "another")]
  /\ UNCHANGED <<paired, asked, cooling, cache, flights>>

(* the success is recorded and a fallback announced before the chunk is shown *)
FirstChunk(t) ==
  /\ thr[t].pc = "call" /\ thr[t].stream
  /\ cooling' = cooling \ {Model(t)}
  /\ thr' = [thr EXCEPT ![t] = [@ EXCEPT !.pc = "streaming", !.text = "part",
                                         !.shown = thr[t].shown \cup {Model(t)}]]
  /\ UNCHANGED <<paired, asked, cache, flights>>

EndStream(t) ==
  /\ thr[t].pc = "streaming"
  /\ thr' = [thr EXCEPT ![t] = [IF thr[t].eyes THEN Finish(t, "put") ELSE [@ EXCEPT !.pc = "put"]
                                EXCEPT !.text = "whole"]]
  /\ UNCHANGED <<paired, asked, cooling, cache, flights>>

(* a variant that goes on with another model after showing part of an answer *)
BreakTryingAnother(t) ==
  /\ thr[t].pc = "streaming"
  /\ cooling' = IF thr[t].eyes THEN cooling ELSE cooling \cup {Model(t)}
  /\ thr' = [thr EXCEPT ![t] = Finish(t, "another")]
  /\ UNCHANGED <<paired, asked, cache, flights>>

(* the caller has seen part of the answer: the call fails *)
Break(t) ==
  /\ thr[t].pc = "streaming"
  /\ cooling' = IF thr[t].eyes THEN cooling ELSE cooling \cup {Model(t)}
  /\ thr' = [thr EXCEPT ![t] = Finish(t, "end")]
  /\ UNCHANGED <<paired, asked, cache, flights>>

(* a variant that keeps what the caller received *)
AbandonKeeping(t) ==
  /\ thr[t].pc = "streaming"
  /\ thr' = [thr EXCEPT ![t].pc = "put"]
  /\ UNCHANGED <<paired, asked, cooling, cache, flights>>

(* the consumer closes the generator, at the fallback notice or at a chunk *)
Abandon(t) ==
  /\ thr[t].pc = "streaming"
  /\ thr' = [thr EXCEPT ![t] = Finish(t, "end")]
  /\ UNCHANGED <<paired, asked, cooling, cache, flights>>

-----------------------------------------------------------------------------
(* ResponseCache.put and release *)

(* a variant that wakes the waiters of the text path before the write, too *)
PutLate(t) ==
  /\ thr[t].pc = "put"
  /\ IF thr[t].owns
     THEN /\ thr' = [thr EXCEPT ![t] = Finish(t, "put")]
          /\ UNCHANGED <<cooling, cache>>
     ELSE /\ cache' = [cache EXCEPT ![Key(t)] = thr[t].text]
          /\ cooling' = cooling
          /\ thr' = [thr EXCEPT ![t] = Quiet]
  /\ UNCHANGED <<paired, asked, flights>>

(* a write that fails is one that is forgotten at once *)
Put(t) ==
  /\ thr[t].pc = "put"
  /\ cache' = [cache EXCEPT ![Key(t)] = thr[t].text]
  /\ cooling' = IF thr[t].eyes /\ ~thr[t].stream THEN cooling \ {Model(t)} ELSE cooling
  /\ thr' = [thr EXCEPT ![t] = IF thr[t].eyes THEN Quiet ELSE Finish(t, "end")]
  /\ UNCHANGED <<paired, asked, flights>>

(* a variant that begins the list anew *)
AnotherAnew(w) ==
  [w EXCEPT !.pc = "acquire", !.todo = Append(Tail(w.todo), Head(w.todo)),
            !.owns = FALSE, !.text = "none", !.next = "end"]

(* the next candidate, or the error of the last one *)
Another(w) ==
  IF Len(w.todo) = 1 THEN Quiet
  ELSE [w EXCEPT !.pc = "acquire", !.todo = Tail(w.todo),
                 !.owns = FALSE, !.text = "none", !.next = "end"]

Following(w) ==
  CASE w.next = "another" -> Another(w)
    [] w.next = "put" -> [w EXCEPT !.pc = "put", !.owns = FALSE]
    [] w.next = "end" -> Quiet

(* a variant that frees the key whoever reserved it *)
FreesAlways(t) == TRUE
Frees(t) == thr[t].owns

(* the threads that wait for the flight look again *)
Release(t) ==
  /\ thr[t].pc = "release"
  /\ flights' = IF Frees(t) THEN [flights EXCEPT ![Key(t)] = NoOne] ELSE flights
  /\ thr' = [u \in Threads |->
               IF u = t THEN Following(thr[t])
               ELSE IF Frees(t) /\ thr[u].pc = "blocked" /\ Key(u) = Key(t)
                    THEN [thr[u] EXCEPT !.pc = "acquire"]
                    ELSE thr[u]]
  /\ UNCHANGED <<paired, asked, cooling, cache>>

-----------------------------------------------------------------------------
(* Time *)

CoolDown ==
  /\ \E m \in cooling : cooling' = cooling \ {m}
  /\ UNCHANGED <<paired, asked, cache, flights, thr>>

(* an entry outlives its time or is evicted *)
Forget ==
  /\ \E k \in Keys : cache[k] # "none" /\ cache' = [cache EXCEPT ![k] = "none"]
  /\ UNCHANGED <<paired, asked, cooling, flights, thr>>

Reply(t) ==
  \/ Answered(t) \/ Refused(t) \/ Rejected(t) \/ CannotSee(t) \/ FirstChunk(t)
  \/ EndStream(t) \/ Break(t) \/ Abandon(t)

Local(t) == Hit(t) \/ Reserve(t) \/ Uncached(t) \/ Block(t) \/ Check(t) \/ Put(t) \/ Release(t)

Next ==
  \/ \E t \in Threads : Start(t) \/ Local(t) \/ GiveUpWaiting(t) \/ Reply(t)
  \/ CoolDown \/ Forget

Spec == Init /\ [][Next]_vars

(* threads are scheduled, a provider answers or times out, and the deadline  *)
(* of a wait is fixed before its first round                                 *)
FairSpec ==
  Spec /\ \A t \in Threads : /\ WF_vars(Local(t)) /\ WF_vars(Reply(t))
                             /\ SF_vars(GiveUpWaiting(t))

-----------------------------------------------------------------------------
Work == [pc : {"idle", "acquire", "blocked", "check", "call", "streaming", "put", "release"},
         q : Questions \cup {NoOne}, stream : BOOLEAN, eyes : BOOLEAN, todo : Seq(Models),
         owns : BOOLEAN, text : {"none", "part", "whole"}, shown : SUBSET Models,
         next : {"another", "put", "end"}]

(* Types; and a key is reserved by exactly the thread that believes it       *)
(* reserved it, so a release never frees the reservation of another thread.  *)
TypeOK ==
  /\ paired \in BOOLEAN /\ asked \subseteq Questions /\ cooling \subseteq Models
  /\ cache \in [Keys -> {"none", "part", "whole"}]
  /\ flights \in [Keys -> Threads \cup {NoOne}]
  /\ thr \in [Threads -> Work]
  /\ \A t \in Threads : thr[t].pc # "idle" => thr[t].todo # <<>>
  /\ \A k \in Keys, t \in Threads :
       (flights[k] = t) <=> (thr[t].pc # "idle" /\ thr[t].owns /\ Key(t) = k)

(* Only complete answers are cached: a stream that broke or that its caller  *)
(* abandoned is never served to a later caller of the same question.         *)
CachedAnswersAreWhole == \A k \in Keys : cache[k] # "part"

(* Nobody reads an answer glued together from two models: once part of a     *)
(* stream was shown, the call ends with that model.                          *)
OneVoice == \A t \in Threads : Cardinality(thr[t].shown) <= 1

(* The owner's answer is what its waiters wake to, as the comment of acquire *)
(* says ("Waiters wake after either a complete cache write or a failure"):   *)
(* in the text path, a reservation whose request brought a whole answer ends *)
(* after the write.  The vision path does not keep to it.                    *)
Ended(k) == flights[k] # NoOne /\ flights'[k] = NoOne
WakesEmpty(k) == LET w == thr[flights[k]] IN w.text = "whole" /\ w.next = "put"
TextWaitersFindTheAnswer ==
  [][\A k \in Keys : Ended(k) /\ ~thr[flights[k]].eyes => ~WakesEmpty(k)]_vars

(* Every call ends: no chain of failing candidates, lost owners and waits    *)
(* holds a request for ever.                                                 *)
EveryCallEnds == \A t \in Threads : thr[t].pc # "idle" ~> thr[t].pc = "idle"
=============================================================================
