------------------------- MODULE ModelGatewayProofs -------------------------
(***************************************************************************)
(* Proofs about ModelGateway for every number of threads, every list of    *)
(* models and every set of questions.                                      *)
(*                                                                         *)
(* Sound says of one request what its caller saw and what it may write, by *)
(* the place it is at; Reserved, that a key is reserved by exactly the     *)
(* thread that believes it did.  Neither depends on which candidates there *)
(* are.  Typed adds the types and that a request under way has a candidate *)
(* left; Waited, that who waits finds a reservation in the table.  From    *)
(* these follow the safety halves of EveryCallEnds: a waiter waits for a   *)
(* thread at work, and every step of a request brings it nearer to its end. *)
(***************************************************************************)
EXTENDS ModelGateway, SelectionProofs

Fields == {"pc", "q", "stream", "eyes", "todo", "owns", "text", "shown", "next"}
Showless == {"acquire", "blocked", "check", "call"}

Sound(w) ==
  /\ DOMAIN w = Fields
  /\ w.pc \in {"idle", "streaming", "put", "release"} \cup Showless
  /\ w.eyes \in BOOLEAN /\ w.owns \in BOOLEAN
  /\ w.pc \in Showless \/ (w.pc = "release" /\ w.next = "another") => w.shown = {}
  /\ w.shown = {} \/ \E m : w.shown = {m}
  /\ w.pc = "put" \/ (w.pc = "release" /\ w.next = "put") => w.text = "whole"
  /\ w.next \in {"another", "put", "end"} /\ (w.next = "put" => w.eyes = TRUE)
  /\ w.pc \in {"idle", "acquire", "blocked"} \/ (w.pc = "put" /\ w.eyes) => w.owns = FALSE

Reserved ==
  /\ flights \in [Keys -> Threads \cup {NoOne}]
  /\ \A k \in Keys, t \in Threads : (flights[k] = t) <=> (thr[t].owns = TRUE /\ Key(t) = k)

IInv ==
  /\ DOMAIN thr = Threads /\ \A t \in Threads : Sound(thr[t])
  /\ Reserved
  /\ cache \in [Keys -> {"none", "whole"}]

-----------------------------------------------------------------------------
LEMMA QuietSound == Sound(Quiet) /\ Quiet.owns = FALSE
BY DEF Sound, Quiet, Fields, Showless

LEMMA InitInv == Init => IInv
<1> SUFFICES ASSUME Init PROVE IInv OBVIOUS
<1>1. DOMAIN thr = Threads /\ \A t \in Threads : thr[t] = Quiet BY DEF Init
<1>2. NoOne \notin Threads BY GatewayAssumption
<1>3. Reserved BY <1>1, <1>2, QuietSound DEF Init, Reserved
<1>4. cache \in [Keys -> {"none", "whole"}] BY DEF Init
<1> QED BY <1>1, <1>3, <1>4, QuietSound DEF IInv

(* a step of one request that keeps its reservation, or has none             *)
LEMMA RequestInv ==
  ASSUME IInv, NEW t \in Threads, NEW w, Sound(w), thr' = [thr EXCEPT ![t] = w], UNCHANGED flights,
         \/ w.owns = thr[t].owns /\ w.todo = thr[t].todo /\ w.q = thr[t].q
         \/ w.owns = FALSE /\ thr[t].owns = FALSE,
         cache' \in [Keys -> {"none", "whole"}]
  PROVE  IInv'
<1>1. /\ DOMAIN thr' = Threads /\ thr'[t] = w
      /\ \A u \in Threads : u # t => thr'[u] = thr[u]
  BY DEF IInv
<1>2. \A u \in Threads : Sound(thr'[u]) BY <1>1 DEF IInv
<1>3. \A u \in Threads, k \in Keys :
        (thr'[u].owns = TRUE /\ Key(u)' = k) <=> (thr[u].owns = TRUE /\ Key(u) = k)
  BY <1>1 DEF Key, Model
<1>4. Reserved' BY <1>3 DEF IInv, Reserved
<1> QED BY <1>1, <1>2, <1>4 DEF IInv

LEMMA StartInv == ASSUME IInv, NEW t \in Threads, Start(t) PROVE IInv'
<1>1. PICK q \in asked, s \in BOOLEAN :
        \E p \in IF paired /\ q \in Pictures THEN {Eyes} ELSE Range(ModelAttempts(q)) :
          thr' = [thr EXCEPT ![t] = [Quiet EXCEPT !.pc = "acquire", !.q = q, !.stream = s,
                    !.eyes = paired /\ q \in Pictures,
                    !.todo = IF paired /\ q \in Pictures THEN <<p>> ELSE Preferring(p, ModelAttempts(q))]]
  BY Zenon DEF Start
<1>10. PICK p : thr' = [thr EXCEPT ![t] = [Quiet EXCEPT !.pc = "acquire", !.q = q, !.stream = s,
                    !.eyes = paired /\ q \in Pictures,
                    !.todo = IF paired /\ q \in Pictures THEN <<p>> ELSE Preferring(p, ModelAttempts(q))]]
  BY <1>1, Zenon
<1>11. PICK todo : todo = IF paired /\ q \in Pictures THEN <<p>> ELSE Preferring(p, ModelAttempts(q)) OBVIOUS
<1>12. PICK eyes : eyes = (paired /\ q \in Pictures) OBVIOUS
<1>13. eyes \in BOOLEAN BY <1>12, Zenon
<1>14. thr' = [thr EXCEPT ![t] = [Quiet EXCEPT !.pc = "acquire", !.q = q, !.stream = s, !.eyes = eyes, !.todo = todo]]
  BY <1>10, <1>11, <1>12, Zenon
<1>2. PICK w : w = [Quiet EXCEPT !.pc = "acquire", !.q = q, !.stream = s, !.eyes = eyes, !.todo = todo]
  OBVIOUS
<1>3. Sound(w) /\ w.owns = FALSE BY <1>2, <1>13 DEF Sound, Quiet, Fields, Showless
<1>4. thr[t].owns = FALSE BY DEF Start, IInv, Sound
<1>5. UNCHANGED <<cache, flights>> BY DEF Start
<1> QED BY <1>14, <1>2, <1>3, <1>4, <1>5, RequestInv DEF IInv

-----------------------------------------------------------------------------
(* Steps that move a request and keep its reservation *)

LEMMA MovedInv ==
  ASSUME IInv, NEW t \in Threads, NEW pc, NEW next, UNCHANGED <<cache, flights>>,
         \/ thr' = [thr EXCEPT ![t].pc = pc] /\ next = thr[t].next
         \/ thr' = [thr EXCEPT ![t] = [thr[t] EXCEPT !.pc = pc, !.next = next]],
         \/ pc \in {"blocked", "check", "call"} /\ thr[t].pc \in Showless /\ next = thr[t].next
            /\ (pc = "blocked" => thr[t].owns = FALSE)
         \/ pc = "release" /\ next = "another" /\ thr[t].pc \in Showless
         \/ pc = "release" /\ next = "end"
  PROVE  IInv'
<1>0. Sound(thr[t]) BY DEF IInv
<1>1. PICK w : /\ w = [thr[t] EXCEPT !.pc = pc] \/ w = [thr[t] EXCEPT !.pc = pc, !.next = next]
               /\ thr' = [thr EXCEPT ![t] = w] /\ (w = [thr[t] EXCEPT !.pc = pc] => next = thr[t].next)
  <2>1. CASE thr' = [thr EXCEPT ![t].pc = pc] /\ next = thr[t].next BY <2>1
  <2>2. CASE thr' = [thr EXCEPT ![t] = [thr[t] EXCEPT !.pc = pc, !.next = next]]
    <3>1. [thr[t] EXCEPT !.pc = pc, !.next = next] = [thr[t] EXCEPT !.pc = pc] => next = thr[t].next
      <4>1. [thr[t] EXCEPT !.pc = pc, !.next = next].next = next /\ [thr[t] EXCEPT !.pc = pc].next = thr[t].next
        BY <1>0 DEF Sound, Fields
      <4> QED BY <4>1
    <3> QED BY <2>2, <3>1
  <2> QED BY <2>1, <2>2
<1>2. /\ DOMAIN w = Fields /\ w.pc = pc /\ w.next = next
      /\ w.q = thr[t].q /\ w.eyes = thr[t].eyes /\ w.todo = thr[t].todo /\ w.owns = thr[t].owns
      /\ w.text = thr[t].text /\ w.shown = thr[t].shown
  BY <1>0, <1>1 DEF Sound, Fields
<1>3. Sound(w) BY <1>0, <1>2 DEF Sound, Showless
<1> QED BY <1>1, <1>2, <1>3, RequestInv DEF IInv

LEMMA MovingInv ==
  ASSUME IInv, NEW t \in Threads,
         Uncached(t) \/ Block(t) \/ GiveUpWaiting(t) \/ Check(t) \/ Refused(t) \/ Rejected(t) \/ CannotSee(t)
           \/ Break(t) \/ Abandon(t)
  PROVE  IInv'
<1>0. Sound(thr[t]) BY DEF IInv
<1>1. CASE Block(t) BY <1>0, <1>1, MovedInv DEF Block, Sound, Showless
<1>2. CASE Uncached(t) \/ GiveUpWaiting(t)
  <2>1. PICK pc \in {"check", "call"} : thr' = [thr EXCEPT ![t].pc = pc]
    BY <1>2 DEF Uncached, GiveUpWaiting, Asking
  <2>2. thr[t].pc \in Showless /\ UNCHANGED <<cache, flights>> BY <1>2 DEF Uncached, GiveUpWaiting, Showless
  <2> QED BY <2>1, <2>2, MovedInv
<1>3. CASE Check(t)
  <2>1. thr[t].pc \in Showless /\ UNCHANGED <<cache, flights>> BY <1>3 DEF Check, Showless
  <2>2. \/ thr' = [thr EXCEPT ![t] = [thr[t] EXCEPT !.pc = "release", !.next = "another"]]
        \/ thr' = [thr EXCEPT ![t].pc = "call"]
    BY <1>3 DEF Check
  <2> QED BY <2>1, <2>2, MovedInv
<1>4. CASE Refused(t) \/ CannotSee(t)
  <2>1. thr[t].pc \in Showless /\ UNCHANGED <<cache, flights>> BY <1>4 DEF Refused, CannotSee, Showless
  <2>2. thr' = [thr EXCEPT ![t] = [thr[t] EXCEPT !.pc = "release", !.next = "another"]]
    BY <1>4 DEF Refused, CannotSee, Finish
  <2> QED BY <2>1, <2>2, MovedInv
<1>5. CASE Rejected(t) \/ Break(t) \/ Abandon(t)
  <2>1. UNCHANGED <<cache, flights>> BY <1>5 DEF Rejected, Break, Abandon
  <2>2. thr' = [thr EXCEPT ![t] = [thr[t] EXCEPT !.pc = "release", !.next = "end"]]
    BY <1>5 DEF Rejected, Break, Abandon, Finish
  <2> QED BY <2>1, <2>2, MovedInv
<1> QED BY <1>1, <1>2, <1>3, <1>4, <1>5

(* the caller is shown text of the current model *)
LEMMA ShownInv ==
  ASSUME IInv, NEW t \in Threads, Answered(t) \/ FirstChunk(t) \/ EndStream(t) PROVE IInv'
<1>0. Sound(thr[t]) /\ UNCHANGED <<cache, flights>> BY DEF IInv, Answered, FirstChunk, EndStream
<1>2. CASE Answered(t)
  <2>0. thr' = [thr EXCEPT ![t] =
              [IF thr[t].eyes THEN [thr[t] EXCEPT !.pc = "release", !.next = "put"]
                              ELSE [thr[t] EXCEPT !.pc = "put"]
               EXCEPT !.text = "whole", !.shown = thr[t].shown \cup {Model(t)}]]
    BY <1>2, Zenon DEF Answered, Finish
  <2>a. PICK w : w =
              [IF thr[t].eyes THEN [thr[t] EXCEPT !.pc = "release", !.next = "put"]
                              ELSE [thr[t] EXCEPT !.pc = "put"]
               EXCEPT !.text = "whole", !.shown = thr[t].shown \cup {Model(t)}]
    OBVIOUS
  <2>1. thr' = [thr EXCEPT ![t] = w] BY <2>0, <2>a, Zenon
  <2>2. thr[t].pc = "call" /\ thr[t].shown = {} BY <1>0, <1>2 DEF Answered, Sound, Showless
  <2>3. /\ DOMAIN w = Fields /\ w.text = "whole" /\ w.shown = {Model(t)}
        /\ w.q = thr[t].q /\ w.eyes = thr[t].eyes /\ w.todo = thr[t].todo /\ w.owns = thr[t].owns
        /\ IF thr[t].eyes THEN w.pc = "release" /\ w.next = "put" ELSE w.pc = "put" /\ w.next = thr[t].next
    BY <1>0, <2>a, <2>2 DEF Sound, Fields
  <2>4. Sound(w) BY <1>0, <2>3 DEF Sound, Showless
  <2> QED BY <1>0, <2>1, <2>3, <2>4, RequestInv DEF IInv
<1>3. CASE FirstChunk(t)
  <2>0. thr' = [thr EXCEPT ![t] =
              [thr[t] EXCEPT !.pc = "streaming", !.text = "part", !.shown = thr[t].shown \cup {Model(t)}]]
    BY <1>3, Zenon DEF FirstChunk
  <2>a. PICK w : w = [thr[t] EXCEPT !.pc = "streaming", !.text = "part", !.shown = thr[t].shown \cup {Model(t)}]
    OBVIOUS
  <2>1. thr' = [thr EXCEPT ![t] = w] BY <2>0, <2>a, Zenon
  <2>2. thr[t].pc = "call" /\ thr[t].shown = {} BY <1>0, <1>3 DEF FirstChunk, Sound, Showless
  <2>3. /\ DOMAIN w = Fields /\ w.pc = "streaming" /\ w.shown = {Model(t)} /\ w.next = thr[t].next
        /\ w.q = thr[t].q /\ w.eyes = thr[t].eyes /\ w.todo = thr[t].todo /\ w.owns = thr[t].owns
    BY <1>0, <2>a, <2>2 DEF Sound, Fields
  <2>4. Sound(w) BY <1>0, <2>3 DEF Sound, Showless
  <2> QED BY <1>0, <2>1, <2>3, <2>4, RequestInv DEF IInv
<1>4. CASE EndStream(t)
  <2>1. PICK w : thr' = [thr EXCEPT ![t] = w] /\
          w = [IF thr[t].eyes THEN [thr[t] EXCEPT !.pc = "release", !.next = "put"]
                              ELSE [thr[t] EXCEPT !.pc = "put"]
               EXCEPT !.text = "whole"]
    BY <1>4 DEF EndStream, Finish
  <2>2. /\ DOMAIN w = Fields /\ w.text = "whole" /\ w.shown = thr[t].shown
        /\ w.q = thr[t].q /\ w.eyes = thr[t].eyes /\ w.todo = thr[t].todo /\ w.owns = thr[t].owns
        /\ IF thr[t].eyes THEN w.pc = "release" /\ w.next = "put" ELSE w.pc = "put" /\ w.next = thr[t].next
    BY <1>0, <2>1 DEF Sound, Fields
  <2>3. Sound(w) BY <1>0, <2>2 DEF Sound, Showless
  <2> QED BY <1>0, <2>1, <2>2, <2>3, RequestInv DEF IInv
<1> QED BY <1>2, <1>3, <1>4

-----------------------------------------------------------------------------
(* The cache and the reservations *)

LEMMA HitInv == ASSUME IInv, NEW t \in Threads, Hit(t) PROVE IInv'
<1>1. thr[t].owns = FALSE BY DEF Hit, IInv, Sound
<1>2. thr' = [thr EXCEPT ![t] = Quiet] /\ UNCHANGED <<cache, flights>> BY DEF Hit
<1> QED BY <1>1, <1>2, QuietSound, RequestInv DEF IInv

LEMMA PutInv == ASSUME IInv, NEW t \in Threads, Put(t) PROVE IInv'
<1>0. Sound(thr[t]) /\ thr[t].pc = "put" /\ UNCHANGED flights BY DEF IInv, Put
<1>1. thr[t].text = "whole" BY <1>0 DEF Sound
<1>2. cache' \in [Keys -> {"none", "whole"}] BY <1>1 DEF IInv, Put
<1>3. CASE thr[t].eyes
  <2>1. thr' = [thr EXCEPT ![t] = Quiet] BY <1>3 DEF Put
  <2>2. thr[t].owns = FALSE BY <1>0, <1>3 DEF Sound
  <2> QED BY <1>0, <1>2, <2>1, <2>2, QuietSound, RequestInv
<1>4. CASE ~thr[t].eyes
  <2>1. PICK w : w = [thr[t] EXCEPT !.pc = "release", !.next = "end"] /\ thr' = [thr EXCEPT ![t] = w]
    BY <1>4 DEF Put, Finish
  <2>2. /\ DOMAIN w = Fields /\ w.pc = "release" /\ w.next = "end" /\ w.shown = thr[t].shown
        /\ w.q = thr[t].q /\ w.eyes = thr[t].eyes /\ w.todo = thr[t].todo /\ w.owns = thr[t].owns
    BY <1>0, <2>1 DEF Sound, Fields
  <2>3. Sound(w) BY <1>0, <2>2 DEF Sound, Showless
  <2> QED BY <1>0, <1>2, <2>1, <2>2, <2>3, RequestInv
<1> QED BY <1>3, <1>4

LEMMA ReserveInv == ASSUME IInv, NEW t \in Threads, Reserve(t) PROVE IInv'
<1>0. /\ Sound(thr[t]) /\ thr[t].pc = "acquire" /\ thr[t].owns = FALSE /\ UNCHANGED cache
  BY DEF IInv, Sound, Reserve
<1>1. PICK pc \in {"check", "call"} : pc = Asking(thr[t].eyes) BY DEF Asking
<1>2. PICK w : w = [thr[t] EXCEPT !.pc = pc, !.owns = TRUE] /\ thr' = [thr EXCEPT ![t] = w]
  BY <1>1 DEF Reserve
<1>3. /\ DOMAIN w = Fields /\ w.pc = pc /\ w.owns = TRUE /\ w.q = thr[t].q /\ w.todo = thr[t].todo
      /\ w.eyes = thr[t].eyes /\ w.next = thr[t].next /\ w.shown = thr[t].shown /\ w.text = thr[t].text
  BY <1>0, <1>2 DEF Sound, Fields
<1>4. Sound(w) BY <1>0, <1>3 DEF Sound, Showless
<1>5. DOMAIN thr' = Threads /\ thr'[t] = w /\ \A u \in Threads : u # t => thr'[u] = thr[u]
  BY <1>2 DEF IInv
<1>6. PICK key : key = Key(t) OBVIOUS
<1>7. /\ flights' = [flights EXCEPT ![key] = t] /\ flights[key] = NoOne /\ Key(t)' = key
      /\ \A u \in Threads : u # t => Key(u)' = Key(u)
  BY <1>3, <1>5, <1>6 DEF Reserve, Key, Model
<1>8. Reserved'
  <2>1. NoOne \notin Threads BY GatewayAssumption
  <2>2. flights' \in [Keys -> Threads \cup {NoOne}] BY <1>7 DEF IInv, Reserved
  <2>3. ASSUME NEW k \in Keys, NEW u \in Threads
        PROVE  (flights'[k] = u) <=> (thr'[u].owns = TRUE /\ Key(u)' = k)
    <3>1. (flights[k] = u) <=> (thr[u].owns = TRUE /\ Key(u) = k) BY DEF IInv, Reserved
    <3>2. CASE k = key
      <4>1. flights'[k] = t /\ flights[k] = NoOne BY <1>7, <3>2 DEF IInv, Reserved
      <4> QED BY <1>3, <1>5, <1>7, <2>1, <3>1, <3>2, <4>1
    <3>3. CASE k # key
      <4>1. flights'[k] = flights[k] BY <1>7, <3>3 DEF IInv, Reserved
      <4> QED BY <1>0, <1>5, <1>7, <3>1, <3>3, <4>1
    <3> QED BY <3>2, <3>3
  <2> QED BY <2>2, <2>3 DEF Reserved
<1> QED BY <1>0, <1>4, <1>5, <1>8 DEF IInv

LEMMA FollowingSound ==
  ASSUME NEW w, Sound(w), w.pc = "release" PROVE Sound(Following(w)) /\ Following(w).owns = FALSE
<1>1. CASE w.next = "another"
  <2>1. CASE Len(w.todo) = 1
    <3>1. Following(w) = Quiet BY <1>1, <2>1 DEF Following, Another
    <3> QED BY <3>1, QuietSound
  <2>2. CASE Len(w.todo) # 1
    <3>1. PICK v : v = [w EXCEPT !.pc = "acquire", !.todo = Tail(w.todo), !.owns = FALSE, !.text = "none",
                                 !.next = "end"]
      OBVIOUS
    <3>2. Following(w) = v BY <1>1, <2>2, <3>1 DEF Following, Another
    <3>3. /\ DOMAIN v = Fields /\ v.pc = "acquire" /\ v.owns = FALSE /\ v.next = "end"
          /\ v.shown = w.shown /\ v.eyes = w.eyes
      BY <3>1 DEF Sound, Fields
    <3> QED BY <1>1, <3>2, <3>3 DEF Sound, Showless
  <2> QED BY <2>1, <2>2
<1>2. CASE w.next = "put"
  <2>1. PICK v : v = [w EXCEPT !.pc = "put", !.owns = FALSE] OBVIOUS
  <2>2. Following(w) = v BY <1>2, <2>1 DEF Following
  <2>3. /\ DOMAIN v = Fields /\ v.pc = "put" /\ v.owns = FALSE /\ v.next = "put"
        /\ v.shown = w.shown /\ v.eyes = w.eyes /\ v.text = w.text
    BY <1>2, <2>1 DEF Sound, Fields
  <2> QED BY <1>2, <2>2, <2>3 DEF Sound, Showless
<1>3. CASE w.next = "end"
  <2>1. Following(w) = Quiet BY <1>3 DEF Following
  <2> QED BY <2>1, QuietSound
<1> QED BY <1>1, <1>2, <1>3 DEF Sound

LEMMA ReleaseInv == ASSUME IInv, NEW t \in Threads, Release(t) PROVE IInv'
<1>0. Sound(thr[t]) /\ thr[t].pc = "release" /\ UNCHANGED cache BY DEF IInv, Release
<1>1. thr' = [u \in Threads |->
               IF u = t THEN Following(thr[t])
               ELSE IF Frees(t) /\ thr[u].pc = "blocked" /\ Key(u) = Key(t)
                    THEN [thr[u] EXCEPT !.pc = "acquire"] ELSE thr[u]]
  BY DEF Release
<1>2. DOMAIN thr' = Threads /\ Sound(thr'[t]) /\ thr'[t].owns = FALSE
  BY <1>0, <1>1, FollowingSound
<1>3. ASSUME NEW u \in Threads, u # t
      PROVE  /\ Sound(thr'[u]) /\ thr'[u].owns = thr[u].owns
             /\ thr'[u].todo = thr[u].todo /\ thr'[u].q = thr[u].q
  <2>1. Sound(thr[u]) BY DEF IInv
  <2>2. CASE thr'[u] = thr[u] BY <2>1, <2>2
  <2>3. CASE thr[u].pc = "blocked" /\ thr'[u] = [thr[u] EXCEPT !.pc = "acquire"]
    <3>1. PICK v : v = thr'[u] OBVIOUS
    <3>2. /\ DOMAIN v = Fields /\ v.pc = "acquire" /\ v.owns = thr[u].owns /\ v.next = thr[u].next
          /\ v.shown = thr[u].shown /\ v.eyes = thr[u].eyes /\ v.todo = thr[u].todo /\ v.q = thr[u].q
      BY <2>1, <2>3, <3>1 DEF Sound, Fields
    <3>3. Sound(v) BY <2>1, <2>3, <3>2 DEF Sound, Showless
    <3> QED BY <3>1, <3>2, <3>3
  <2> QED BY <1>1, <1>3, <2>2, <2>3
<1>4. Reserved'
  <2>1. NoOne \notin Threads BY GatewayAssumption
  <2>2. flights \in [Keys -> Threads \cup {NoOne}] BY DEF IInv, Reserved
  <2>3. PICK key : key = Key(t) OBVIOUS
  <2>4. flights' = (IF thr[t].owns THEN [flights EXCEPT ![key] = NoOne] ELSE flights)
    BY <2>3 DEF Release, Frees
  <2>5. flights' \in [Keys -> Threads \cup {NoOne}] BY <2>2, <2>4
  <2>6. ASSUME NEW k \in Keys, NEW u \in Threads
        PROVE  (flights'[k] = u) <=> (thr'[u].owns = TRUE /\ Key(u)' = k)
    <3>1. /\ (flights[k] = u) <=> (thr[u].owns = TRUE /\ Key(u) = k)
          /\ (flights[k] = t) <=> (thr[t].owns = TRUE /\ key = k)
      BY <2>3 DEF IInv, Reserved
    <3>2. thr[t].owns \in BOOLEAN BY <1>0 DEF Sound
    <3>3. CASE u = t
      <4>1. flights'[k] # t BY <2>1, <2>2, <2>4, <3>1, <3>2
      <4> QED BY <1>2, <3>3, <4>1
    <3>4. CASE u # t
      <4>1. (thr'[u].owns = TRUE /\ Key(u)' = k) <=> (thr[u].owns = TRUE /\ Key(u) = k)
        BY <1>3, <3>4 DEF Key, Model
      <4>2. (flights'[k] = u) <=> (flights[k] = u) BY <2>1, <2>2, <2>4, <3>1, <3>2, <3>4
      <4> QED BY <3>1, <4>1, <4>2
    <3> QED BY <3>3, <3>4
  <2> QED BY <2>5, <2>6 DEF Reserved
<1>5. \A u \in Threads : Sound(thr'[u]) BY <1>2, <1>3
<1> QED BY <1>0, <1>2, <1>4, <1>5 DEF IInv

LEMMA NextInv == ASSUME IInv, [Next]_vars PROVE IInv'
<1>1. ASSUME NEW t \in Threads, Start(t) \/ Local(t) \/ GiveUpWaiting(t) \/ Reply(t) PROVE IInv'
  <2>1. CASE Start(t) BY <2>1, StartInv
  <2>2. CASE Local(t) BY <2>2, HitInv, ReserveInv, MovingInv, PutInv, ReleaseInv DEF Local
  <2>3. CASE GiveUpWaiting(t) BY <2>3, MovingInv
  <2>4. CASE Reply(t) BY <2>4, MovingInv, ShownInv DEF Reply
  <2> QED BY <1>1, <2>1, <2>2, <2>3, <2>4
<1>2. CASE CoolDown \/ UNCHANGED vars
  BY <1>2 DEF CoolDown, vars, IInv, Reserved, Key, Model
<1>3. CASE Forget
  <2>1. PICK k \in Keys : cache' = [cache EXCEPT ![k] = "none"] BY <1>3 DEF Forget
  <2>2. cache' \in [Keys -> {"none", "whole"}] BY <2>1 DEF IInv
  <2>3. UNCHANGED <<thr, flights>> BY <1>3 DEF Forget
  <2>4. Reserved' BY <2>3 DEF IInv, Reserved, Key, Model
  <2> QED BY <2>2, <2>3, <2>4 DEF IInv
<1> QED BY <1>1, <1>2, <1>3 DEF Next

-----------------------------------------------------------------------------
(* Every request is sound, and a key is reserved by exactly the thread that  *)
(* believes it reserved it (ResponseCache.acquire, release).                 *)
THEOREM InductiveInvariant == Spec => []IInv
<1>1. Init => IInv BY InitInv
<1>2. IInv /\ [Next]_vars => IInv' BY NextInv
<1> QED BY <1>1, <1>2, PTL DEF Spec

(* Whatever breaks, is abandoned or fails over, only whole answers are       *)
(* cached (put is called after the provider's answer is complete).           *)
THEOREM WholeTheorem == Spec => []CachedAnswersAreWhole
<1>1. IInv => CachedAnswersAreWhole BY DEF IInv, CachedAnswersAreWhole
<1> QED BY <1>1, InductiveInvariant, PTL

(* A caller sees text of one model at most (stream_with_failover raises once *)
(* something was yielded), however long the list of candidates.              *)
THEOREM OneVoiceTheorem == Spec => []OneVoice
<1>1. IInv => OneVoice
  <2> SUFFICES ASSUME IInv, NEW t \in Threads PROVE Cardinality(thr[t].shown) <= 1 BY DEF OneVoice
  <2>1. thr[t].shown = {} \/ \E m : thr[t].shown = {m} BY DEF IInv, Sound
  <2>2. CASE thr[t].shown = {}
    <3>1. Cardinality(thr[t].shown) = 0 BY <2>2, FS_EmptySet
    <3> QED BY <3>1
  <2>3. CASE \E m : thr[t].shown = {m}
    <3>1. PICK m : thr[t].shown = {m} BY <2>3
    <3>2. Cardinality(thr[t].shown) = 1 BY <3>1, FS_Singleton
    <3> QED BY <3>2
  <2> QED BY <2>1, <2>2, <2>3
<1> QED BY <1>1, InductiveInvariant, PTL

(* In the text path the reservation of a request that brought a whole answer *)
(* ends after the answer is in the cache (the comment of acquire).           *)
THEOREM WaitersTheorem == Spec => TextWaitersFindTheAnswer
<1> DEFINE Quietly == \A k \in Keys : Ended(k) /\ ~thr[flights[k]].eyes => ~WakesEmpty(k)
<1>1. ASSUME IInv, [Next]_vars PROVE Quietly
  <2> SUFFICES ASSUME NEW k \in Keys, Ended(k), ~thr[flights[k]].eyes, WakesEmpty(k) PROVE FALSE
    OBVIOUS
  <2>1. flights[k] \in Threads BY <1>1 DEF Ended, IInv, Reserved
  <2>2. thr[flights[k]].next = "put" BY DEF WakesEmpty
  <2>3. thr[flights[k]].eyes = TRUE BY <1>1, <2>1, <2>2 DEF IInv, Sound
  <2> QED BY <2>3
<1>2. IInv /\ [Next]_vars => [Quietly]_vars BY <1>1
<1> QED BY <1>2, InductiveInvariant, PTL DEF Spec, TextWaitersFindTheAnswer

-----------------------------------------------------------------------------
(* The types, and the candidates: a request that is under way has a current  *)
(* model, however the lists are filtered, reordered and cut.                 *)

Typed ==
  /\ paired \in BOOLEAN /\ asked \subseteq Questions /\ cooling \subseteq Models
  /\ thr \in [Threads -> Work]
  /\ \A t \in Threads : thr[t].pc # "idle" => thr[t].todo # <<>>

LEMMA QuietTyped == Quiet \in Work /\ Quiet.pc = "idle"
<1>1. <<>> \in Seq(Models) OBVIOUS
<1> QED BY <1>1 DEF Quiet, Work

(* what is selected from models are models *)
LEMMA ModelsSelected == ASSUME NEW s \in Seq(Models), NEW T PROVE Selected(s, T) \in Seq(Models)
BY SelectedElements

LEMMA AttemptsAreModels == ASSUME NEW q PROVE ModelAttempts(q) \in Seq(Models)
<1>1. Fallbacks \in Seq(Models)
  <2>1. Fallbacks \in Seq(Range(Fallbacks)) BY GatewayAssumption
  <2>2. Range(Fallbacks) \subseteq Models BY DEF Models
  <2>3. PICK R : R = Range(Fallbacks) OBVIOUS
  <2> QED BY <2>1, <2>2, <2>3
<1>2. <<Primary>> \in Seq(Models)
  <2>1. Primary \in Models BY DEF Models
  <2> QED BY <2>1
<1>3. \A s \in Seq(Models) : Available(s) \in Seq(Models) BY ModelsSelected DEF Available
<1>4. VisionFallbacks \in Seq(Models)
  <2>1. Available(Fallbacks) \in Seq(Models) BY <1>1, <1>3
  <2>2. Selected(Available(Fallbacks), Likely) \in Seq(Models) BY <2>1, ModelsSelected
  <2> QED BY <2>1, <2>2 DEF VisionFallbacks
<1>5. Available(<<Primary>>) \in Seq(Models) /\ Available(Fallbacks) \in Seq(Models) BY <1>1, <1>2, <1>3
<1>6. PICK v : v = IF q \in Pictures THEN VisionFallbacks ELSE Available(Fallbacks) OBVIOUS
<1>7. v \in Seq(Models) BY <1>4, <1>5, <1>6
<1>8. Available(<<Primary>>) \o v \in Seq(Models) BY <1>5, <1>7
<1> QED BY <1>6, <1>8 DEF ModelAttempts

LEMMA PreferredFirst ==
  ASSUME NEW p \in Models, NEW s \in Seq(Models)
  PROVE  Preferring(p, s) \in Seq(Models) /\ Preferring(p, s) # <<>>
<1>1. PICK w : w = Selected(s, Models \ {p}) OBVIOUS
<1>2. w \in Seq(Models) BY <1>1, ModelsSelected
<1>3. PICK all : all = <<p>> \o w OBVIOUS
<1>4. all \in Seq(Models) /\ Len(all) \in Nat /\ Len(all) >= 1 BY <1>2, <1>3
<1>5. PICK n : n = IF Len(all) < MaxAttempts THEN Len(all) ELSE MaxAttempts OBVIOUS
<1>6. n \in Nat /\ 1 <= n /\ n <= Len(all) BY <1>4, <1>5, GatewayAssumption
<1>7. PICK cut : cut = SubSeq(all, 1, n) OBVIOUS
<1>8. cut \in Seq(Models) /\ Len(cut) = n BY <1>4, <1>6, <1>7
<1>9. cut # <<>> BY <1>6, <1>8
<1>10. Preferring(p, s) = cut BY <1>1, <1>3, <1>5, <1>7 DEF Preferring
<1> QED BY <1>8, <1>9, <1>10

LEMMA CurrentModel ==
  ASSUME Typed, NEW t \in Threads, thr[t].pc # "idle" PROVE Model(t) \in Models
<1>1. PICK s : s = thr[t].todo OBVIOUS
<1>2. s \in Seq(Models) /\ s # <<>> BY <1>1 DEF Typed, Work
<1>3. Head(s) \in Models BY <1>2
<1> QED BY <1>1, <1>3 DEF Model

(* a step of one request *)
LEMMA TypedStep ==
  ASSUME Typed, NEW t \in Threads, NEW w \in Work, w.pc # "idle" => w.todo # <<>>,
         thr' = [thr EXCEPT ![t] = w], cooling' \subseteq Models, UNCHANGED <<paired, asked>>
  PROVE  Typed'
<1>1. thr' \in [Threads -> Work] BY DEF Typed
<1>2. \A u \in Threads : thr'[u].pc # "idle" => thr'[u].todo # <<>> BY DEF Typed
<1> QED BY <1>1, <1>2 DEF Typed

LEMMA StartTyped == ASSUME Typed, NEW t \in Threads, Start(t) PROVE Typed'
<1>1. PICK q \in asked, s \in BOOLEAN :
        \E p \in IF paired /\ q \in Pictures THEN {Eyes} ELSE Range(ModelAttempts(q)) :
          thr' = [thr EXCEPT ![t] = [Quiet EXCEPT !.pc = "acquire", !.q = q, !.stream = s,
                    !.eyes = paired /\ q \in Pictures,
                    !.todo = IF paired /\ q \in Pictures THEN <<p>> ELSE Preferring(p, ModelAttempts(q))]]
  BY Zenon DEF Start
<1>2. PICK eyes : eyes = (paired /\ q \in Pictures) OBVIOUS
<1>3. eyes \in BOOLEAN BY <1>2, Zenon
<1>4. PICK p \in IF eyes THEN {Eyes} ELSE Range(ModelAttempts(q)) :
        thr' = [thr EXCEPT ![t] = [Quiet EXCEPT !.pc = "acquire", !.q = q, !.stream = s, !.eyes = eyes,
                                   !.todo = IF eyes THEN <<p>> ELSE Preferring(p, ModelAttempts(q))]]
  BY <1>1, <1>2, Zenon
<1>5. PICK todo : todo = IF eyes THEN <<p>> ELSE Preferring(p, ModelAttempts(q)) OBVIOUS
<1>6. ModelAttempts(q) \in Seq(Models) BY AttemptsAreModels
<1>7. p \in Models
  <2>1. Eyes \in Models BY DEF Models
  <2>2. PICK a : a = ModelAttempts(q) OBVIOUS
  <2>3. a \in Seq(Models) BY <1>6, <2>2
  <2>4. Range(a) \subseteq Models BY <2>3 DEF Range
  <2> QED BY <1>3, <1>4, <2>1, <2>2, <2>4
<1>8. todo \in Seq(Models) /\ todo # <<>>
  <2>1. <<p>> \in Seq(Models) /\ <<p>> # <<>> BY <1>7
  <2>2. Preferring(p, ModelAttempts(q)) \in Seq(Models) /\ Preferring(p, ModelAttempts(q)) # <<>>
    BY <1>6, <1>7, PreferredFirst
  <2> QED BY <1>3, <1>5, <2>1, <2>2
<1>9. PICK w : w = [Quiet EXCEPT !.pc = "acquire", !.q = q, !.stream = s, !.eyes = eyes, !.todo = todo]
  OBVIOUS
<1>10. q \in Questions BY DEF Typed
<1>11. w \in Work /\ w.todo # <<>> BY <1>3, <1>8, <1>9, <1>10 DEF Work, Quiet
<1>12. thr' = [thr EXCEPT ![t] = w] BY <1>4, <1>5, <1>9, Zenon
<1>13. cooling' \subseteq Models /\ UNCHANGED <<paired, asked>> BY DEF Start, Typed
<1> QED BY <1>11, <1>12, <1>13, TypedStep

LEMMA AskingTyped == ASSUME NEW e PROVE Asking(e) \in {"check", "call"}
BY DEF Asking

LEMMA LocalTyped ==
  ASSUME Typed, NEW t \in Threads, Hit(t) \/ Reserve(t) \/ Uncached(t) \/ Block(t) \/ GiveUpWaiting(t) \/ Check(t)
  PROVE  Typed'
<1>0. thr[t] \in Work /\ cooling \subseteq Models BY DEF Typed
<1>1. CASE Hit(t)
  <2>1. /\ thr' = [thr EXCEPT ![t] = Quiet] /\ cooling' = cooling \ {Model(t)}
        /\ UNCHANGED <<paired, asked>>
    BY <1>1 DEF Hit
  <2>2. cooling' \subseteq Models BY <1>0, <2>1
  <2> QED BY <2>1, <2>2, QuietTyped, TypedStep
<1>2. CASE Reserve(t)
  <2>1. PICK place \in {"check", "call"} : place = Asking(thr[t].eyes) BY AskingTyped
  <2>2. PICK w : w = [thr[t] EXCEPT !.pc = place, !.owns = TRUE] OBVIOUS
  <2>3. /\ thr' = [thr EXCEPT ![t] = w] /\ thr[t].pc = "acquire" /\ cooling' = cooling
        /\ UNCHANGED <<paired, asked>>
    BY <1>2, <2>1, <2>2 DEF Reserve
  <2>4. w \in Work /\ w.todo = thr[t].todo BY <1>0, <2>2 DEF Work
  <2>5. w.todo # <<>> BY <2>3, <2>4 DEF Typed
  <2> QED BY <1>0, <2>3, <2>4, <2>5, TypedStep
<1>3. CASE Uncached(t) \/ Block(t) \/ GiveUpWaiting(t)
  <2>1. PICK place \in {"blocked", "check", "call"} : thr' = [thr EXCEPT ![t] = [thr[t] EXCEPT !.pc = place]]
    BY <1>3, AskingTyped DEF Uncached, Block, GiveUpWaiting
  <2>2. PICK w : w = [thr[t] EXCEPT !.pc = place] OBVIOUS
  <2>3. thr[t].pc # "idle" /\ cooling' = cooling /\ UNCHANGED <<paired, asked>>
    BY <1>3 DEF Uncached, Block, GiveUpWaiting
  <2>4. w \in Work /\ w.todo = thr[t].todo BY <1>0, <2>2 DEF Work
  <2>5. w.todo # <<>> BY <2>3, <2>4 DEF Typed
  <2> QED BY <1>0, <2>1, <2>2, <2>3, <2>4, <2>5, TypedStep
<1>4. CASE Check(t)
  <2>1. PICK w : w = IF Model(t) \in cooling THEN [thr[t] EXCEPT !.pc = "release", !.next = "another"]
                                             ELSE [thr[t] EXCEPT !.pc = "call"]
    OBVIOUS
  <2>2. /\ thr' = [thr EXCEPT ![t] = w] /\ thr[t].pc = "check" /\ cooling' = cooling
        /\ UNCHANGED <<paired, asked>>
    BY <1>4, <2>1 DEF Check
  <2>3. w \in Work /\ w.todo = thr[t].todo BY <1>0, <2>1 DEF Work
  <2>4. w.todo # <<>> BY <2>2, <2>3 DEF Typed
  <2> QED BY <1>0, <2>2, <2>3, <2>4, TypedStep
<1> QED BY <1>1, <1>2, <1>3, <1>4

LEMMA ReplyTyped == ASSUME Typed, NEW t \in Threads, Reply(t) PROVE Typed'
<1>0. thr[t] \in Work /\ cooling \subseteq Models /\ UNCHANGED <<paired, asked>>
  BY DEF Typed, Reply, Answered, Refused, Rejected, CannotSee, FirstChunk, EndStream, Break, Abandon
<1>1. thr[t].pc # "idle"
  BY DEF Reply, Answered, Refused, Rejected, CannotSee, FirstChunk, EndStream, Break, Abandon
<1>2. Model(t) \in Models /\ thr[t].todo # <<>> BY <1>1, CurrentModel DEF Typed
<1>3. cooling' \subseteq Models
  <2>1. cooling' = cooling \/ cooling' = cooling \ {Model(t)} \/ cooling' = cooling \cup {Model(t)}
    BY DEF Reply, Answered, Refused, Rejected, CannotSee, FirstChunk, EndStream, Break, Abandon
  <2> QED BY <1>0, <1>2, <2>1
<1>4. CASE Refused(t) \/ Rejected(t) \/ CannotSee(t) \/ Break(t) \/ Abandon(t)
  <2>1. PICK next \in {"another", "end"} :
          thr' = [thr EXCEPT ![t] = [thr[t] EXCEPT !.pc = "release", !.next = next]]
    BY <1>4 DEF Refused, Rejected, CannotSee, Break, Abandon, Finish
  <2>2. PICK w : w = [thr[t] EXCEPT !.pc = "release", !.next = next] OBVIOUS
  <2>3. w \in Work /\ w.todo = thr[t].todo BY <1>0, <2>2 DEF Work
  <2> QED BY <1>0, <1>2, <1>3, <2>1, <2>2, <2>3, TypedStep
<1>5. CASE Answered(t) \/ EndStream(t)
  <2>1. PICK base : base = IF thr[t].eyes THEN [thr[t] EXCEPT !.pc = "release", !.next = "put"]
                                          ELSE [thr[t] EXCEPT !.pc = "put"]
    OBVIOUS
  <2>2. base \in Work /\ base.todo = thr[t].todo BY <1>0, <2>1 DEF Work
  <2>3. PICK w : /\ thr' = [thr EXCEPT ![t] = w]
                 /\ \/ w = [base EXCEPT !.text = "whole", !.shown = thr[t].shown \cup {Model(t)}]
                    \/ w = [base EXCEPT !.text = "whole"]
    <3>1. CASE Answered(t)
      <4>1. thr' = [thr EXCEPT ![t] = [base EXCEPT !.text = "whole", !.shown = thr[t].shown \cup {Model(t)}]]
        BY <2>1, <3>1, Zenon DEF Answered, Finish
      <4> QED BY <4>1
    <3>2. CASE EndStream(t)
      <4>1. thr' = [thr EXCEPT ![t] = [base EXCEPT !.text = "whole"]]
        BY <2>1, <3>2, Zenon DEF EndStream, Finish
      <4> QED BY <4>1
    <3> QED BY <1>5, <3>1, <3>2
  <2>4. thr[t].shown \cup {Model(t)} \in SUBSET Models BY <1>0, <1>2 DEF Work
  <2>5. w \in Work /\ w.todo = base.todo BY <2>2, <2>3, <2>4 DEF Work
  <2> QED BY <1>0, <1>2, <1>3, <2>2, <2>3, <2>5, TypedStep
<1>6. CASE FirstChunk(t)
  <2>1. PICK w : w = [thr[t] EXCEPT !.pc = "streaming", !.text = "part", !.shown = thr[t].shown \cup {Model(t)}]
    OBVIOUS
  <2>2. thr' = [thr EXCEPT ![t] = w] BY <1>6, <2>1, Zenon DEF FirstChunk
  <2>3. thr[t].shown \cup {Model(t)} \in SUBSET Models BY <1>0, <1>2 DEF Work
  <2>4. w \in Work /\ w.todo = thr[t].todo BY <1>0, <2>1, <2>3 DEF Work
  <2> QED BY <1>0, <1>2, <1>3, <2>2, <2>4, TypedStep
<1> QED BY <1>4, <1>5, <1>6 DEF Reply

LEMMA PutTyped == ASSUME Typed, NEW t \in Threads, Put(t) PROVE Typed'
<1>0. /\ thr[t] \in Work /\ thr[t].pc = "put" /\ thr[t].todo # <<>> /\ cooling' \subseteq Models
      /\ UNCHANGED <<paired, asked>>
  BY DEF Typed, Put
<1>1. PICK w : w = IF thr[t].eyes THEN Quiet ELSE [thr[t] EXCEPT !.pc = "release", !.next = "end"] OBVIOUS
<1>2. thr' = [thr EXCEPT ![t] = w] BY <1>1 DEF Put, Finish
<1>3. w \in Work /\ (w.pc # "idle" => w.todo # <<>>)
  <2>1. CASE thr[t].eyes BY <1>1, <2>1, QuietTyped
  <2>2. CASE ~thr[t].eyes BY <1>0, <1>1, <2>2 DEF Work
  <2> QED BY <2>1, <2>2
<1> QED BY <1>0, <1>2, <1>3, TypedStep

LEMMA FollowingTyped ==
  ASSUME NEW w \in Work, w.todo # <<>>
  PROVE  Following(w) \in Work /\ (Following(w).pc # "idle" => Following(w).todo # <<>>)
<1>0. w.next \in {"another", "put", "end"} BY DEF Work
<1>1. CASE w.next = "another"
  <2>1. CASE Len(w.todo) = 1
    <3>1. Following(w) = Quiet BY <1>1, <2>1 DEF Following, Another
    <3> QED BY <3>1, QuietTyped
  <2>2. CASE Len(w.todo) # 1
    <3>1. PICK s : s = w.todo OBVIOUS
    <3>2. PICK rest : rest = Tail(s) OBVIOUS
    <3>3. s \in Seq(Models) /\ s # <<>> /\ Len(s) # 1 BY <2>2, <3>1 DEF Work
    <3>4. rest \in Seq(Models) /\ Len(rest) = Len(s) - 1 /\ Len(s) \in Nat /\ Len(s) # 0 BY <3>2, <3>3
    <3>5. rest # <<>> BY <3>3, <3>4
    <3>6. PICK v : v = [w EXCEPT !.pc = "acquire", !.todo = rest, !.owns = FALSE, !.text = "none",
                                 !.next = "end"]
      OBVIOUS
    <3>7. Following(w) = v BY <1>1, <2>2, <3>1, <3>2, <3>6 DEF Following, Another
    <3>8. v \in Work /\ v.todo = rest BY <3>4, <3>6 DEF Work
    <3> QED BY <3>5, <3>7, <3>8
  <2> QED BY <2>1, <2>2
<1>2. CASE w.next = "put"
  <2>1. PICK v : v = [w EXCEPT !.pc = "put", !.owns = FALSE] OBVIOUS
  <2>2. Following(w) = v BY <1>2, <2>1 DEF Following
  <2>3. v \in Work /\ v.todo = w.todo BY <2>1 DEF Work
  <2> QED BY <2>2, <2>3
<1>3. CASE w.next = "end"
  <2>1. Following(w) = Quiet BY <1>3 DEF Following
  <2> QED BY <2>1, QuietTyped
<1> QED BY <1>0, <1>1, <1>2, <1>3

LEMMA ReleaseTyped == ASSUME Typed, NEW t \in Threads, Release(t) PROVE Typed'
<1>1. /\ thr' = [u \in Threads |->
               IF u = t THEN Following(thr[t])
               ELSE IF Frees(t) /\ thr[u].pc = "blocked" /\ Key(u) = Key(t)
                    THEN [thr[u] EXCEPT !.pc = "acquire"] ELSE thr[u]]
      /\ thr[t].pc = "release" /\ UNCHANGED <<paired, asked, cooling>>
  BY DEF Release
<1>2. thr[t] \in Work /\ thr[t].todo # <<>> BY <1>1 DEF Typed
<1>3. ASSUME NEW u \in Threads PROVE thr'[u] \in Work /\ (thr'[u].pc # "idle" => thr'[u].todo # <<>>)
  <2>1. thr[u] \in Work /\ (thr[u].pc # "idle" => thr[u].todo # <<>>) BY DEF Typed
  <2>2. CASE u = t
    <3>1. thr'[u] = Following(thr[t]) BY <1>1, <2>2
    <3> QED BY <1>2, <3>1, FollowingTyped
  <2>3. CASE thr'[u] = thr[u] BY <2>1, <2>3
  <2>4. CASE thr[u].pc = "blocked" /\ thr'[u] = [thr[u] EXCEPT !.pc = "acquire"]
    <3>1. PICK v : v = [thr[u] EXCEPT !.pc = "acquire"] OBVIOUS
    <3>2. v \in Work /\ v.todo = thr[u].todo BY <2>1, <3>1 DEF Work
    <3> QED BY <2>1, <2>4, <3>1, <3>2
  <2> QED BY <1>1, <2>2, <2>3, <2>4
<1>4. thr' \in [Threads -> Work] BY <1>1, <1>3
<1> QED BY <1>1, <1>3, <1>4 DEF Typed

LEMMA TypedNext == ASSUME Typed, [Next]_vars PROVE Typed'
<1>1. ASSUME NEW t \in Threads, Start(t) \/ Local(t) \/ GiveUpWaiting(t) \/ Reply(t) PROVE Typed'
  BY <1>1, StartTyped, LocalTyped, ReplyTyped, PutTyped, ReleaseTyped DEF Local
<1>2. CASE CoolDown BY <1>2 DEF CoolDown, Typed
<1>3. CASE Forget \/ UNCHANGED vars BY <1>3 DEF Forget, vars, Typed
<1> QED BY <1>1, <1>2, <1>3 DEF Next

LEMMA TypedHolds == Spec => []Typed
<1>1. Init => Typed
  <2> SUFFICES ASSUME Init PROVE Typed OBVIOUS
  <2>1. asked \subseteq Questions /\ paired \in BOOLEAN BY GatewayAssumption DEF Init
  <2> QED BY <2>1, QuietTyped DEF Init, Typed
<1>2. Typed /\ [Next]_vars => Typed' BY TypedNext
<1> QED BY <1>1, <1>2, PTL DEF Spec

(* Every field has its type; a key is reserved by exactly the thread that    *)
(* believes it reserved it (ResponseCache.acquire, release); and a request   *)
(* under way has a candidate left, for every list of fallbacks and every     *)
(* limit of the attempts.                                                    *)
THEOREM TypeTheorem == Spec => []TypeOK
<1>1. IInv /\ Typed => TypeOK
  <2> SUFFICES ASSUME IInv, Typed PROVE TypeOK OBVIOUS
  <2>1. ASSUME NEW k \in Keys, NEW t \in Threads
        PROVE  (flights[k] = t) <=> (thr[t].pc # "idle" /\ thr[t].owns /\ Key(t) = k)
    <3>1. (flights[k] = t) <=> (thr[t].owns = TRUE /\ Key(t) = k) BY DEF IInv, Reserved
    <3>2. thr[t].owns \in BOOLEAN /\ (thr[t].pc = "idle" => thr[t].owns = FALSE) BY DEF IInv, Sound
    <3> QED BY <3>1, <3>2
  <2>2. cache \in [Keys -> {"none", "part", "whole"}] BY DEF IInv
  <2> QED BY <2>1, <2>2 DEF IInv, Reserved, Typed, TypeOK
<1> QED BY <1>1, InductiveInvariant, TypedHolds, PTL

-----------------------------------------------------------------------------
(* The part of EveryCallEnds that an invariant and a step can say.           *)

Running == {"check", "call", "streaming", "put", "release"}

(* A wake-up is never lost and waits form no chain: who waits for a key      *)
(* waits for another thread that reserved this very key and waits for none   *)
(* itself (ResponseCache.acquire, release).                                  *)
WaitersHaveOwners ==
  \A t \in Threads : thr[t].pc = "blocked" =>
    \E u \in Threads \ {t} : thr[u].owns /\ Key(u) = Key(t) /\ thr[u].pc \in Running

(* How far a request is from the end of the work on its current candidate.   *)
Stage(w) ==
  CASE w.pc \in {"acquire", "blocked"}        -> 7
    [] w.pc = "check"                         -> 6
    [] w.pc = "call"                          -> 5
    [] w.pc = "streaming"                     -> 4
    [] w.pc = "release" /\ w.next = "put"     -> 3
    [] w.pc = "put"                           -> 2
    [] w.pc = "release" /\ w.next # "put"     -> 1
    [] OTHER                                  -> 0

(* From w to v a request ends, turns to the next candidate, goes on with the *)
(* current one, begins to wait or is woken.                                  *)
Advances(w, v) ==
  \/ v = Quiet
  \/ Len(w.todo) > 1 /\ v.q = w.q /\ v.todo = Tail(w.todo)
  \/ v.q = w.q /\ v.todo = w.todo /\ Stage(v) < Stage(w)
  \/ v = [w EXCEPT !.pc = "blocked"] /\ w.pc = "acquire"
  \/ v = [w EXCEPT !.pc = "acquire"] /\ w.pc = "blocked"

(* No request asks a candidate twice, whatever cooldowns and caches other    *)
(* threads change meanwhile: but for its waits, each of its steps brings it  *)
(* nearer to its end.                                                        *)
CallsAdvance ==
  [][\A t \in Threads : thr[t].pc # "idle" /\ thr'[t] # thr[t] =>
       Advances(thr[t], thr'[t])]_vars

(* What a step of one request makes of it, but for a release.                *)
Moves(w, v) ==
  /\ v.pc = "blocked" => v = [w EXCEPT !.pc = "blocked"] /\ w.pc = "acquire"
  /\ \/ v = Quiet
     \/ /\ v.pc # "idle" /\ v.q = w.q /\ v.todo = w.todo
        /\ v.pc # "blocked" => Stage(v) < Stage(w)

LEMMA LocalMoves ==
  ASSUME Typed, NEW t \in Threads,
         Hit(t) \/ Reserve(t) \/ Uncached(t) \/ Block(t) \/ GiveUpWaiting(t) \/ Check(t) \/ Put(t)
  PROVE  \E w : /\ thr' = [thr EXCEPT ![t] = w] /\ Moves(thr[t], w)
                /\ w.pc = "blocked" => flights[Key(t)] # NoOne
<1>0. thr[t] \in Work BY DEF Typed
<1>a. Moves(thr[t], Quiet) /\ Quiet.pc # "blocked" BY DEF Moves, Quiet
<1>1. CASE Hit(t)
  <2>1. thr' = [thr EXCEPT ![t] = Quiet] BY <1>1 DEF Hit
  <2> QED BY <1>a, <2>1
<1>2. CASE Reserve(t)
  <2>1. PICK place \in {"check", "call"} : place = Asking(thr[t].eyes) BY AskingTyped
  <2>2. PICK w : w = [thr[t] EXCEPT !.pc = place, !.owns = TRUE] OBVIOUS
  <2>3. thr' = [thr EXCEPT ![t] = w] /\ thr[t].pc = "acquire" BY <1>2, <2>1, <2>2 DEF Reserve
  <2>4. w.pc = place /\ w.q = thr[t].q /\ w.todo = thr[t].todo BY <1>0, <2>2 DEF Work
  <2>5. Moves(thr[t], w) BY <2>3, <2>4 DEF Moves, Stage
  <2> QED BY <2>3, <2>4, <2>5
<1>3. CASE Block(t)
  <2>1. PICK w : w = [thr[t] EXCEPT !.pc = "blocked"] OBVIOUS
  <2>2. thr' = [thr EXCEPT ![t] = w] /\ thr[t].pc = "acquire" /\ flights[Key(t)] # NoOne
    BY <1>3, <2>1 DEF Block
  <2>3. w.pc = "blocked" /\ w.q = thr[t].q /\ w.todo = thr[t].todo BY <1>0, <2>1 DEF Work
  <2>4. Moves(thr[t], w) BY <2>1, <2>2, <2>3 DEF Moves
  <2> QED BY <2>2, <2>4
<1>4. CASE Uncached(t) \/ GiveUpWaiting(t)
  <2>1. PICK place \in {"check", "call"} : place = Asking(thr[t].eyes) BY AskingTyped
  <2>2. PICK w : w = [thr[t] EXCEPT !.pc = place] OBVIOUS
  <2>3. thr' = [thr EXCEPT ![t] = w] /\ thr[t].pc \in {"acquire", "blocked"}
    BY <1>4, <2>1, <2>2 DEF Uncached, GiveUpWaiting
  <2>4. w.pc = place /\ w.q = thr[t].q /\ w.todo = thr[t].todo BY <1>0, <2>2 DEF Work
  <2>5. Moves(thr[t], w) BY <2>3, <2>4 DEF Moves, Stage
  <2> QED BY <2>3, <2>4, <2>5
<1>5. CASE Check(t)
  <2>1. PICK w : w = IF Model(t) \in cooling THEN [thr[t] EXCEPT !.pc = "release", !.next = "another"]
                                             ELSE [thr[t] EXCEPT !.pc = "call"]
    OBVIOUS
  <2>2. thr' = [thr EXCEPT ![t] = w] /\ thr[t].pc = "check" BY <1>5, <2>1 DEF Check
  <2>3. /\ w.q = thr[t].q /\ w.todo = thr[t].todo
        /\ w.pc = "call" \/ (w.pc = "release" /\ w.next = "another")
    BY <1>0, <2>1 DEF Work
  <2>4. Moves(thr[t], w) BY <2>2, <2>3 DEF Moves, Stage
  <2> QED BY <2>2, <2>3, <2>4
<1>6. CASE Put(t)
  <2>1. CASE thr[t].eyes
    <3>1. thr' = [thr EXCEPT ![t] = Quiet] BY <1>6, <2>1 DEF Put
    <3> QED BY <1>a, <3>1
  <2>2. CASE ~thr[t].eyes
    <3>1. PICK w : w = [thr[t] EXCEPT !.pc = "release", !.next = "end"] OBVIOUS
    <3>2. thr' = [thr EXCEPT ![t] = w] /\ thr[t].pc = "put" BY <1>6, <2>2, <3>1 DEF Put, Finish
    <3>3. w.q = thr[t].q /\ w.todo = thr[t].todo /\ w.pc = "release" /\ w.next = "end"
      BY <1>0, <3>1 DEF Work
    <3>4. Moves(thr[t], w) BY <3>2, <3>3 DEF Moves, Stage
    <3> QED BY <3>2, <3>3, <3>4
  <2> QED BY <2>1, <2>2
<1> QED BY <1>1, <1>2, <1>3, <1>4, <1>5, <1>6

LEMMA ReplyMoves ==
  ASSUME Typed, NEW t \in Threads, Reply(t)
  PROVE  \E w : thr' = [thr EXCEPT ![t] = w] /\ Moves(thr[t], w) /\ w.pc # "blocked"
<1>0. thr[t] \in Work BY DEF Typed
<1>1. thr[t].pc \in {"call", "streaming"}
  BY DEF Reply, Answered, Refused, Rejected, CannotSee, FirstChunk, EndStream, Break, Abandon
<1>2. CASE Refused(t) \/ Rejected(t) \/ CannotSee(t) \/ Break(t) \/ Abandon(t)
  <2>1. PICK next \in {"another", "end"} :
          thr' = [thr EXCEPT ![t] = [thr[t] EXCEPT !.pc = "release", !.next = next]]
    BY <1>2 DEF Refused, Rejected, CannotSee, Break, Abandon, Finish
  <2>2. PICK w : w = [thr[t] EXCEPT !.pc = "release", !.next = next] OBVIOUS
  <2>3. w.pc = "release" /\ w.next = next /\ w.q = thr[t].q /\ w.todo = thr[t].todo
    BY <1>0, <2>2 DEF Work
  <2>4. Moves(thr[t], w) BY <1>1, <2>3 DEF Moves, Stage
  <2> QED BY <2>1, <2>2, <2>3, <2>4
<1>3. CASE Answered(t) \/ EndStream(t)
  <2>1. PICK base : base = IF thr[t].eyes THEN [thr[t] EXCEPT !.pc = "release", !.next = "put"]
                                          ELSE [thr[t] EXCEPT !.pc = "put"]
    OBVIOUS
  <2>2. /\ base.q = thr[t].q /\ base.todo = thr[t].todo /\ DOMAIN base = DOMAIN thr[t]
        /\ base.pc = "put" \/ (base.pc = "release" /\ base.next = "put")
    BY <1>0, <2>1 DEF Work
  <2>3. PICK w : /\ thr' = [thr EXCEPT ![t] = w]
                 /\ \/ w = [base EXCEPT !.text = "whole", !.shown = thr[t].shown \cup {Model(t)}]
                    \/ w = [base EXCEPT !.text = "whole"]
    <3>1. CASE Answered(t)
      <4>1. thr' = [thr EXCEPT ![t] = [base EXCEPT !.text = "whole", !.shown = thr[t].shown \cup {Model(t)}]]
        BY <2>1, <3>1, Zenon DEF Answered, Finish
      <4> QED BY <4>1
    <3>2. CASE EndStream(t)
      <4>1. thr' = [thr EXCEPT ![t] = [base EXCEPT !.text = "whole"]]
        BY <2>1, <3>2, Zenon DEF EndStream, Finish
      <4> QED BY <4>1
    <3> QED BY <1>3, <3>1, <3>2
  <2>4. /\ w.q = thr[t].q /\ w.todo = thr[t].todo
        /\ w.pc = "put" \/ (w.pc = "release" /\ w.next = "put")
    BY <1>0, <2>2, <2>3 DEF Work
  <2>5. Moves(thr[t], w) BY <1>1, <2>4 DEF Moves, Stage
  <2> QED BY <2>3, <2>4, <2>5
<1>4. CASE FirstChunk(t)
  <2>1. PICK w : w = [thr[t] EXCEPT !.pc = "streaming", !.text = "part", !.shown = thr[t].shown \cup {Model(t)}]
    OBVIOUS
  <2>2. thr' = [thr EXCEPT ![t] = w] /\ thr[t].pc = "call" BY <1>4, <2>1, Zenon DEF FirstChunk
  <2>3. w.pc = "streaming" /\ w.q = thr[t].q /\ w.todo = thr[t].todo BY <1>0, <2>1 DEF Work
  <2>4. Moves(thr[t], w) BY <2>2, <2>3 DEF Moves, Stage
  <2> QED BY <2>2, <2>3, <2>4
<1> QED BY <1>2, <1>3, <1>4 DEF Reply

(* A release leads to the next candidate, to the late write or to the end.   *)
LEMMA FollowingMoves ==
  ASSUME NEW w \in Work, w.pc = "release", w.todo # <<>>
  PROVE  /\ Following(w).pc # "blocked" /\ Advances(w, Following(w))
         /\ Following(w).pc # "idle" => Following(w).q = w.q
<1>0. w.next \in {"another", "put", "end"} BY DEF Work
<1>1. CASE w.next = "another"
  <2>1. CASE Len(w.todo) = 1
    <3>1. Following(w) = Quiet BY <1>1, <2>1 DEF Following, Another
    <3> QED BY <3>1 DEF Advances, Quiet
  <2>2. CASE Len(w.todo) # 1
    <3>1. PICK s : s = w.todo OBVIOUS
    <3>2. s \in Seq(Models) /\ s # <<>> /\ Len(s) # 1 BY <2>2, <3>1 DEF Work
    <3>3. PICK n \in Nat : n = Len(s) BY <3>2
    <3>4. n # 0 /\ n # 1 BY <3>2, <3>3
    <3>5. PICK rest : rest = Tail(s) OBVIOUS
    <3>6. PICK v : v = [w EXCEPT !.pc = "acquire", !.todo = rest, !.owns = FALSE, !.text = "none",
                                 !.next = "end"]
      OBVIOUS
    <3>7. Following(w) = v BY <1>1, <2>2, <3>1, <3>5, <3>6 DEF Following, Another
    <3>8. v.pc = "acquire" /\ v.todo = rest /\ v.q = w.q BY <3>6 DEF Work
    <3>9. Len(w.todo) > 1
      <4>1. n > 1 BY <3>4
      <4>2. Len(w.todo) = n BY <3>1, <3>3
      <4> QED BY <4>1, <4>2, Zenon
    <3> QED BY <3>1, <3>5, <3>7, <3>8, <3>9 DEF Advances
  <2> QED BY <2>1, <2>2
<1>2. CASE w.next = "put"
  <2>1. PICK v : v = [w EXCEPT !.pc = "put", !.owns = FALSE] OBVIOUS
  <2>2. Following(w) = v BY <1>2, <2>1 DEF Following
  <2>3. v.pc = "put" /\ v.todo = w.todo /\ v.q = w.q BY <2>1 DEF Work
  <2>4. Stage(v) = 2 /\ Stage(w) = 3 BY <1>2, <2>3 DEF Stage
  <2> QED BY <2>2, <2>3, <2>4 DEF Advances
<1>3. CASE w.next = "end"
  <2>1. Following(w) = Quiet BY <1>3 DEF Following
  <2> QED BY <2>1 DEF Advances, Quiet
<1> QED BY <1>0, <1>1, <1>2, <1>3

(* Every step of a request under way brings it nearer to its end.            *)
THEOREM CallsAdvanceTheorem == Spec => CallsAdvance
<1>1. ASSUME Typed, NEW t \in Threads, NEW w, Moves(thr[t], w) PROVE Advances(thr[t], w)
  BY <1>1 DEF Moves, Advances
<1>2. ASSUME Typed, Next, NEW t \in Threads, thr[t].pc # "idle", thr'[t] # thr[t]
      PROVE  Advances(thr[t], thr'[t])
  <2>0. thr \in [Threads -> Work] BY <1>2 DEF Typed
  <2>1. ASSUME NEW u \in Threads, NEW w, thr' = [thr EXCEPT ![u] = w], Moves(thr[u], w)
        PROVE  Advances(thr[t], thr'[t])
    <3>1. u = t /\ thr'[t] = w BY <1>2, <2>0, <2>1
    <3> QED BY <1>1, <1>2, <2>1, <3>1
  <2>2. ASSUME NEW u \in Threads, Release(u) PROVE Advances(thr[t], thr'[t])
    <3>1. CASE u = t
      <4>1. thr'[t] = Following(thr[t]) /\ thr[t].pc = "release" BY <2>2, <3>1 DEF Release
      <4>2. thr[t] \in Work /\ thr[t].todo # <<>> BY <1>2 DEF Typed
      <4> QED BY <4>1, <4>2, FollowingMoves
    <3>2. CASE u # t
      <4>1. thr[t].pc = "blocked" /\ thr'[t] = [thr[t] EXCEPT !.pc = "acquire"]
        BY <1>2, <2>2, <3>2 DEF Release
      <4> QED BY <4>1 DEF Advances
    <3> QED BY <3>1, <3>2
  <2>3. ASSUME NEW u \in Threads, Start(u) PROVE Advances(thr[t], thr'[t])
    BY <1>2, <2>0, <2>3 DEF Start
  <2>4. ASSUME NEW u \in Threads, Local(u) \/ GiveUpWaiting(u) \/ Reply(u)
        PROVE  Advances(thr[t], thr'[t])
    <3>1. CASE Release(u) BY <2>2, <3>1
    <3>2. CASE Reply(u)
      <4>1. PICK w : thr' = [thr EXCEPT ![u] = w] /\ Moves(thr[u], w) BY <1>2, <3>2, ReplyMoves
      <4> QED BY <2>1, <4>1
    <3>3. CASE Hit(u) \/ Reserve(u) \/ Uncached(u) \/ Block(u) \/ GiveUpWaiting(u) \/ Check(u) \/ Put(u)
      <4>1. PICK w : thr' = [thr EXCEPT ![u] = w] /\ Moves(thr[u], w) BY <1>2, <3>3, LocalMoves
      <4> QED BY <2>1, <4>1
    <3> QED BY <2>4, <3>1, <3>2, <3>3 DEF Local
  <2>5. CASE CoolDown \/ Forget BY <1>2, <2>5 DEF CoolDown, Forget
  <2> QED BY <1>2, <2>3, <2>4, <2>5 DEF Next
<1>3. Typed /\ [Next]_vars =>
        [\A t \in Threads : thr[t].pc # "idle" /\ thr'[t] # thr[t] =>
           Advances(thr[t], thr'[t])]_vars
  BY <1>2
<1>4. Spec => []Typed BY TypedHolds
<1> QED BY <1>3, <1>4, PTL DEF Spec, CallsAdvance

-----------------------------------------------------------------------------
(* Who waits finds the reservation it waits for in the table.                *)
Waited ==
  \A t \in Threads : /\ thr[t].pc # "idle" => thr[t].q \in Questions
                     /\ thr[t].pc = "blocked" => flights[Key(t)] # NoOne

LEMMA KeyIsAKey ==
  ASSUME Typed, Waited, NEW t \in Threads, thr[t].pc # "idle"
  PROVE  Key(t) \in Keys
<1>1. Model(t) \in Models BY CurrentModel
<1>2. thr[t].q \in Questions BY DEF Waited
<1> QED BY <1>1, <1>2 DEF Key, Keys

(* A step of one request that frees no key.                                  *)
LEMMA WaitedStep ==
  ASSUME Typed, Waited, NEW t \in Threads, NEW w, thr' = [thr EXCEPT ![t] = w],
         w.pc # "idle" => w.q \in Questions,
         w.pc = "blocked" => flights'[<<Head(w.todo), w.q>>] # NoOne,
         \A k \in Keys : flights[k] # NoOne => flights'[k] # NoOne
  PROVE  Waited'
<1>1. thr'[t] = w /\ \A u \in Threads \ {t} : thr'[u] = thr[u] BY DEF Typed
<1>2. ASSUME NEW u \in Threads
      PROVE  /\ thr'[u].pc # "idle" => thr'[u].q \in Questions
             /\ thr'[u].pc = "blocked" => flights'[<<Head(thr'[u].todo), thr'[u].q>>] # NoOne
  <2>1. CASE u = t BY <1>1, <2>1
  <2>2. CASE u # t
    <3>1. thr'[u] = thr[u] BY <1>1, <2>2
    <3>2. thr[u].pc # "idle" => thr[u].q \in Questions BY DEF Waited
    <3>3. CASE thr[u].pc = "blocked"
      <4>1. Key(u) \in Keys BY <3>3, KeyIsAKey
      <4>2. flights'[Key(u)] # NoOne BY <3>3, <4>1 DEF Waited
      <4> QED BY <3>1, <3>2, <4>2 DEF Key, Model
    <3> QED BY <3>1, <3>2, <3>3
  <2> QED BY <2>1, <2>2
<1> QED BY <1>2 DEF Waited, Key, Model

LEMMA WaitedMove ==
  ASSUME Typed, Waited, NEW t \in Threads, thr[t].pc # "idle",
         NEW w, thr' = [thr EXCEPT ![t] = w], Moves(thr[t], w),
         w.pc = "blocked" => flights[Key(t)] # NoOne,
         \A k \in Keys : flights[k] # NoOne => flights'[k] # NoOne
  PROVE  Waited'
<1>1. w.pc # "idle" => w.q \in Questions BY DEF Moves, Quiet, Waited
<1>2. CASE w.pc = "blocked"
  <2>1. w.todo = thr[t].todo /\ w.q = thr[t].q BY <1>2 DEF Moves, Quiet
  <2>2. Key(t) \in Keys BY KeyIsAKey
  <2>3. flights'[Key(t)] # NoOne BY <1>2, <2>2
  <2>4. flights'[<<Head(w.todo), w.q>>] # NoOne BY <2>1, <2>3 DEF Key, Model
  <2> QED BY <1>1, <2>4, WaitedStep
<1>3. CASE w.pc # "blocked" BY <1>1, <1>3, WaitedStep
<1> QED BY <1>2, <1>3

LEMMA WaitedRelease ==
  ASSUME Typed, Waited, NEW t \in Threads, Release(t) PROVE Waited'
<1>1. /\ thr' = [u \in Threads |->
               IF u = t THEN Following(thr[t])
               ELSE IF Frees(t) /\ thr[u].pc = "blocked" /\ Key(u) = Key(t)
                    THEN [thr[u] EXCEPT !.pc = "acquire"] ELSE thr[u]]
      /\ thr[t].pc = "release"
      /\ flights' = IF Frees(t) THEN [flights EXCEPT ![Key(t)] = NoOne] ELSE flights
  BY DEF Release
<1>2. thr[t] \in Work /\ thr[t].todo # <<>> BY <1>1 DEF Typed
<1>3. ASSUME NEW u \in Threads
      PROVE  /\ thr'[u].pc # "idle" => thr'[u].q \in Questions
             /\ thr'[u].pc = "blocked" => flights'[<<Head(thr'[u].todo), thr'[u].q>>] # NoOne
  <2>0. /\ thr[u].pc # "idle" => thr[u].q \in Questions
        /\ thr[u].pc = "blocked" => flights[Key(u)] # NoOne
    BY DEF Waited
  <2>1. CASE u = t
    <3>1. thr'[u] = Following(thr[t]) BY <1>1, <2>1
    <3>2. /\ Following(thr[t]).pc # "blocked"
          /\ Following(thr[t]).pc # "idle" => Following(thr[t]).q = thr[t].q
      BY <1>1, <1>2, FollowingMoves
    <3> QED BY <1>1, <2>0, <2>1, <3>1, <3>2
  <2>2. CASE u # t /\ Frees(t) /\ thr[u].pc = "blocked" /\ Key(u) = Key(t)
    <3>1. thr'[u] = [thr[u] EXCEPT !.pc = "acquire"] /\ thr[u] \in Work BY <1>1, <2>2 DEF Typed
    <3>2. thr'[u].pc = "acquire" /\ thr'[u].q = thr[u].q BY <3>1 DEF Work
    <3> QED BY <2>0, <2>2, <3>2
  <2>3. CASE u # t /\ ~(Frees(t) /\ thr[u].pc = "blocked" /\ Key(u) = Key(t))
    <3>1. thr'[u] = thr[u] BY <1>1, <2>3
    <3>2. CASE thr[u].pc = "blocked"
      <4>1. flights'[Key(u)] = flights[Key(u)] BY <1>1, <2>3, <3>2
      <4> QED BY <2>0, <3>1, <3>2, <4>1 DEF Key, Model
    <3> QED BY <2>0, <3>1, <3>2
  <2> QED BY <2>1, <2>2, <2>3
<1> QED BY <1>3 DEF Waited, Key, Model

LEMMA WaitedStart ==
  ASSUME Typed, Waited, NEW t \in Threads, Start(t) PROVE Waited'
<1>1. PICK q \in asked, s \in BOOLEAN :
        \E p \in IF paired /\ q \in Pictures THEN {Eyes} ELSE Range(ModelAttempts(q)) :
          thr' = [thr EXCEPT ![t] = [Quiet EXCEPT !.pc = "acquire", !.q = q, !.stream = s,
                    !.eyes = paired /\ q \in Pictures,
                    !.todo = IF paired /\ q \in Pictures THEN <<p>> ELSE Preferring(p, ModelAttempts(q))]]
  BY Zenon DEF Start
<1>2. PICK e, todo : thr' = [thr EXCEPT ![t] = [Quiet EXCEPT !.pc = "acquire", !.q = q, !.stream = s,
                                                             !.eyes = e, !.todo = todo]]
  BY <1>1, Zenon
<1>3. PICK w : w = [Quiet EXCEPT !.pc = "acquire", !.q = q, !.stream = s, !.eyes = e, !.todo = todo]
  OBVIOUS
<1>4. w.pc = "acquire" /\ w.q = q BY <1>3 DEF Quiet
<1>5. thr' = [thr EXCEPT ![t] = w] BY <1>2, <1>3
<1>6. q \in Questions BY DEF Typed
<1>7. flights' = flights BY DEF Start
<1> QED BY <1>4, <1>5, <1>6, <1>7, WaitedStep

LEMMA WaitedNext == ASSUME IInv, Typed, Waited, [Next]_vars PROVE Waited'
<1>1. ASSUME NEW t \in Threads,
             Hit(t) \/ Reserve(t) \/ Uncached(t) \/ Block(t) \/ GiveUpWaiting(t) \/ Check(t) \/ Put(t)
      PROVE  Waited'
  <2>1. PICK w : /\ thr' = [thr EXCEPT ![t] = w] /\ Moves(thr[t], w)
                 /\ w.pc = "blocked" => flights[Key(t)] # NoOne
    BY <1>1, LocalMoves
  <2>2. thr[t].pc # "idle" BY <1>1 DEF Hit, Reserve, Uncached, Block, GiveUpWaiting, Check, Put
  <2>3. ASSUME NEW k \in Keys, flights[k] # NoOne PROVE flights'[k] # NoOne
    <3>1. CASE Reserve(t)
      <4>1. PICK key : key = Key(t) OBVIOUS
      <4>2. flights' = [flights EXCEPT ![key] = t] BY <3>1, <4>1 DEF Reserve
      <4>3. t # NoOne BY GatewayAssumption
      <4>4. flights \in [Keys -> Threads \cup {NoOne}] BY DEF IInv, Reserved
      <4> QED BY <2>3, <4>2, <4>3, <4>4
    <3>2. CASE ~Reserve(t)
      <4>1. flights' = flights BY <1>1, <3>2 DEF Hit, Uncached, Block, GiveUpWaiting, Check, Put
      <4> QED BY <2>3, <4>1
    <3> QED BY <3>1, <3>2
  <2> QED BY <2>1, <2>2, <2>3, WaitedMove
<1>2. ASSUME NEW t \in Threads, Reply(t) PROVE Waited'
  <2>1. PICK w : thr' = [thr EXCEPT ![t] = w] /\ Moves(thr[t], w) /\ w.pc # "blocked"
    BY <1>2, ReplyMoves
  <2>2. thr[t].pc # "idle" /\ flights' = flights
    BY <1>2 DEF Reply, Answered, Refused, Rejected, CannotSee, FirstChunk, EndStream, Break, Abandon
  <2> QED BY <2>1, <2>2, WaitedMove
<1>3. CASE CoolDown \/ Forget \/ UNCHANGED vars
  BY <1>3 DEF CoolDown, Forget, vars, Waited, Key, Model
<1> QED BY <1>1, <1>2, <1>3, WaitedStart, WaitedRelease DEF Next, Local

(* A wait can always end: the thread that reserved the key is at work and    *)
(* waits for nobody itself, so no two requests wait for each other and none  *)
(* waits for a key that was freed before it looked (ResponseCache.acquire    *)
(* and release).                                                             *)
THEOREM OwnersTheorem == Spec => []WaitersHaveOwners
<1>1. Init => Waited BY DEF Init, Waited, Quiet
<1>2. IInv /\ Typed /\ Waited /\ [Next]_vars => Waited' BY WaitedNext
<1>3. IInv /\ Typed /\ Waited => WaitersHaveOwners
  <2> SUFFICES ASSUME IInv, Typed, Waited, NEW t \in Threads, thr[t].pc = "blocked"
               PROVE  \E u \in Threads \ {t} :
                        thr[u].owns /\ Key(u) = Key(t) /\ thr[u].pc \in Running
    BY DEF WaitersHaveOwners
  <2>1. Key(t) \in Keys BY KeyIsAKey
  <2>2. PICK u \in Threads : flights[Key(t)] = u BY <2>1 DEF IInv, Reserved, Waited
  <2>3. thr[u].owns = TRUE /\ Key(u) = Key(t) BY <2>1, <2>2 DEF IInv, Reserved
  <2>4. thr[t].owns # TRUE /\ thr[u].pc \in Running BY <2>3 DEF IInv, Sound, Showless, Running
  <2> QED BY <2>3, <2>4
<1> QED BY <1>1, <1>2, <1>3, InductiveInvariant, TypedHolds, PTL DEF Spec
=============================================================================
