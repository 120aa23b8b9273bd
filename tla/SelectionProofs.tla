--------------------------- MODULE SelectionProofs ---------------------------
(***************************************************************************)
(* Facts about selections of a sequence, for sequences of any length.      *)
(*                                                                         *)
(* They are proved by induction over the length.  The induction theorems   *)
(* of the library have an operator as a parameter; here the property is    *)
(* given by the set of the numbers that have it, and the induction rests   *)
(* on the theorem that a set of naturals has a least element (WFMin).      *)
(***************************************************************************)
EXTENDS Selection, FiniteSetTheorems, TLAPS

(* Every nonempty set of naturals has a least element. *)
LEMMA LeastElement ==
  ASSUME NEW T, T \subseteq Nat, T # {}
  PROVE  \E m \in T : \A k \in T : m <= k
<1>1. PICK m \in T : \A k \in T : ~ (<<k, m>> \in OpToRel(<, Nat))
  BY WFMin, NatLessThanWellFounded, Zenon
<1>2. \A k \in T : ~ (k < m) BY <1>1 DEF OpToRel
<1> QED BY <1>2

(* Induction up to a bound, the property given by a set. *)
LEMMA InductionUpTo ==
  ASSUME NEW N \in Nat, NEW T, 0 \in T, \A n \in 0..(N - 1) : n \in T => n + 1 \in T
  PROVE  0..N \subseteq T
<1> DEFINE Bad == (0..N) \ T
<1>1. SUFFICES ASSUME Bad # {} PROVE FALSE OBVIOUS
<1>2. PICK m \in Bad : \A k \in Bad : m <= k
  <2> Bad \subseteq Nat OBVIOUS
  <2> HIDE DEF Bad
  <2> QED BY <1>1, LeastElement
<1>3. m \in 1..N /\ m \notin T OBVIOUS
<1>4. m - 1 \in 0..(N - 1) /\ m - 1 \in T BY <1>2, <1>3
<1>5. (m - 1) + 1 = m BY <1>3
<1> QED BY <1>3, <1>4, <1>5

-----------------------------------------------------------------------------
(* f is the function a selection is computed by, up to the n-th element. *)
Computes(f, s, T, n) ==
  f = [i \in 0..n |-> IF i = 0 THEN <<>>
                      ELSE IF s[i] \in T THEN Append(f[i - 1], s[i]) ELSE f[i - 1]]

LEMMA ComputesStep ==
  ASSUME NEW f, NEW s, NEW T, NEW n \in Nat, Computes(f, s, T, n)
  PROVE  /\ f[0] = <<>>
         /\ \A i \in 1..n : f[i] = IF s[i] \in T THEN Append(f[i - 1], s[i]) ELSE f[i - 1]
<1> DEFINE h == [i \in 0..n |-> IF i = 0 THEN <<>>
                   ELSE IF s[i] \in T THEN Append(f[i - 1], s[i]) ELSE f[i - 1]]
<1>1. f = h BY DEF Computes
<1>2. h[0] = <<>> OBVIOUS
<1>3. \A i \in 1..n : h[i] = IF s[i] \in T THEN Append(f[i - 1], s[i]) ELSE f[i - 1] OBVIOUS
<1> HIDE DEF h
<1> QED BY <1>1, <1>2, <1>3

LEMMA ComputesExists ==
  ASSUME NEW s, NEW T, NEW N \in Nat
  PROVE  \E f : Computes(f, s, T, N)
<1> DEFINE Good == {n \in Nat : \E f : Computes(f, s, T, n)}
<1>1. 0 \in Good
  <2>1. Computes([i \in 0..0 |-> <<>>], s, T, 0) BY DEF Computes
  <2> QED BY <2>1
<1>2. ASSUME NEW n \in 0..(N - 1), n \in Good PROVE n + 1 \in Good
  <2>1. n \in Nat /\ n + 1 \in Nat OBVIOUS
  <2>2. PICK f : Computes(f, s, T, n) BY <1>2
  <2> DEFINE last == IF s[n + 1] \in T THEN Append(f[n], s[n + 1]) ELSE f[n]
             g == [i \in 0..(n + 1) |-> IF i = n + 1 THEN last ELSE f[i]]
  <2>3. \A i \in 0..(n + 1) :
          g[i] = IF i = 0 THEN <<>>
                 ELSE IF s[i] \in T THEN Append(g[i - 1], s[i]) ELSE g[i - 1]
    <3> SUFFICES ASSUME NEW i \in 0..(n + 1)
                 PROVE  g[i] = IF i = 0 THEN <<>>
                               ELSE IF s[i] \in T THEN Append(g[i - 1], s[i]) ELSE g[i - 1]
      OBVIOUS
    <3>1. CASE i = n + 1 
      <4>1. g[i] = last /\ i # 0 /\ i - 1 = n /\ g[n] = f[n] BY <2>1, <3>1
      <4> QED BY <3>1, <4>1
    <3>2. CASE i = 0 
      <4>1. g[i] = f[0] BY <2>1, <3>2
      <4> QED BY <2>1, <2>2, <3>2, <4>1, ComputesStep
    <3>3. CASE i \in 1..n
      <4>1. g[i] = f[i] /\ g[i - 1] = f[i - 1] BY <2>1, <3>3
      <4>2. f[i] = IF s[i] \in T THEN Append(f[i - 1], s[i]) ELSE f[i - 1] BY <2>1, <2>2, <3>3, ComputesStep
      <4> QED BY <3>3, <4>1, <4>2
    <3> QED BY <2>1, <3>1, <3>2, <3>3
  <2>4. Computes(g, s, T, n + 1)
    <3> DEFINE h == [i \in 0..(n + 1) |-> IF i = 0 THEN <<>>
                       ELSE IF s[i] \in T THEN Append(g[i - 1], s[i]) ELSE g[i - 1]]
    <3>1. \A i \in 0..(n + 1) : g[i] = h[i] BY <2>3
    <3>2. g = h 
      <4> HIDE DEF last
      <4> QED BY <3>1
    <3> HIDE DEF g
    <3> QED BY <3>2 DEF Computes
  <2> QED BY <2>1, <2>4
<1>3. 0..N \subseteq Good
  <2> HIDE DEF Good
  <2> QED BY <1>1, <1>2, InductionUpTo
<1> QED BY <1>3

(* A selection is the last value of such a function. *)
LEMMA SelectedComputed ==
  ASSUME NEW s, NEW T, Len(s) \in Nat
  PROVE  \E f : Computes(f, s, T, Len(s)) /\ Selected(s, T) = f[Len(s)]
<1> DEFINE F == CHOOSE f : Computes(f, s, T, Len(s))
<1>1. Computes(F, s, T, Len(s)) 
  <2>1. \E f : Computes(f, s, T, Len(s)) BY ComputesExists
  <2> QED BY <2>1
<1>2. Selected(s, T) = F[Len(s)] BY DEF Selected, Computes
<1> QED BY <1>1, <1>2

(* Two such functions agree as far as their sequences do. *)
LEMMA ComputesAgree ==
  ASSUME NEW s, NEW t, NEW T, NEW m \in Nat, NEW n \in Nat, m <= n,
         \A i \in 1..m : s[i] = t[i],
         NEW f, Computes(f, s, T, m), NEW g, Computes(g, t, T, n)
  PROVE  f[m] = g[m]
<1> DEFINE Same == {i \in Nat : f[i] = g[i]}
<1>1. 0 \in Same
  <2>1. f[0] = <<>> /\ g[0] = <<>> BY ComputesStep
  <2> QED BY <2>1
<1>2. ASSUME NEW i \in 0..(m - 1), i \in Same PROVE i + 1 \in Same
  <2>1. i + 1 \in 1..m /\ i + 1 \in 1..n /\ (i + 1) - 1 = i /\ i + 1 \in Nat OBVIOUS
  <2>2. f[i + 1] = IF s[i + 1] \in T THEN Append(f[(i + 1) - 1], s[i + 1]) ELSE f[(i + 1) - 1]
    BY <2>1, ComputesStep
  <2>3. g[i + 1] = IF t[i + 1] \in T THEN Append(g[(i + 1) - 1], t[i + 1]) ELSE g[(i + 1) - 1]
    BY <2>1, ComputesStep
  <2>4. s[i + 1] = t[i + 1] /\ f[i] = g[i] BY <1>2, <2>1
  <2>5. f[i + 1] = g[i + 1] BY <2>1, <2>2, <2>3, <2>4
  <2> QED BY <2>1, <2>5
<1>3. 0..m \subseteq Same
  <2> HIDE DEF Same
  <2> QED BY <1>1, <1>2, InductionUpTo
<1> QED BY <1>3

-----------------------------------------------------------------------------
(* Nothing is selected from nothing. *)
LEMMA SelectedEmpty == ASSUME NEW T PROVE Selected(<<>>, T) = <<>>
<1>1. Len(<<>>) = 0 OBVIOUS
<1>2. PICK f : Computes(f, <<>>, T, 0) /\ Selected(<<>>, T) = f[0] BY <1>1, SelectedComputed
<1> QED BY <1>2, ComputesStep

(* One more element is selected, last, or it is not. *)
LEMMA SelectedAppend ==
  ASSUME NEW S, NEW s \in Seq(S), NEW e \in S, NEW T
  PROVE  Selected(Append(s, e), T) = IF e \in T THEN Append(Selected(s, T), e) ELSE Selected(s, T)
<1> DEFINE t == Append(s, e)
<1>1. Len(s) \in Nat /\ Len(t) = Len(s) + 1 /\ t[Len(s) + 1] = e /\ \A i \in 1..Len(s) : s[i] = t[i]
  OBVIOUS
<1> HIDE DEF t
<1>2. PICK f : Computes(f, s, T, Len(s)) /\ Selected(s, T) = f[Len(s)] BY <1>1, SelectedComputed
<1>3. PICK g : Computes(g, t, T, Len(t)) /\ Selected(t, T) = g[Len(t)] BY <1>1, SelectedComputed
<1>4. f[Len(s)] = g[Len(s)] BY <1>1, <1>2, <1>3, ComputesAgree
<1>5. Len(t) \in Nat /\ Len(t) \in 1..Len(t) /\ Len(t) - 1 = Len(s) BY <1>1
<1>6. g[Len(t)] = IF t[Len(t)] \in T THEN Append(g[Len(t) - 1], t[Len(t)]) ELSE g[Len(t) - 1]
  BY <1>3, <1>5, ComputesStep
<1> QED BY <1>1, <1>2, <1>3, <1>4, <1>5, <1>6 DEF t

(* What is selected are the elements of s in T. *)
LEMMA SelectedElements ==
  ASSUME NEW S, NEW s \in Seq(S), NEW T
  PROVE  /\ Selected(s, T) \in Seq(S)
         /\ \A i \in 1..Len(Selected(s, T)) : Selected(s, T)[i] \in T
         /\ \A i \in 1..Len(Selected(s, T)) : \E j \in 1..Len(s) : Selected(s, T)[i] = s[j]
         /\ \A j \in 1..Len(s) : s[j] \in T => \E i \in 1..Len(Selected(s, T)) : Selected(s, T)[i] = s[j]
<1> DEFINE Part(w, n) ==
      /\ w \in Seq(S)
      /\ \A i \in 1..Len(w) : w[i] \in T
      /\ \A i \in 1..Len(w) : \E j \in 1..n : w[i] = s[j]
      /\ \A j \in 1..n : s[j] \in T => \E i \in 1..Len(w) : w[i] = s[j]
<1>1. PICK f : Computes(f, s, T, Len(s)) /\ Selected(s, T) = f[Len(s)] BY SelectedComputed
<1> DEFINE Good == {n \in Nat : Part(f[n], n)}
<1>2. 0 \in Good
  <2>1. f[0] = <<>> BY <1>1, ComputesStep
  <2>2. <<>> \in Seq(S) /\ Len(<<>>) = 0 OBVIOUS
  <2>3. Part(<<>>, 0) BY <2>2
  <2> HIDE DEF Part
  <2> QED BY <2>1, <2>3
<1>3. ASSUME NEW n \in 0..(Len(s) - 1), n \in Good PROVE n + 1 \in Good
  <2>1. n + 1 \in 1..Len(s) /\ (n + 1) - 1 = n /\ n \in Nat /\ n + 1 \in Nat /\ s[n + 1] \in S OBVIOUS
  <2>2. f[n + 1] = IF s[n + 1] \in T THEN Append(f[n], s[n + 1]) ELSE f[n]
    <3>1. f[n + 1] = IF s[n + 1] \in T THEN Append(f[(n + 1) - 1], s[n + 1]) ELSE f[(n + 1) - 1]
      BY <1>1, <2>1, ComputesStep
    <3> QED BY <2>1, <3>1
  <2>3. Part(f[n], n) BY <1>3
  <2>4. CASE s[n + 1] \notin T
    <3>1. f[n + 1] = f[n] BY <2>2, <2>4
    <3>2. Part(f[n], n + 1)
      <4> DEFINE v == f[n]
      <4>1. Part(v, n) BY <2>3
      <4> HIDE DEF v
      <4>2. 1..n \subseteq 1..(n + 1) /\ \A j \in 1..(n + 1) : j = n + 1 \/ j \in 1..n BY <2>1
      <4>3. \A i \in 1..Len(v) : \E j \in 1..(n + 1) : v[i] = s[j] BY <4>1, <4>2
      <4>4. \A j \in 1..(n + 1) : s[j] \in T => \E i \in 1..Len(v) : v[i] = s[j] BY <2>4, <4>1, <4>2
      <4>5. Part(v, n + 1) BY <4>1, <4>3, <4>4
      <4> QED BY <4>5 DEF v
    <3> QED BY <2>1, <3>1, <3>2
  <2>5. CASE s[n + 1] \in T
    <3> DEFINE v == f[n]
               w == Append(v, s[n + 1])
    <3>1. /\ w \in Seq(S) /\ Len(v) \in Nat /\ Len(w) = Len(v) + 1
          /\ w[Len(w)] = s[n + 1] /\ \A i \in 1..Len(v) : w[i] = v[i]
      BY <2>1, <2>3
    <3> HIDE DEF v, w
    <3>2. Part(v, n) BY <2>3 DEF v
    <3>3. \A i \in 1..Len(w) : i = Len(w) \/ i \in 1..Len(v) BY <3>1
    <3>4. \A i \in 1..Len(w) : w[i] \in T /\ \E j \in 1..(n + 1) : w[i] = s[j]
      <4> TAKE i \in 1..Len(w)
      <4>1. CASE i = Len(w)
        <5>1. n + 1 \in 1..(n + 1) /\ w[i] = s[n + 1] BY <2>1, <3>1, <4>1
        <5> QED BY <2>5, <5>1
      <4>2. CASE i \in 1..Len(v)
        <5>1. w[i] = v[i] BY <3>1, <4>2
        <5>2. v[i] \in T BY <3>2, <4>2
        <5>3. PICK j \in 1..n : v[i] = s[j] BY <3>2, <4>2
        <5>4. j \in 1..(n + 1) BY <2>1
        <5> QED BY <5>1, <5>2, <5>3, <5>4
      <4> QED BY <3>3, <4>1, <4>2
    <3>5. \A j \in 1..(n + 1) : s[j] \in T => \E i \in 1..Len(w) : w[i] = s[j]
      <4> SUFFICES ASSUME NEW j \in 1..(n + 1), s[j] \in T PROVE \E i \in 1..Len(w) : w[i] = s[j]
        OBVIOUS
      <4>1. CASE j = n + 1 
        <5>1. Len(w) \in 1..Len(w) BY <3>1
        <5> QED BY <3>1, <4>1, <5>1
      <4>2. CASE j \in 1..n
        <5>1. PICK i \in 1..Len(v) : v[i] = s[j] BY <3>2, <4>2
        <5>2. i \in 1..Len(w) BY <3>1
        <5> QED BY <3>1, <5>1, <5>2
      <4> QED BY <2>1, <4>1, <4>2
    <3>6. Part(w, n + 1) BY <3>1, <3>4, <3>5
    <3>7. f[n + 1] = w BY <2>2, <2>5 DEF w, v
    <3> QED BY <2>1, <3>6, <3>7
  <2> QED BY <2>4, <2>5
<1>4. 0..Len(s) \subseteq Good
  <2> HIDE DEF Good
  <2>1. Len(s) \in Nat OBVIOUS
  <2> QED BY <1>2, <1>3, <2>1, InductionUpTo
<1>5. Part(f[Len(s)], Len(s)) 
  <2>1. Len(s) \in 0..Len(s) OBVIOUS
  <2> QED BY <1>4, <2>1
<1> QED BY <1>1, <1>5

(* A selection of a sequence without repetitions has none. *)
LEMMA SelectedOnce ==
  ASSUME NEW S, NEW s \in Seq(S), NEW T, \A i, j \in 1..Len(s) : s[i] = s[j] => i = j
  PROVE  \A i, j \in 1..Len(Selected(s, T)) : Selected(s, T)[i] = Selected(s, T)[j] => i = j
<1> DEFINE Part(w, n) ==
      /\ w \in Seq(S)
      /\ \A i \in 1..Len(w) : \E j \in 1..n : w[i] = s[j]
      /\ \A i, j \in 1..Len(w) : w[i] = w[j] => i = j
<1>1. PICK f : Computes(f, s, T, Len(s)) /\ Selected(s, T) = f[Len(s)] BY SelectedComputed
<1> DEFINE Good == {n \in Nat : Part(f[n], n)}
<1>2. 0 \in Good
  <2>1. f[0] = <<>> BY <1>1, ComputesStep
  <2>2. <<>> \in Seq(S) /\ Len(<<>>) = 0 OBVIOUS
  <2>3. Part(<<>>, 0) BY <2>2
  <2> HIDE DEF Part
  <2> QED BY <2>1, <2>3
<1>3. ASSUME NEW n \in 0..(Len(s) - 1), n \in Good PROVE n + 1 \in Good
  <2>1. n + 1 \in 1..Len(s) /\ (n + 1) - 1 = n /\ n \in Nat /\ n + 1 \in Nat /\ s[n + 1] \in S OBVIOUS
  <2>2. f[n + 1] = IF s[n + 1] \in T THEN Append(f[n], s[n + 1]) ELSE f[n]
    <3>1. f[n + 1] = IF s[n + 1] \in T THEN Append(f[(n + 1) - 1], s[n + 1]) ELSE f[(n + 1) - 1]
      BY <1>1, <2>1, ComputesStep
    <3> QED BY <2>1, <3>1
  <2>3. Part(f[n], n) BY <1>3
  <2>4. CASE s[n + 1] \notin T
    <3>1. f[n + 1] = f[n] BY <2>2, <2>4
    <3>2. Part(f[n], n + 1)
      <4> DEFINE v == f[n]
      <4>1. Part(v, n) BY <2>3
      <4> HIDE DEF v
      <4>2. 1..n \subseteq 1..(n + 1) BY <2>1
      <4>3. Part(v, n + 1) BY <4>1, <4>2
      <4> QED BY <4>3 DEF v
    <3> QED BY <2>1, <3>1, <3>2
  <2>5. CASE s[n + 1] \in T
    <3> DEFINE v == f[n]
               w == Append(v, s[n + 1])
    <3>1. /\ w \in Seq(S) /\ Len(v) \in Nat /\ Len(w) = Len(v) + 1
          /\ w[Len(w)] = s[n + 1] /\ \A i \in 1..Len(v) : w[i] = v[i]
      BY <2>1, <2>3
    <3> HIDE DEF v, w
    <3>2. Part(v, n) BY <2>3 DEF v
    <3>3. \A i \in 1..Len(w) : i = Len(w) \/ i \in 1..Len(v) BY <3>1
    <3>4. \A i \in 1..Len(w) : \E j \in 1..(n + 1) : w[i] = s[j]
      <4> TAKE i \in 1..Len(w)
      <4>1. CASE i = Len(w)
        <5>1. n + 1 \in 1..(n + 1) /\ w[i] = s[n + 1] BY <2>1, <3>1, <4>1
        <5> QED BY <5>1
      <4>2. CASE i \in 1..Len(v)
        <5>1. w[i] = v[i] BY <3>1, <4>2
        <5>2. PICK j \in 1..n : v[i] = s[j] BY <3>2, <4>2
        <5>3. j \in 1..(n + 1) BY <2>1
        <5> QED BY <5>1, <5>2, <5>3
      <4> QED BY <3>3, <4>1, <4>2
    <3>5. \A i \in 1..Len(v) : w[i] # s[n + 1]
      <4> TAKE i \in 1..Len(v)
      <4>1. PICK j \in 1..n : v[i] = s[j] BY <3>2
      <4>2. j # n + 1 /\ j \in 1..Len(s) BY <2>1
      <4> QED BY <2>1, <3>1, <4>1, <4>2
    <3>6. \A i, j \in 1..Len(w) : w[i] = w[j] => i = j BY <3>1, <3>2, <3>3, <3>5
    <3>7. Part(w, n + 1) BY <3>1, <3>4, <3>6
    <3>8. f[n + 1] = w BY <2>2, <2>5 DEF w, v
    <3> QED BY <2>1, <3>7, <3>8
  <2> QED BY <2>4, <2>5
<1>4. 0..Len(s) \subseteq Good
  <2> HIDE DEF Good
  <2>1. Len(s) \in Nat OBVIOUS
  <2> QED BY <1>2, <1>3, <2>1, InductionUpTo
<1>5. Part(f[Len(s)], Len(s))
  <2>1. Len(s) \in 0..Len(s) OBVIOUS
  <2> QED BY <1>4, <2>1
<1> QED BY <1>1, <1>5
=============================================================================
