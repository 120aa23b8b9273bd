------------------------------ MODULE Selection ------------------------------
(* A part of a sequence, in its order: what a comprehension or an ORDER BY   *)
(* over a filtered table returns.                                            *)
EXTENDS Naturals, Sequences

(* the elements of s that are in T *)
Selected(s, T) ==
  LET upTo[i \in 0..Len(s)] ==
        IF i = 0 THEN <<>>
        ELSE IF s[i] \in T THEN Append(upTo[i - 1], s[i]) ELSE upTo[i - 1]
  IN  upTo[Len(s)]
=============================================================================
