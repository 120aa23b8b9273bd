----------------------------- MODULE MCKnowledge -----------------------------
(* A small instance of KnowledgeStore: two texts that say the opposite.      *)
EXTENDS KnowledgeStore, TLC

CONSTANTS yes, no
MCNorm == [c \in Contents |-> c]
MCOpposed == {{yes, no}}
MCSame == Permutations(Resources) \cup Permutations(Contents)
=============================================================================
