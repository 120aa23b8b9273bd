-------------------------- MODULE MCKnowledgeIndex --------------------------
(* A small instance of KnowledgeIndex: two threads of one process.             *)
EXTENDS KnowledgeIndex, TLC
CONSTANTS h1, yes, no
MCNorm == [c \in Contents |-> c]
MCHostOf == [t \in Threads |-> CHOOSE h \in Hosts : TRUE]
=============================================================================
