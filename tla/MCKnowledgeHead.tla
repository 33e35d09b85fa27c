--------------------------- MODULE MCKnowledgeHead ---------------------------
(* Instances of KnowledgeHead for TLC. *)
EXTENDS KnowledgeHead

CONSTANTS p1, p2, g1, g2, x, y

MCProcess == {p1, p2}
MCGenesis == {g1, g2}
MCReceipt == {x, y}
=============================================================================
