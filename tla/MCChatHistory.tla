---------------------------- MODULE MCChatHistory ----------------------------
(* The reader's messages, and one of somebody else among them. *)
EXTENDS ChatHistory, TLC

CONSTANTS reader, other, foreign

MCAuthor == [m \in Message |-> IF m = foreign THEN other ELSE reader]

OwnSymmetry == Permutations(Message \ {foreign})
=============================================================================
