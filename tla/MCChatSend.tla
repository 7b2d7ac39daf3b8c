------------------------------ MODULE MCChatSend ------------------------------
(* Two users, of whom the first may buy a bundle. *)
EXTENDS ChatSend

CONSTANTS alice, bob, basic

MCOwner == [b \in Bundle |-> alice]
MCTierOf == [b \in Bundle |-> "BASIC"]
MCMaxMessages == [t \in FiniteTier |-> 1]

=============================================================================
