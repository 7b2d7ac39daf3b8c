-------------------------- MODULE MCSubscriptions --------------------------
(* Two users, of which the first owns the bundles; a message or two each. *)
EXTENDS Subscriptions

CONSTANTS owner, stranger, basic, pro, enterprise

MCOwner == [b \in Bundle |-> owner]
MCTierOf == [b \in Bundle |-> CASE b = basic -> "BASIC"
                                  [] b = pro -> "PRO"
                                  [] b = enterprise -> "ENTERPRISE"]
MCMaxMessages == [t \in FiniteTier |-> IF t = "BASIC" THEN 1 ELSE 2]

\* Cycles of one day, which are often renewed and late, and one of two days.
MCCycle == [b \in Bundle |-> IF b = pro THEN 4 ELSE 2]
=============================================================================
