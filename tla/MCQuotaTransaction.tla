------------------------- MODULE MCQuotaTransaction -------------------------
(* One user, whose requests are the only ones that can meet on a row. *)
EXTENDS QuotaTransaction, TLC

CONSTANTS user, basic, pro, enterprise

MCUser == {user}
MCOwner == [b \in Bundle |-> user]
MCTierOf == [b \in Bundle |-> CASE b = basic -> "BASIC"
                                  [] b = pro -> "PRO"
                                  [] b = enterprise -> "ENTERPRISE"]
MCMaxMessages == [t \in FiniteTier |-> IF t = "BASIC" THEN 1 ELSE 2]

RequestSymmetry == Permutations(Request)
=============================================================================
