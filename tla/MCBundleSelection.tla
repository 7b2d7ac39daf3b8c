-------------------------- MODULE MCBundleSelection --------------------------
(* Every list of at most three rows over one bundle of each tier. *)
EXTENDS BundleSelection, TLC

CONSTANTS basic, pro, enterprise, user

MCBundle == {basic, pro, enterprise}
MCUser == {user}
MCOwner == [b \in MCBundle |-> user]
MCTierOf == (basic :> "BASIC") @@ (pro :> "PRO") @@ (enterprise :> "ENTERPRISE")
MCMaxMessages == [t \in FiniteTier |-> 2]

MCSnapshot == [bundle : MCBundle, remaining : 0..2, activatedAt : 0..1, active : BOOLEAN]

\* Rows of one SELECT have distinct ids.
MCRowLists ==
    {<<>>} \union
    UNION {{l \in [1..n -> MCSnapshot] :
               \A i, j \in 1..n : l[i].bundle = l[j].bundle => i = j} : n \in 1..2}
    \union
    {l \in [1..3 -> MCSnapshot] :
        {l[i].bundle : i \in 1..3} = MCBundle}
=============================================================================
