----------------------------- MODULE AtomicQuota -----------------------------
(***************************************************************************)
(* What QuotaRepository.deductWithinTransaction promises its callers: a    *)
(* request for a message is settled in one indivisible step, as if it were *)
(* alone.  It takes a free message of a month that has one left; it takes  *)
(* a message of a bundle that can pay, or is refused, only where a month's *)
(* free messages are used up; a failed request costs nothing.  That the    *)
(* bundle is the best one, and that none could pay for what is refused, is *)
(* said of the rows a deduction holds locked, and so in QuotaTransaction   *)
(* (DecisionStillHolds): a bundle may be bought while a deduction waits.   *)
(* There are no locks, statements or snapshots here: QuotaTransaction is   *)
(* the SQL that is meant to implement this.                                *)
(***************************************************************************)
EXTENDS QuotaRules, FiniteSets

CONSTANTS
    Request,    \* the chat requests that ever ask for a deduction
    LastMonth   \* bound: the months are 0..LastMonth

Month == 0..LastMonth

VARIABLES
    used,       \* free messages each user has used in each month
    bundles,    \* the subscription_bundles rows
    outcome     \* how each request ended

vars == <<used, bundles, outcome>>

\* The columns of a bundle row that quota depends on.
Row == [present : BOOLEAN, active : BOOLEAN, remaining : Nat, activatedAt : Nat]

NoRow == [present |-> FALSE, active |-> FALSE, remaining |-> 0, activatedAt |-> 0]

Open   == [kind |-> "OPEN"]
Failed == [kind |-> "FAILED"]
Free(u, m)      == [kind |-> "FREE", user |-> u, month |-> m]
Exhausted(u, m) == [kind |-> "EXHAUSTED", user |-> u, month |-> m]
Charged(b)      == [kind |-> "BUNDLE", bundle |-> b]

Outcome ==
    {Open, Failed}
    \union {Free(u, m) : u \in User, m \in Month}
    \union {Exhausted(u, m) : u \in User, m \in Month}
    \union {Charged(b) : b \in Bundle}

-----------------------------------------------------------------------------
Init ==
    /\ used = [u \in User |-> [m \in Month |-> 0]]
    /\ bundles = [b \in Bundle |-> NoRow]
    /\ outcome = [r \in Request |-> Open]

Settle(r, o) ==
    /\ outcome[r] = Open
    /\ outcome' = [outcome EXCEPT ![r] = o]

GrantFree(r) ==
    \E u \in User, m \in Month :
        /\ used[u][m] < FreeAllowance
        /\ used' = [used EXCEPT ![u][m] = @ + 1]
        /\ Settle(r, Free(u, m))
        /\ UNCHANGED bundles

\* A row can pay if it is there, active, and unlimited or not yet empty.
CanPay(b) ==
    /\ bundles[b].present
    /\ bundles[b].active
    /\ IsUnlimitedTier(TierOf[b]) \/ bundles[b].remaining > 0

\* Plausible bug: the plan names the bundle and its row is not updated.
GrantUncharged(r) ==
    \E b \in Bundle, m \in Month :
        /\ used[Owner[b]][m] = FreeAllowance
        /\ CanPay(b)
        /\ Settle(r, Charged(b))
        /\ UNCHANGED <<used, bundles>>

GrantBundle(r) ==
    \E b \in Bundle, m \in Month :
        /\ used[Owner[b]][m] = FreeAllowance
        /\ CanPay(b)
        /\ bundles' = [bundles EXCEPT ![b].remaining =
                          IF IsUnlimitedTier(TierOf[b]) THEN @ ELSE @ - 1]
        /\ Settle(r, Charged(b))
        /\ UNCHANGED used

Refuse(r) ==
    \E u \in User, m \in Month :
        /\ used[u][m] = FreeAllowance
        /\ Settle(r, Exhausted(u, m))
        /\ UNCHANGED <<used, bundles>>

Fail(r) ==
    /\ Settle(r, Failed)
    /\ UNCHANGED <<used, bundles>>

\* The subscriptions module creates, renews, cancels or deactivates a bundle.
WriteRow(b) ==
    /\ bundles'[b] \in Row
    /\ bundles' = [bundles EXCEPT ![b] = bundles'[b]]
    /\ UNCHANGED <<used, outcome>>

Next ==
    \/ \E r \in Request : GrantFree(r) \/ GrantBundle(r) \/ Refuse(r) \/ Fail(r)
    \/ \E b \in Bundle : WriteRow(b)

Spec == Init /\ [][Next]_vars

-----------------------------------------------------------------------------
TypeOK ==
    /\ used \in [User -> [Month -> Nat]]
    /\ bundles \in [Bundle -> Row]
    /\ outcome \in [Request -> Outcome]

\* The requests that user u was given for free in month m.
FreeGrants(u, m) == {r \in Request : outcome[r] = Free(u, m)}

(***************************************************************************)
(* The free window counts exactly the messages given for free, and never   *)
(* more than the allowance: no grant is lost, none is counted twice.       *)
(***************************************************************************)
FreeGrantsCounted ==
    \A u \in User, m \in Month :
        /\ used[u][m] = Cardinality(FreeGrants(u, m))
        /\ used[u][m] <= FreeAllowance
=============================================================================
