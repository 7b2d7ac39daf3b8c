----------------------------- MODULE QuotaRules -----------------------------
(***************************************************************************)
(* The rules by which a chat message is paid for: the free allowance of a  *)
(* calendar month first, then the best consumable subscription bundle.     *)
(* These are the pure value objects of src/chat/domain; every other module *)
(* of the quota side is built on them.                                     *)
(***************************************************************************)
EXTENDS Naturals

CONSTANTS
    User,           \* the Keycloak subjects
    Bundle,         \* the ids of subscription_bundles rows
    Owner,          \* the user_id column, which no operation changes
    TierOf,         \* the tier column, which no operation changes
    MaxMessages,    \* TIER_MAX_MESSAGES on the finite tiers (10 and 100)
    FreeAllowance   \* FREE_MONTHLY_ALLOWANCE (3)

FiniteTier == {"BASIC", "PRO"}

Tier == FiniteTier \union {"ENTERPRISE"}

ASSUME QuotaConstants ==
    /\ Owner \in [Bundle -> User]
    /\ TierOf \in [Bundle -> Tier]
    /\ MaxMessages \in [FiniteTier -> Nat \ {0}]
    /\ FreeAllowance \in Nat \ {0}

-----------------------------------------------------------------------------
(* Tiers. *)

IsUnlimitedTier(t) == t \notin FiniteTier

\* What a new or renewed bundle starts with; an unlimited row stores 0.
InitialRemaining(b) ==
    IF IsUnlimitedTier(TierOf[b]) THEN 0 ELSE MaxMessages[TierOf[b]]

-----------------------------------------------------------------------------
(* The free window of a month. *)

Window(m, n) == [month |-> m, used |-> n]

\* FreeQuotaWindow.restore never trusts a stored count above the allowance.
RestoreWindow(m, n) == Window(m, IF n < FreeAllowance THEN n ELSE FreeAllowance)

UsedIn(w, m) == IF w.month = m THEN w.used ELSE 0

HasRemainingIn(w, m) == FreeAllowance - UsedIn(w, m) > 0

-----------------------------------------------------------------------------
(* Bundles, as the chat domain sees them. *)

Snapshot == [bundle      : Bundle,
             remaining   : Nat,
             activatedAt : Nat,
             active      : BOOLEAN]

IsUnlimited(s) == IsUnlimitedTier(TierOf[s.bundle])

\* Plausible bug: an active bundle is charged although it is empty.
IsActive(s) == s.active

IsConsumable(s) == s.active /\ (IsUnlimited(s) \/ s.remaining # 0)

\* Comparison of rankableRemaining, which is infinite for an unlimited tier.
HasMore(s, t) ==
    /\ ~IsUnlimited(t)
    /\ IsUnlimited(s) \/ s.remaining > t.remaining

HasSame(s, t) ==
    \/ IsUnlimited(s) /\ IsUnlimited(t)
    \/ ~IsUnlimited(s) /\ ~IsUnlimited(t) /\ s.remaining = t.remaining

Outranks(s, t) ==
    HasMore(s, t) \/ (HasSame(s, t) /\ s.activatedAt > t.activatedAt)

Consumable(S) == {s \in S : IsConsumable(s)}

\* What selectBundle may return from the rows S: ties are broken by row order.
BestBundles(S) ==
    {s \in Consumable(S) : \A t \in Consumable(S) : ~Outranks(t, s)}
=============================================================================
