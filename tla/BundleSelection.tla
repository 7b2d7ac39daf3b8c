--------------------------- MODULE BundleSelection ---------------------------
(***************************************************************************)
(* QuotaService.selectBundle: one pass over the bundle rows a SELECT       *)
(* returned, in whatever order it returned them, that keeps the best       *)
(* consumable one.  BestBundles of QuotaRules says what "best" means       *)
(* without an order; this module shows that the pass computes it.          *)
(***************************************************************************)
EXTENDS QuotaRules, Sequences

CONSTANTS
    RowLists,   \* the results the bundle SELECT may return
    Nobody      \* the initial null of `selected`

ASSUME SelectionConstants ==
    /\ RowLists \subseteq Seq(Snapshot)
    /\ Nobody \notin Snapshot

VARIABLES
    rows,       \* the argument of selectBundle
    next,       \* the position of the loop
    selected    \* the local variable of that name

vars == <<rows, next, selected>>

Init ==
    /\ rows \in RowLists
    /\ next = 1
    /\ selected = Nobody

\* Plausible bugs: the last consumable row wins; the last of the best rows wins.
ReplacesAlways(candidate) == IsConsumable(candidate)

ReplacesOnTie(candidate) ==
    /\ IsConsumable(candidate)
    /\ selected # Nobody => ~Outranks(selected, candidate)

\* One iteration of the loop over the candidate at position next.
Replaces(candidate) ==
    /\ IsConsumable(candidate)
    /\ selected # Nobody => Outranks(candidate, selected)

Keep ==
    /\ next \in 1..Len(rows)
    /\ ~Replaces(rows[next])
    /\ next' = next + 1
    /\ UNCHANGED <<rows, selected>>

\* Plausible bug: after a replacement the loop steps over a row.
TakeAndSkip ==
    /\ next \in 1..Len(rows)
    /\ Replaces(rows[next])
    /\ selected' = rows[next]
    /\ next' = next + 2
    /\ UNCHANGED rows

Take ==
    /\ next \in 1..Len(rows)
    /\ Replaces(rows[next])
    /\ selected' = rows[next]
    /\ next' = next + 1
    /\ UNCHANGED rows

Next == Keep \/ Take

Spec == Init /\ [][Next]_vars

-----------------------------------------------------------------------------
Visited == {rows[k] : k \in 1..(next - 1)}

TypeOK ==
    /\ rows \in Seq(Snapshot)
    /\ next \in 1..(Len(rows) + 1)
    /\ selected \in Snapshot \union {Nobody}

(***************************************************************************)
(* After any number of iterations the pass holds a best bundle of the rows *)
(* it has visited, and holds nothing only when none of them is consumable. *)
(* A comparison that is not a strict weak order would break this: what one *)
(* iteration discards is never looked at again.                            *)
(***************************************************************************)
SelectedIsBest ==
    IF selected = Nobody
    THEN Consumable(Visited) = {}
    ELSE selected \in BestBundles(Visited)

(***************************************************************************)
(* Among equally ranked bundles the first row wins: the outcome of a tie   *)
(* depends on the unordered SELECT, and on nothing else.                   *)
(***************************************************************************)
FirstOfTiesWins ==
    \A k \in 1..(next - 1) :
        rows[k] \in BestBundles(Visited) =>
            \E j \in 1..k : rows[j] = selected
=============================================================================
