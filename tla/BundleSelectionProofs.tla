------------------------ MODULE BundleSelectionProofs ------------------------
(***************************************************************************)
(* selectBundle returns a best bundle for every list of rows, of any       *)
(* length and in any order.  The argument: Outranks is a strict weak       *)
(* order, so "not outranked by" is transitive and what the loop has        *)
(* discarded stays discarded by whatever replaces the row it holds.        *)
(***************************************************************************)
EXTENDS BundleSelection, TLAPS

(***************************************************************************)
(* Outranks, the comparison of quota.service.ts, never ranks a row above   *)
(* itself.                                                                 *)
(***************************************************************************)
LEMMA OutranksIrreflexive ==
    ASSUME NEW s \in Snapshot
    PROVE  ~Outranks(s, s)
BY DEF Outranks, HasMore, HasSame, Snapshot

(***************************************************************************)
(* "Does not outrank" is transitive, which is what makes Outranks a strict *)
(* weak order: rows of equal rank are interchangeable.                     *)
(***************************************************************************)
LEMMA NotOutranksTransitive ==
    ASSUME NEW s \in Snapshot, NEW t \in Snapshot, NEW u \in Snapshot,
           ~Outranks(s, t), ~Outranks(t, u)
    PROVE  ~Outranks(s, u)
BY DEF Outranks, HasMore, HasSame, Snapshot

(***************************************************************************)
(* If s outranks t it is not outranked by t.                               *)
(***************************************************************************)
LEMMA OutranksAsymmetric ==
    ASSUME NEW s \in Snapshot, NEW t \in Snapshot, Outranks(s, t)
    PROVE  ~Outranks(t, s)
BY DEF Outranks, HasMore, HasSame, Snapshot

-----------------------------------------------------------------------------
(* The variables of the loop keep their types. *)
THEOREM TypeCorrect == Spec => []TypeOK
<1>1. Init => TypeOK
  BY SelectionConstants DEF Init, TypeOK
<1>2. TypeOK /\ [Next]_vars => TypeOK'
  <2> SUFFICES ASSUME TypeOK, [Next]_vars PROVE TypeOK'
    OBVIOUS
  <2>1. CASE Keep
    BY <2>1 DEF Keep, TypeOK
  <2>2. CASE Take
    BY <2>2 DEF Take, TypeOK
  <2>3. CASE UNCHANGED vars
    BY <2>3 DEF vars, TypeOK
  <2>4. QED
    BY <2>1, <2>2, <2>3 DEF Next
<1>3. QED
  BY <1>1, <1>2, PTL DEF Spec

(***************************************************************************)
(* One iteration adds exactly the candidate to the rows already visited.   *)
(***************************************************************************)
LEMMA OneMoreVisited ==
    ASSUME TypeOK, next \in 1..Len(rows), next' = next + 1, rows' = rows
    PROVE  /\ rows[next] \in Snapshot
           /\ Visited \subseteq Snapshot
           /\ Visited' = Visited \union {rows[next]}
<1>1. next' - 1 = next /\ next \in Nat /\ Len(rows) \in Nat
  BY DEF TypeOK
<1>2. \A k \in 1..Len(rows) : rows[k] \in Snapshot
  BY DEF TypeOK
<1>3. 1..(next' - 1) = 1..(next - 1) \union {next}
  BY <1>1
<1>4. Visited' = {rows[k] : k \in 1..(next' - 1)}
  BY DEF Visited
<1>5. Visited' = Visited \union {rows[next]}
  BY <1>3, <1>4 DEF Visited
<1>6. QED
  BY <1>1, <1>2, <1>5 DEF Visited

(***************************************************************************)
(* The pass over any list of rows holds a best bundle of the rows visited. *)
(***************************************************************************)
THEOREM SelectionCorrect == Spec => []SelectedIsBest
<1>1. Init => SelectedIsBest
  BY DEF Init, SelectedIsBest, Visited, Consumable
<1>2. TypeOK /\ SelectedIsBest /\ [Next]_vars => SelectedIsBest'
  <2> SUFFICES ASSUME TypeOK, SelectedIsBest, [Next]_vars
               PROVE  SelectedIsBest'
    OBVIOUS
  <2> DEFINE c == rows[next]
  <2>1. CASE Keep
    <3>1. c \in Snapshot /\ Visited \subseteq Snapshot /\ Visited' = Visited \union {c}
      BY <2>1, OneMoreVisited DEF Keep
    <3>2. selected' = selected /\ ~Replaces(c)
      BY <2>1 DEF Keep
    <3>3. CASE ~IsConsumable(c)
      <4>1. Consumable(Visited') = Consumable(Visited)
        BY <3>1, <3>3 DEF Consumable
      <4>2. QED
        BY <3>2, <4>1 DEF SelectedIsBest, BestBundles
    <3>4. CASE IsConsumable(c)
      <4>1. selected # Nobody /\ ~Outranks(c, selected)
        BY <3>2, <3>4 DEF Replaces
      <4>2. selected \in BestBundles(Visited)
        BY <4>1 DEF SelectedIsBest
      <4>3. selected \in BestBundles(Visited')
        BY <3>1, <4>1, <4>2 DEF BestBundles, Consumable
      <4>4. QED
        BY <3>2, <4>1, <4>3 DEF SelectedIsBest
    <3>5. QED
      BY <3>3, <3>4
  <2>2. CASE Take
    <3>1. c \in Snapshot /\ Visited \subseteq Snapshot /\ Visited' = Visited \union {c}
      BY <2>2, OneMoreVisited DEF Take
    <3>2. selected' = c /\ IsConsumable(c) /\ (selected # Nobody => Outranks(c, selected))
      BY <2>2 DEF Take, Replaces
    <3>3. c # Nobody
      BY <3>1, SelectionConstants
    <3>4. \A t \in Consumable(Visited) : ~Outranks(t, c)
      <4>1. CASE selected = Nobody
        BY <4>1 DEF SelectedIsBest
      <4>2. CASE selected # Nobody
        <5>1. selected \in Snapshot /\ \A t \in Consumable(Visited) : ~Outranks(t, selected)
          BY <4>2, <3>1 DEF SelectedIsBest, BestBundles, Consumable
        <5>2. ~Outranks(selected, c)
          BY <3>1, <3>2, <4>2, <5>1, OutranksAsymmetric
        <5>3. QED
          BY <3>1, <5>1, <5>2, NotOutranksTransitive DEF Consumable
      <4>3. QED
        BY <4>1, <4>2
    <3>5. ~Outranks(c, c)
      BY <3>1, OutranksIrreflexive
    <3>6. c \in BestBundles(Visited')
      BY <3>1, <3>2, <3>4, <3>5 DEF BestBundles, Consumable
    <3>7. QED
      BY <3>2, <3>3, <3>6 DEF SelectedIsBest
  <2>3. CASE UNCHANGED vars
    BY <2>3 DEF vars, SelectedIsBest, Visited
  <2>4. QED
    BY <2>1, <2>2, <2>3 DEF Next
<1>3. QED
  BY <1>1, <1>2, TypeCorrect, PTL DEF Spec
(***************************************************************************)
(* Among equals the first row wins, for lists of any length: what replaces *)
(* a row outranks it, and with it every row that ties with it.             *)
(***************************************************************************)
THEOREM FirstWins == Spec => []FirstOfTiesWins
<1>1. Init => FirstOfTiesWins
  BY DEF Init, FirstOfTiesWins
<1>2. TypeOK /\ SelectedIsBest /\ FirstOfTiesWins /\ [Next]_vars => FirstOfTiesWins'
  <2> SUFFICES ASSUME TypeOK, SelectedIsBest, FirstOfTiesWins, [Next]_vars
               PROVE  FirstOfTiesWins'
    OBVIOUS
  <2>1. CASE UNCHANGED vars
    BY <2>1 DEF vars, FirstOfTiesWins, Visited
  <2>2. ASSUME Keep \/ Take PROVE FirstOfTiesWins'
    <3> DEFINE c == rows[next]
    <3>1. next \in 1..Len(rows) /\ next' = next + 1 /\ rows' = rows /\ Len(rows) \in Nat
      BY <2>2 DEF Keep, Take, TypeOK
    <3>2. c \in Snapshot /\ Visited \subseteq Snapshot /\ Visited' = Visited \union {c}
      BY <3>1, OneMoreVisited
    <3> SUFFICES ASSUME NEW k \in 1..next, rows[k] \in BestBundles(Visited')
                 PROVE  \E j \in 1..k : rows[j] = selected'
      BY <3>1 DEF FirstOfTiesWins
    <3>3. CASE k # next
      <4>1. rows[k] \in Visited /\ k \in 1..(next - 1)
        BY <3>1, <3>3 DEF Visited
      <4>2. rows[k] \in BestBundles(Visited)
        BY <3>2, <4>1 DEF BestBundles, Consumable
      <4>3. CASE Keep
        BY <4>1, <4>2, <4>3 DEF Keep, FirstOfTiesWins
      <4>4. CASE Take
        <5>1. selected \in BestBundles(Visited) /\ selected # Nobody
          BY <4>2 DEF SelectedIsBest, BestBundles
        <5>2. Outranks(c, selected) /\ IsConsumable(c)
          BY <4>4, <5>1 DEF Take, Replaces
        <5>3. ~Outranks(c, rows[k]) /\ ~Outranks(rows[k], selected)
          BY <3>2, <4>2, <5>1, <5>2 DEF BestBundles, Consumable
        <5> QED
          BY <3>2, <4>1, <5>1, <5>2, <5>3, NotOutranksTransitive DEF BestBundles, Consumable
      <4> QED
        BY <2>2, <4>3, <4>4
    <3>4. CASE k = next
      <4>1. CASE Take
        BY <3>1, <3>4, <4>1 DEF Take
      <4>2. CASE Keep
        <5>1. IsConsumable(c) /\ ~Replaces(c) /\ selected' = selected
          BY <3>4, <4>2 DEF Keep, BestBundles, Consumable
        <5>2. selected \in Visited
          BY <5>1 DEF Replaces, SelectedIsBest, BestBundles, Consumable
        <5> QED
          BY <3>1, <3>4, <5>1, <5>2 DEF Visited
      <4> QED
        BY <2>2, <4>1, <4>2
    <3> QED
      BY <3>3, <3>4
  <2> QED
    BY <2>1, <2>2 DEF Next
<1> QED
  BY <1>1, <1>2, TypeCorrect, SelectionCorrect, PTL DEF Spec

=============================================================================
