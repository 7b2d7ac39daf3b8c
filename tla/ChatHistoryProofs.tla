-------------------------- MODULE ChatHistoryProofs --------------------------
(***************************************************************************)
(* The walk through the history is complete for any number of messages,    *)
(* any page size and any interleaving of reads and stores.  The argument:  *)
(* rows are never removed and their dates never change, so the number of   *)
(* rows newer than a given one only grows; and a page that starts at       *)
(* offset holds each row with between offset and offset + limit newer ones *)
(* if no other row has its date.                                           *)
(***************************************************************************)
EXTENDS ChatHistory, FiniteSetTheorems, TLAPS

(* The reader's rows are finitely many, and dated. *)
LEMMA OwnIsFinite ==
    ASSUME TypeOK
    PROVE  /\ Own \subseteq Message /\ IsFiniteSet(Own)
           /\ \A m \in Own : createdAt[m] \in Nat
           /\ \A S \in SUBSET Own : /\ IsFiniteSet(S)
                                    /\ Cardinality(S) \in Nat
                                    /\ Cardinality(S) <= Cardinality(Own)
<1>1. Own \subseteq Message
  BY DEF TypeOK, Own, RowsOf
<1>2. IsFiniteSet(Own)
  BY <1>1, HistoryConstants, FS_Subset
<1>3. ASSUME NEW S \in SUBSET Own
      PROVE  IsFiniteSet(S) /\ Cardinality(S) \in Nat /\ Cardinality(S) <= Cardinality(Own)
  BY <1>2, FS_Subset, FS_CardinalityType
<1>4. \A m \in Own : createdAt[m] \in Nat
  BY DEF TypeOK, Own, RowsOf
<1>5. QED
  BY <1>1, <1>2, <1>3, <1>4

(* The rows after the first n, and among them a page, are the reader's. *)
LEMMA PagesAreOwn ==
    ASSUME NEW P \in Pages(Own)
    PROVE  P \in SUBSET Own
BY DEF Pages, First

(***************************************************************************)
(* A row with at least offset newer ones is on the page at offset, or has  *)
(* a whole page more of newer ones.                                        *)
(***************************************************************************)
LEMMA PageHolds ==
    ASSUME TypeOK, NEW P \in Pages(Own), NEW m \in Own, ~Tied(m),
           Cardinality(Newer(m)) >= offset
    PROVE  \/ m \in P
           \/ /\ Cardinality(Newer(m)) >= offset + Limit
              /\ Cardinality(Own) > offset + Limit
<1>1. PICK T \in First(offset + Limit, Own) : \E S \in First(offset, Own) \cap SUBSET T : P = T \ S
  BY DEF Pages
<1>2. PICK S \in First(offset, Own) : S \subseteq T /\ P = T \ S
  BY <1>1
<1>3. offset \in Nat /\ Limit \in Nat /\ Cardinality(Own) \in Nat
  BY HistoryConstants, OwnIsFinite DEF TypeOK
<1>4. /\ S \subseteq Own /\ T \subseteq Own
      /\ Cardinality(S) = Least(offset, Cardinality(Own))
      /\ Cardinality(T) = Least(offset + Limit, Cardinality(Own))
      /\ Leads(S, Own) /\ Leads(T, Own)
  BY DEF First
<1>5. /\ Newer(m) \subseteq Own
      /\ IsFiniteSet(Newer(m)) /\ Cardinality(Newer(m)) \in Nat
      /\ IsFiniteSet(S) /\ IsFiniteSet(T)
  BY <1>4, OwnIsFinite DEF Newer
<1>6. \A n \in Own \ {m} : createdAt[n] \in Nat /\ createdAt[m] \in Nat /\ createdAt[n] # createdAt[m]
  BY OwnIsFinite DEF Tied
<1>7. m \notin S
  <2> SUFFICES ASSUME m \in S PROVE FALSE
    OBVIOUS
  <2>1. Newer(m) \subseteq S
    BY <1>4, <1>6, OwnIsFinite DEF Newer, Leads
  <2>2. m \notin Newer(m)
    BY OwnIsFinite DEF Newer
  <2>3. Cardinality(Newer(m)) < Cardinality(S)
    <3>1. Cardinality(S) \in Nat
      BY <1>5, FS_CardinalityType
    <3>2. Cardinality(Newer(m)) <= Cardinality(S)
      BY <1>5, <2>1, FS_Subset
    <3>3. Newer(m) # S
      BY <2>2
    <3>4. Cardinality(S) # Cardinality(Newer(m))
      BY <1>5, <2>1, <3>3, FS_Subset
    <3>5. QED
      BY <1>5, <3>1, <3>2, <3>4
  <2>4. QED
    BY <1>3, <1>4, <1>5, <2>3 DEF Least
<1>8. CASE m \notin T
  <2>1. T \subseteq Newer(m)
    BY <1>4, <1>6, <1>8 DEF Newer, Leads
  <2>2. Cardinality(T) <= Cardinality(Newer(m))
    BY <1>5, <2>1, FS_Subset
  <2>3. Cardinality(T) < Cardinality(Own)
    BY <1>4, <1>8, OwnIsFinite, FS_Subset
  <2>4. QED
    BY <1>3, <1>4, <1>5, <2>2, <2>3 DEF Least
<1>9. QED
  BY <1>2, <1>7, <1>8

-----------------------------------------------------------------------------
(* What a step may do to the table: add rows, and date messages without one. *)
TableGrows ==
    /\ stored \subseteq stored'
    /\ \A m \in stored : createdAt'[m] = createdAt[m]

(* A table that grows puts no row ahead of where it was, and keeps ties. *)
LEMMA PositionsGrow ==
    ASSUME TypeOK, TypeOK', TableGrows
    PROVE  /\ Own \subseteq Own'
           /\ \A m \in Own :
                  /\ Tied(m) => Tied(m)'
                  /\ Cardinality(Newer(m)) \in Nat
                  /\ Cardinality(Newer(m)') \in Nat
                  /\ Cardinality(Newer(m)) <= Cardinality(Newer(m)')
<1>1. Own \subseteq Own' /\ \A m \in Own : createdAt'[m] = createdAt[m]
  BY DEF TableGrows, Own, RowsOf
<1>2. \A S \in SUBSET Own' : IsFiniteSet(S) /\ Cardinality(S) \in Nat
  <2>1. Own' \subseteq Message
    BY DEF TypeOK, Own, RowsOf
  <2>2. QED
    BY <2>1, HistoryConstants, FS_Subset, FS_CardinalityType
<1>3. ASSUME NEW m \in Own
      PROVE  /\ Tied(m) => Tied(m)'
             /\ Cardinality(Newer(m)) \in Nat
             /\ Cardinality(Newer(m)') \in Nat
             /\ Cardinality(Newer(m)) <= Cardinality(Newer(m)')
  <2>1. Newer(m) \subseteq Newer(m)' /\ Newer(m)' \subseteq Own'
    BY <1>1, <1>3 DEF Newer
  <2>2. Tied(m) => Tied(m)'
    BY <1>1, <1>3 DEF Tied
  <2>3. QED
    BY <1>2, <2>1, <2>2, FS_Subset
<1>4. QED
  BY <1>1, <1>3

(* The actions on the table let it grow, all others leave it alone. *)
LEMMA StepsGrow ==
    ASSUME TypeOK, [Next]_vars
    PROVE  TableGrows
<1>1. ASSUME NEW m \in Message, Create(m) PROVE TableGrows
  <2>1. m \notin stored
    BY <1>1 DEF Create, TypeOK
  <2>2. QED
    BY <1>1, <2>1 DEF Create, TableGrows, TypeOK
<1>2. ASSUME NEW m \in Message, Save(m) PROVE TableGrows
  BY <1>2 DEF Save, TableGrows
<1>3. CASE UNCHANGED <<createdAt, stored>>
  BY <1>3 DEF TableGrows
<1>4. QED
  BY <1>1, <1>2, <1>3
     DEF Next, vars, tableVars, Tick, GetOne, LookedUp, Begin, FindMany, Count, Reply, Break

(* Every step keeps the types. *)
LEMMA TypePreserved ==
    ASSUME TypeOK, [Next]_vars
    PROVE  TypeOK'
<1> DEFINE Table == /\ clock' \in Nat
                    /\ createdAt' \in [Message -> Nat \union {None}]
                    /\ stored' \in SUBSET {m \in Message : createdAt'[m] # None}
<1>0. Cardinality(Own) \in Nat
  BY OwnIsFinite
<1>1. ASSUME Table, TableGrows, UNCHANGED <<walkVars, lookup>> PROVE TypeOK'
  <2>1. Own \subseteq Own'
    BY <1>1 DEF TableGrows, Own, RowsOf
  <2>2. QED
    BY <1>1, <2>1 DEF TypeOK, walkVars
<1>2. ASSUME NEW m \in Message, Create(m) PROVE TypeOK'
  <2>1. None # clock /\ clock \in Nat
    BY HistoryConstants DEF TypeOK
  <2>2. Table
    BY <1>2, <2>1 DEF Create, TypeOK
  <2>3. QED
    BY <1>1, <1>2, <2>2, StepsGrow DEF Create
<1>3. ASSUME NEW m \in Message, Save(m) PROVE TypeOK'
  BY <1>1, <1>3, StepsGrow DEF Save, TypeOK
<1>4. CASE Tick
  BY <1>1, <1>4, StepsGrow DEF Tick, TypeOK
<1>5. ASSUME NEW u \in User, NEW m \in Message, GetOne(u, m) PROVE TypeOK'
  <2>1. Own' = Own
    BY <1>5 DEF GetOne, LookedUp, tableVars, Own, RowsOf
  <2>2. lookup' \in [caller : User, message : Message, held : BOOLEAN,
                     status : {"200", "403", "404"}]
    <3>1. (m \in stored) \in BOOLEAN
      OBVIOUS
    <3>2. QED
      BY <1>5, <3>1 DEF GetOne, LookedUp, StatusOf
  <2>3. QED
    BY <1>5, <2>1, <2>2 DEF GetOne, LookedUp, TypeOK, tableVars, walkVars
<1>6. CASE Begin
  BY <1>6 DEF Begin, TypeOK, tableVars, Own, RowsOf
<1>7. CASE FindMany
  BY <1>0, <1>7, PagesAreOwn DEF FindMany, TypeOK, tableVars, Own, RowsOf
<1>8. CASE Count
  BY <1>0, <1>8 DEF Count, TypeOK, tableVars, Own, RowsOf
<1>9. CASE Reply
  <2>1. seen' \in SUBSET Own
    BY <1>9 DEF Reply, TypeOK
  <2>2. offset' \in Nat
    BY <1>9, HistoryConstants DEF Reply, TypeOK
  <2>3. QED
    BY <1>9, <2>1, <2>2 DEF Reply, TypeOK, tableVars, Own, RowsOf
<1>10. CASE Break
  BY <1>10 DEF Break, TypeOK, tableVars, Own, RowsOf
<1>11. CASE UNCHANGED vars
  BY <1>11 DEF vars, tableVars, walkVars, TypeOK, Own, RowsOf
<1>12. QED
  BY <1>2, <1>3, <1>4, <1>5, <1>6, <1>7, <1>8, <1>9, <1>10, <1>11 DEF Next

-----------------------------------------------------------------------------
(* A step that only lets the table grow keeps the walk right. *)
LEMMA GrowthIsHarmless ==
    ASSUME TypeOK, TypeOK', TableGrows, UNCHANGED walkVars,
           UnseenIsAhead, WalkIsComplete
    PROVE  UnseenIsAhead' /\ WalkIsComplete'
<1>1. before \subseteq Own /\ offset \in Nat /\ Limit \in Nat
  BY HistoryConstants DEF TypeOK
<1>2. UnseenIsAhead'
  <2> SUFFICES ASSUME walk = "asked", NEW m \in before
               PROVE  m \in seen \/ Tied(m)' \/ Ahead(m)'
    BY DEF UnseenIsAhead, walkVars
  <2>1. m \in seen \/ Tied(m) \/ Ahead(m)
    BY DEF UnseenIsAhead
  <2>2. Ahead(m) => Ahead(m)'
    BY <1>1, PositionsGrow DEF Ahead, walkVars
  <2>3. QED
    BY <1>1, <2>1, <2>2, PositionsGrow
<1>3. WalkIsComplete'
  BY <1>1, PositionsGrow DEF WalkIsComplete, walkVars
<1>4. QED
  BY <1>2, <1>3

(* The steps of the walk keep it right. *)
LEMMA WalkPreserved ==
    ASSUME TypeOK, [Next]_vars, UnseenIsAhead, WalkIsComplete
    PROVE  UnseenIsAhead' /\ WalkIsComplete'
<1>0. /\ TypeOK' /\ TableGrows
      /\ before \subseteq Own /\ offset \in Nat /\ Limit \in Nat
      /\ \A m \in Own : Cardinality(Newer(m)) \in Nat
  BY TypePreserved, StepsGrow, PositionsGrow, HistoryConstants DEF TypeOK
<1>1. CASE UNCHANGED walkVars
  BY <1>0, <1>1, GrowthIsHarmless
<1>2. CASE Begin
  <2>1. \A m \in Own : Cardinality(Newer(m)') \in Nat
    BY <1>0, PositionsGrow
  <2>2. QED
    BY <1>0, <1>2, <2>1 DEF Begin, UnseenIsAhead, WalkIsComplete, Ahead
<1>3. CASE FindMany
  <2>1. \A m : Newer(m)' = Newer(m) /\ Tied(m)' = Tied(m)
    BY <1>3 DEF FindMany, tableVars, Newer, Tied, Own, RowsOf
  <2>2. items' # None
    BY <1>3, PagesAreOwn, HistoryConstants, OwnIsFinite DEF FindMany
  <2>3. ASSUME NEW m \in before, m \notin seen, ~Tied(m)
        PROVE  Ahead(m)'
    <3>1. Cardinality(Newer(m)) >= offset
      BY <1>3, <2>3 DEF FindMany, UnseenIsAhead, Ahead
    <3>2. QED
      BY <1>0, <1>3, <2>1, <2>2, <2>3, <3>1, PageHolds DEF FindMany, Ahead
  <2>4. QED
    BY <1>3, <2>1, <2>3 DEF FindMany, UnseenIsAhead, WalkIsComplete
<1>4. CASE Count
  BY <1>4 DEF Count, tableVars, UnseenIsAhead, WalkIsComplete, Ahead, Newer, Tied, Own, RowsOf
<1>5. CASE Reply
  <2>1. \A m : Newer(m)' = Newer(m) /\ Tied(m)' = Tied(m)
    BY <1>5 DEF Reply, tableVars, Newer, Tied, Own, RowsOf
  <2>2. /\ walk = "asked" /\ items # None /\ total \in Nat /\ size \in Nat
        /\ seen' = seen \union items /\ before' = before /\ size' = size
    BY <1>5 DEF Reply, TypeOK
  <2>3. ASSUME NEW m \in before, m \notin seen', ~Tied(m)
        PROVE  Cardinality(Newer(m)) >= offset + Limit /\ size > offset + Limit
    BY <2>2, <2>3 DEF UnseenIsAhead, Ahead
  <2>4. CASE walk' = "ended"
    <3>1. offset + Limit >= total /\ total' = total
      BY <1>5, <2>2, <2>4 DEF Reply
    <3>2. QED
      BY <1>0, <2>1, <2>2, <2>3, <2>4, <3>1 DEF UnseenIsAhead, WalkIsComplete
  <2>5. CASE walk' # "ended"
    <3>1. walk' = "asked" /\ offset' = offset + Limit /\ items' = None
      BY <1>5, <2>2, <2>5 DEF Reply
    <3>2. QED
      BY <2>1, <2>2, <2>3, <3>1 DEF UnseenIsAhead, WalkIsComplete, Ahead
  <2>6. QED
    BY <2>4, <2>5
<1>6. CASE Break
  <2>1. \A m : Newer(m)' = Newer(m) /\ Tied(m)' = Tied(m)
    BY <1>6 DEF Break, tableVars, Newer, Tied, Own, RowsOf
  <2>2. ASSUME NEW m \in before, m \notin seen, ~Tied(m)
        PROVE  Cardinality(Newer(m)) >= offset
    BY <1>6, <2>2 DEF Break, UnseenIsAhead, Ahead
  <2>3. QED
    BY <1>6, <2>1, <2>2 DEF Break, UnseenIsAhead, WalkIsComplete, Ahead
<1>7. QED
  BY <1>1, <1>2, <1>3, <1>4, <1>5, <1>6
     DEF Next, vars, Create, Save, Tick, GetOne, LookedUp


-----------------------------------------------------------------------------
(* A row that is not on a page of one has another row before it. *)
LEMMA PageOfOne ==
    ASSUME TypeOK, NEW u \in User, NEW page \in First(1, RowsOf(u)),
           NEW m \in RowsOf(u), m \notin page
    PROVE  \E n \in RowsOf(u) \ {m} : createdAt[n] >= createdAt[m]
<1> DEFINE R == RowsOf(u)
<1>1. page \subseteq R /\ Cardinality(page) = Least(1, Cardinality(R)) /\ Leads(page, R)
  BY DEF First
<1>2. IsFiniteSet(R)
  <2>1. R \subseteq Message
    BY DEF TypeOK, RowsOf
  <2> QED
    BY <2>1, HistoryConstants, FS_Subset
<1>3. Cardinality(R) # 0 /\ Cardinality(R) \in Nat
  BY <1>2, FS_EmptySet, FS_CardinalityType
<1>4. Cardinality(page) # 0
  BY <1>1, <1>3 DEF Least
<1>5. PICK n \in page : TRUE
  BY <1>4, FS_EmptySet
<1>6. n \in R \ {m} /\ createdAt[n] >= createdAt[m]
  BY <1>1, <1>5 DEF Leads
<1> QED
  BY <1>6

\* No row is ever removed: what was held still is.
HeldIsStored == lookup # None /\ lookup.held => lookup.message \in stored

(* The answer of getOne stays what the table says. *)
LEMMA LookupPreserved ==
    ASSUME TypeOK, [Next]_vars, HeldIsStored, OnlyOwnHide
    PROVE  HeldIsStored' /\ OnlyOwnHide'
<1>1. /\ stored \subseteq stored'
      /\ \A u : RowsOf(u) \subseteq RowsOf(u)' /\ \A m \in RowsOf(u) : createdAt'[m] = createdAt[m]
      /\ lookup # None => lookup.held \in BOOLEAN
  BY StepsGrow DEF TableGrows, RowsOf, TypeOK
<1>2. CASE UNCHANGED lookup
  <2> SUFFICES ASSUME lookup # None PROVE HeldIsStored' /\ OnlyOwnHide'
    BY <1>2 DEF HeldIsStored, OnlyOwnHide
  <2> PICK m, u : m = lookup.message /\ u = lookup.caller
    OBVIOUS
  <2>1. lookup.status = "200" => m \in stored' /\ (Author[m] = u \/ u \in Admin)
    BY <1>1 DEF OnlyOwnHide
  <2>2. ASSUME lookup.status # "200", lookup.held, Author[m] = u
        PROVE  \E n \in RowsOf(u)' \ {m} : createdAt'[n] >= createdAt'[m]
    <3>1. PICK n \in RowsOf(u) \ {m} : createdAt[n] >= createdAt[m]
      BY <2>2 DEF OnlyOwnHide
    <3>2. createdAt'[m] = createdAt[m]
      BY <1>1, <2>2 DEF HeldIsStored, RowsOf
    <3> QED
      BY <1>1, <3>1, <3>2
  <2> QED
    BY <1>1, <1>2, <2>1, <2>2 DEF HeldIsStored, OnlyOwnHide
<1>3. ASSUME NEW u \in User, NEW m \in Message, GetOne(u, m)
      PROVE  HeldIsStored' /\ OnlyOwnHide'
  <2>1. PICK page \in First(1, RowsOf(u)) : LookedUp(u, m, page)
    BY <1>3 DEF GetOne
  <2>2. /\ lookup' = [caller |-> u, message |-> m, held |-> m \in stored,
                      status |-> StatusOf(u, m, page)]
        /\ stored' = stored /\ createdAt' = createdAt /\ RowsOf(u)' = RowsOf(u)
    BY <2>1 DEF LookedUp, tableVars, RowsOf
  <2>3. page \subseteq RowsOf(u)
    BY DEF First
  <2>4. StatusOf(u, m, page) = "200" => m \in stored /\ Author[m] = u
    BY <2>3 DEF StatusOf, RowsOf
  <2>5. ASSUME StatusOf(u, m, page) # "200", m \in stored, Author[m] = u
        PROVE  \E n \in RowsOf(u) \ {m} : createdAt[n] >= createdAt[m]
    BY <2>5, PageOfOne DEF StatusOf, RowsOf
  <2>6. QED
    BY <2>2, <2>4, <2>5 DEF HeldIsStored, OnlyOwnHide
<1>4. QED
  BY <1>2, <1>3
     DEF Next, vars, Create, Save, Tick, Begin, FindMany, Count, Reply, Break

(* The inductive invariant. *)
HistoryRight ==
    /\ TypeOK
    /\ UnseenIsAhead
    /\ WalkIsComplete
    /\ HeldIsStored
    /\ OnlyOwnHide

(* It holds when nothing is stored and every step keeps it. *)
LEMMA HistoryInvariant == Spec => []HistoryRight
<1>1. Init => HistoryRight
  BY DEF Init, HistoryRight, TypeOK, Own, RowsOf, UnseenIsAhead, WalkIsComplete, HeldIsStored,
         OnlyOwnHide
<1>2. HistoryRight /\ [Next]_vars => HistoryRight'
  BY TypePreserved, WalkPreserved, LookupPreserved DEF HistoryRight
<1>3. QED
  BY <1>1, <1>2, PTL DEF Spec

(* The type invariant: pages and walks show the reader's own messages. *)
THEOREM TypeCorrect == Spec => []TypeOK
<1>1. HistoryRight => TypeOK
  BY DEF HistoryRight
<1>2. QED
  BY <1>1, HistoryInvariant, PTL

(***************************************************************************)
(* No message that was there at the beginning is ever behind the walk and  *)
(* unseen (prisma-chat-message.repository.ts:41-49).                       *)
(***************************************************************************)
THEOREM NothingIsSteppedOver == Spec => []UnseenIsAhead
<1>1. HistoryRight => UnseenIsAhead
  BY DEF HistoryRight
<1>2. QED
  BY <1>1, HistoryInvariant, PTL

(***************************************************************************)
(* A walk that ended has shown all there was, ties and a stale total       *)
(* apart (list-chat-messages.use-case.ts:20-22).                           *)
(***************************************************************************)
THEOREM WalksAreComplete == Spec => []WalkIsComplete
<1>1. HistoryRight => WalkIsComplete
  BY DEF HistoryRight
<1>2. QED
  BY <1>1, HistoryInvariant, PTL

(***************************************************************************)
(* For any callers, messages and dates: getOne shows a message to its user *)
(* and to admins only, and what hides one from its user is another of that *)
(* user, at least as new (chat.controller.ts:70-89).                       *)
(***************************************************************************)
THEOREM GetOneIsOwn == Spec => []OnlyOwnHide
<1>1. HistoryRight => OnlyOwnHide
  BY DEF HistoryRight
<1>2. QED
  BY <1>1, HistoryInvariant, PTL

=============================================================================
