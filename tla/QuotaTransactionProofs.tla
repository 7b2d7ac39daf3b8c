----------------------- MODULE QuotaTransactionProofs -----------------------
(***************************************************************************)
(* The locking of deductWithinTransaction does its work for every number   *)
(* of users, requests, bundles, months and subscription operations: what a *)
(* transaction decides still holds when it commits, a deduction is atomic, *)
(* and within a month deductions cannot deadlock.                          *)
(***************************************************************************)
EXTENDS QuotaTransaction, FiniteSetTheorems, TLAPS

USE DEF vars, localVars

(***************************************************************************)
(* The initial state satisfies the inductive invariant.                    *)
(***************************************************************************)
LEMMA InitInvariant == Init => ReadsStayCurrent
<1> SUFFICES ASSUME Init PROVE ReadsStayCurrent
  OBVIOUS
<1> USE TransactionConstants, QuotaConstants
<1>1. TypeOK
  BY DEF Init, TypeOK, Month, Label, Copy, Row, NoRow, AQ!Row, AQ!NoRow, AQ!Outcome
<1>2. WindowLocked
  BY DEF Init, WindowLocked, Deciding, WindowHolder
<1>3. BundlesLocked
  BY DEF Init, BundlesLocked, HeldBundles, NoRow, AQ!NoRow
<1>4. Decided
  BY DEF Init, Decided
<1>5. TablesLegal
  BY DEF Init, TablesLegal, UsedCount, NoRow, AQ!NoRow
<1>6. QED
  BY <1>1, <1>2, <1>3, <1>4, <1>5 DEF ReadsStayCurrent

-----------------------------------------------------------------------------
(* Type correctness. *)

(***************************************************************************)
(* The rows that are read and written have the types of their columns.     *)
(***************************************************************************)
LEMMA RowTypes ==
    ASSUME TypeOK, NEW b \in Bundle
    PROVE  SnapshotOf(b) \in Snapshot /\ NewRow(b) \in Row
BY QuotaConstants, TransactionConstants
   DEF TypeOK, SnapshotOf, Snapshot, NewRow, Row, AQ!Row, InitialRemaining,
       IsUnlimitedTier, FiniteTier, Tier, Month

(***************************************************************************)
(* Ending a transaction keeps the types of everything it resets.           *)
(***************************************************************************)
LEMMA EndTypes ==
    ASSUME TypeOK, NEW r \in Request, NEW o \in AQ!Outcome, End(r, o),
           window' \in [User -> [Month -> Nat \union {None}]],
           bundles' \in [Bundle -> Row]
    PROVE  TypeOK'
<1>1. pc' \in [Request -> Label] /\ outcome' \in [Request -> AQ!Outcome]
  BY DEF End, Goto, TypeOK, Label
<1>2. windowLock' \in [User -> [Month -> Request \union {None}]]
  <2>1. who[r] \in User /\ when[r] \in Month
    BY DEF TypeOK
  <2>2. windowLock \in [User -> [Month -> Request \union {None}]]
    BY DEF TypeOK
  <2>3. QED
    BY <2>1, <2>2 DEF End
<1>3. bundleLock' \in [Bundle -> Request \union {None}]
  BY DEF End, TypeOK
<1>4. /\ seen' \in [Request -> Nat]
      /\ todo' \in [Request -> SUBSET Bundle]
      /\ target' \in [Request -> Bundle \union {None}]
      /\ view' \in [Request -> SUBSET Snapshot]
      /\ plan' \in [Request -> Bundle \union {None}]
  BY DEF End, TypeOK
<1>5. QED
  BY <1>1, <1>2, <1>3, <1>4 DEF End, TypeOK

(***************************************************************************)
(* So do the parts the statements are built from: moving to another label, *)
(* taking the lock of the window, and going on with the bundle scan.       *)
(***************************************************************************)
LEMMA PartTypes ==
    ASSUME TypeOK, NEW r \in Request
    PROVE  /\ \A label \in Label : Goto(r, label) => pc' \in [Request -> Label]
           /\ HoldWindow(r) =>
                 windowLock' \in [User -> [Month -> Request \union {None}]]
           /\ \A rest \in SUBSET Bundle : ScanOn(r, rest) =>
                 /\ pc' \in [Request -> Label]
                 /\ todo' \in [Request -> SUBSET Bundle]
                 /\ target' \in [Request -> Bundle \union {None}]
<1>1. \A label \in Label : Goto(r, label) => pc' \in [Request -> Label]
  BY DEF TypeOK, Goto
<1>2. HoldWindow(r) => windowLock' \in [User -> [Month -> Request \union {None}]]
  <2>1. who[r] \in User /\ when[r] \in Month
    BY DEF TypeOK
  <2>2. windowLock \in [User -> [Month -> Request \union {None}]]
    BY DEF TypeOK
  <2>3. QED
    BY <2>1, <2>2 DEF HoldWindow
<1>3. ASSUME NEW rest \in SUBSET Bundle, ScanOn(r, rest)
      PROVE  /\ pc' \in [Request -> Label]
             /\ todo' \in [Request -> SUBSET Bundle]
             /\ target' \in [Request -> Bundle \union {None}]
  <2>1. pc' \in [Request -> Label]
    BY <1>1, <1>3 DEF ScanOn, Label
  <2>2. QED
    BY <1>3, <2>1 DEF ScanOn, TypeOK
<1>4. QED
  BY <1>1, <1>2, <1>3

(***************************************************************************)
(* Every step of the specification keeps the types; that a scan stands at  *)
(* a bundle is the one fact it needs from the rest of the invariant.       *)
(***************************************************************************)
LEMMA TypeStep == ReadsStayCurrent /\ [Next]_vars => TypeOK'
<1> SUFFICES ASSUME ReadsStayCurrent, [Next]_vars PROVE TypeOK'
  OBVIOUS
<1> USE TransactionConstants
<1>t. TypeOK
  BY DEF ReadsStayCurrent
<1>1. ASSUME NEW r \in Request, Start(r) PROVE TypeOK'
  BY <1>t, <1>1, PartTypes DEF Start, TypeOK, Label
<1>2. ASSUME NEW r \in Request, InsertWindow(r) PROVE TypeOK'
  <2>1. pc' \in [Request -> Label]
    BY <1>t, <1>2, PartTypes DEF InsertWindow, Label
  <2>2. windowLock' \in [User -> [Month -> Request \union {None}]]
    BY <1>t, <1>2, PartTypes DEF InsertWindow, TypeOK
  <2>3. QED
    BY <1>t, <1>2, <2>1, <2>2 DEF InsertWindow, TypeOK
<1>3. ASSUME NEW r \in Request, LockWindow(r) PROVE TypeOK'
  <2>1. UsedCount(window[who[r]][when[r]]) \in Nat
    BY <1>t DEF TypeOK, UsedCount
  <2>2. pc' \in [Request -> Label] /\ windowLock' \in [User -> [Month -> Request \union {None}]]
    BY <1>t, <1>3, PartTypes DEF LockWindow, Label
  <2>3. QED
    BY <1>t, <1>3, <2>1, <2>2 DEF LockWindow, TypeOK
<1>4. ASSUME NEW r \in Request, ScanBundles(r) PROVE TypeOK'
  <2>1. /\ pc' \in [Request -> Label]
        /\ todo' \in [Request -> SUBSET Bundle]
        /\ target' \in [Request -> Bundle \union {None}]
    BY <1>t, <1>4, PartTypes DEF ScanBundles
  <2>2. QED
    BY <1>t, <1>4, <2>1 DEF ScanBundles, TypeOK
<1>5. ASSUME NEW r \in Request, LockBundle(r) PROVE TypeOK'
  <2>1. target[r] \in Bundle
    BY <1>t, <1>5 DEF ReadsStayCurrent, BundlesLocked, LockBundle, TypeOK
  <2>2. view' \in [Request -> SUBSET Snapshot]
    BY <1>t, <1>5, <2>1, RowTypes DEF LockBundle, TypeOK
  <2>3. todo[r] \ {target[r]} \in SUBSET Bundle
    BY <1>t DEF TypeOK
  <2>4. /\ pc' \in [Request -> Label]
        /\ todo' \in [Request -> SUBSET Bundle]
        /\ target' \in [Request -> Bundle \union {None}]
    BY <1>t, <1>5, <2>3, PartTypes DEF LockBundle
  <2>5. QED
    BY <1>t, <1>5, <2>2, <2>4 DEF LockBundle, TypeOK
<1>6. ASSUME NEW r \in Request, Resolve(r) PROVE TypeOK'
  <2>1. plan' \in [Request -> Bundle \union {None}]
    BY <1>t, <1>6 DEF Resolve, TypeOK, BestBundles, Consumable, Snapshot
  <2>2. pc' \in [Request -> Label]
    BY <1>t, <1>6, PartTypes DEF Resolve, Label
  <2>3. QED
    BY <1>t, <1>6, <2>1, <2>2 DEF Resolve, TypeOK
<1>7. ASSUME NEW r \in Request, NEW n \in Nat, CommitWindow(r, n)
      PROVE  window' \in [User -> [Month -> Nat \union {None}]]
  <2>1. who[r] \in User /\ when[r] \in Month
    BY <1>t DEF TypeOK
  <2>2. window \in [User -> [Month -> Nat \union {None}]]
    BY <1>t DEF TypeOK
  <2>3. QED
    BY <1>7, <2>1, <2>2 DEF CommitWindow
<1>8. \A r \in Request : UsedCount(window[who[r]][when[r]]) \in Nat
  BY <1>t DEF TypeOK, UsedCount
<1>9. ASSUME NEW r \in Request, CommitFree(r) PROVE TypeOK'
  <2>1. UsedIn(RestoreWindow(when[r], seen[r]), when[r]) + 1 \in Nat
    BY <1>t, QuotaConstants DEF TypeOK, UsedIn, RestoreWindow, Window
  <2>2. AQ!Free(who[r], when[r]) \in AQ!Outcome
    BY <1>t DEF TypeOK, AQ!Outcome, Month, AQ!Month
  <2>3. QED
    BY <1>t, <1>7, <1>9, <2>1, <2>2, EndTypes DEF CommitFree, TypeOK
<1>10. ASSUME NEW r \in Request, CommitBundle(r) PROVE TypeOK'
  <2>1. plan[r] \in Bundle
    BY <1>t, <1>10 DEF ReadsStayCurrent, Decided, CommitBundle, TypeOK,
                       BestBundles, Consumable, Snapshot
  <2>2. bundles' \in [Bundle -> Row]
    <3> DEFINE n == bundles[plan[r]].remaining
               left == IF IsUnlimitedTier(TierOf[plan[r]]) \/ n = 0 THEN n ELSE n - 1
    <3>1. bundles' = [bundles EXCEPT ![plan[r]].remaining = left]
      BY <1>10 DEF CommitBundle
    <3>2. bundles \in [Bundle -> Row]
      BY <1>t DEF TypeOK
    <3>3. left \in Nat
      BY <2>1, <3>2 DEF Row, AQ!Row
    <3>4. QED
      BY <2>1, <3>1, <3>2, <3>3 DEF Row, AQ!Row
  <2>3. AQ!Charged(plan[r]) \in AQ!Outcome
    BY <2>1 DEF AQ!Outcome
  <2>4. QED
    BY <1>t, <1>7, <1>8, <1>10, <2>2, <2>3, EndTypes DEF CommitBundle
<1>11. ASSUME NEW r \in Request, CommitRefusal(r) PROVE TypeOK'
  <2>1. AQ!Exhausted(who[r], when[r]) \in AQ!Outcome
    BY <1>t DEF TypeOK, AQ!Outcome, Month, AQ!Month
  <2>2. QED
    BY <1>t, <1>7, <1>8, <1>11, <2>1, EndTypes DEF CommitRefusal, TypeOK
<1>12. ASSUME NEW r \in Request, Abort(r) PROVE TypeOK'
  <2>1. AQ!Failed \in AQ!Outcome
    BY DEF AQ!Outcome
  <2>2. QED
    BY <1>t, <1>12, <2>1, EndTypes DEF Abort, TypeOK
<1>13. ASSUME NEW b \in Bundle, CreateBundle(b) PROVE TypeOK'
  BY <1>t, <1>13, RowTypes DEF CreateBundle, TypeOK
<1>14. ASSUME NEW w \in Writer, NEW b \in Bundle, ReadBundle(w, b) PROVE TypeOK'
  BY <1>t, <1>14 DEF ReadBundle, TypeOK, Copy
<1>15. ASSUME NEW w \in Writer, SaveCancelled(w) \/ SaveRenewed(w) \/ SaveDeactivated(w)
       PROVE  TypeOK'
  <2>1. copy[w].bundle \in Bundle /\ copy[w].row \in Row
    BY <1>t, <1>15 DEF TypeOK, Copy, SaveCancelled, SaveRenewed, SaveDeactivated
  <2>2. PICK row \in Row : SaveBundle(w, row)
    BY <1>t, <1>15, <2>1, RowTypes
       DEF SaveCancelled, SaveRenewed, SaveDeactivated, Row, AQ!Row
  <2>3. QED
    BY <1>t, <2>1, <2>2 DEF SaveBundle, TypeOK, Copy
<1>16. CASE NextMonth
  BY <1>t, <1>16 DEF NextMonth, TypeOK, Month
<1>17. CASE UNCHANGED vars
  BY <1>t, <1>17 DEF TypeOK
<1>18. QED
  BY <1>1, <1>2, <1>3, <1>4, <1>5, <1>6, <1>9, <1>10, <1>11, <1>12, <1>13,
     <1>14, <1>15, <1>16, <1>17
     DEF Next, Statement, BreakDeadlock
-----------------------------------------------------------------------------
(* The window lock. *)

(***************************************************************************)
(* Ending a transaction, whatever it writes to its own window while it     *)
(* holds it, leaves every other holder's window as that holder read it.    *)
(***************************************************************************)
LEMMA EndWindowLocked ==
    ASSUME TypeOK, WindowLocked, NEW r \in Request, NEW o, End(r, o),
           \/ UNCHANGED window
           \/ WindowHolder(r) = r /\ \E n : CommitWindow(r, n)
    PROVE  WindowLocked'
<1> USE TransactionConstants
<1>1. who[r] \in User /\ when[r] \in Month
  BY DEF TypeOK
<1>2. ASSUME NEW q \in Request, pc'[q] \in Deciding \union {"scan"}
      PROVE  WindowHolder(q)' = q /\ seen'[q] = UsedCount(window[who[q]][when[q]])'
  <2>1. q # r /\ pc[q] \in Deciding \union {"scan"}
    BY <1>2 DEF End, Goto, TypeOK, Deciding
  <2>2. WindowHolder(q) = q /\ seen[q] = UsedCount(window[who[q]][when[q]])
    BY <2>1 DEF WindowLocked
  <2>3. WindowHolder(q)' = q
    BY <1>1, <2>1, <2>2 DEF End, WindowHolder, TypeOK
  <2>4. window'[who[q]][when[q]] = window[who[q]][when[q]]
    <3>1. CASE UNCHANGED window
      BY <3>1
    <3>2. ASSUME WindowHolder(r) = r, NEW n, CommitWindow(r, n)
          PROVE  window'[who[q]][when[q]] = window[who[q]][when[q]]
      <4>1. who[q] # who[r] \/ when[q] # when[r]
        BY <2>1, <2>2, <3>2 DEF WindowHolder
      <4>2. who[q] \in User /\ when[q] \in Month
        BY DEF TypeOK
      <4>3. window \in [User -> [Month -> Nat \union {None}]]
        BY DEF TypeOK
      <4>4. QED
        BY <1>1, <3>2, <4>1, <4>2, <4>3 DEF CommitWindow
    <3>3. QED
      BY <3>1, <3>2
  <2>5. QED
    BY <2>1, <2>2, <2>3, <2>4 DEF End, UsedCount, TypeOK
<1>3. ASSUME NEW u \in User, NEW m \in Month, NEW q \in Request, windowLock'[u][m] = q
      PROVE  who'[q] = u /\ when'[q] = m /\ pc'[q] \in Deciding \union {"lockWindow", "scan"}
  <2>1. windowLock[u][m] = q
    BY <1>1, <1>3 DEF End, TypeOK
  <2>2. who[q] = u /\ when[q] = m /\ pc[q] \in Deciding \union {"lockWindow", "scan"}
    BY <2>1 DEF WindowLocked
  <2>3. q # r
    BY <1>1, <1>3, <2>1, <2>2 DEF End, TypeOK
  <2>4. QED
    BY <2>2, <2>3 DEF End, Goto, TypeOK
<1>4. QED
  BY <1>2, <1>3 DEF WindowLocked

(***************************************************************************)
(* A step that touches neither the windows nor their locks keeps them as   *)
(* read if no request enters or leaves the locked labels by it.            *)
(***************************************************************************)
LEMMA SameWindowLocked ==
    ASSUME TypeOK, WindowLocked, UNCHANGED <<window, windowLock, who, when, seen>>,
           \A q \in Request : pc'[q] = pc[q] \/ (/\ pc[q] \in Deciding \union {"scan"}
                                                 /\ pc'[q] \in Deciding)
    PROVE  WindowLocked'
BY DEF WindowLocked, WindowHolder, UsedCount, Deciding

(***************************************************************************)
(* Every step keeps a locked window as its holder read it.                 *)
(***************************************************************************)
LEMMA WindowStep == ReadsStayCurrent /\ [Next]_vars => WindowLocked'
<1> SUFFICES ASSUME ReadsStayCurrent, [Next]_vars PROVE WindowLocked'
  OBVIOUS
<1> USE TransactionConstants
<1>t. TypeOK /\ WindowLocked
  BY DEF ReadsStayCurrent
<1>1. ASSUME NEW r \in Request, Start(r) PROVE WindowLocked'
  <2>1. pc[r] = "idle" /\ pc' = [pc EXCEPT ![r] = "insert"] /\ when' = [when EXCEPT ![r] = month]
    BY <1>1 DEF Start, Goto
  <2>2. \A u \in User, m \in Month : windowLock[u][m] # r
    BY <1>t, <2>1 DEF WindowLocked, Deciding
  <2>3. UNCHANGED <<window, windowLock, who, seen>>
    BY <1>1 DEF Start
  <2>4. QED
    BY <1>t, <2>1, <2>2, <2>3 DEF WindowLocked, WindowHolder, UsedCount, Deciding, TypeOK
<1>2. ASSUME NEW r \in Request, InsertWindow(r) PROVE WindowLocked'
  <2>1. pc[r] = "insert" /\ pc' = [pc EXCEPT ![r] = "lockWindow"]
    BY <1>2 DEF InsertWindow, Goto
  <2>2. UNCHANGED <<window, who, when, seen>>
    BY <1>2 DEF InsertWindow
  <2>3. \/ UNCHANGED windowLock
        \/ WindowHolder(r) = None /\ windowLock' = [windowLock EXCEPT ![who[r]][when[r]] = r]
    BY <1>2 DEF InsertWindow, HoldWindow
  <2>4. who[r] \in User /\ when[r] \in Month
    BY <1>t DEF TypeOK
  <2>5. windowLock \in [User -> [Month -> Request \union {None}]]
    BY <1>t DEF TypeOK
  <2>6. ASSUME NEW q \in Request, pc'[q] \in Deciding \union {"scan"}
        PROVE  WindowHolder(q)' = q /\ seen'[q] = UsedCount(window[who[q]][when[q]])'
    <3>1. q # r /\ pc[q] \in Deciding \union {"scan"}
      BY <1>t, <2>1, <2>6 DEF TypeOK, Deciding
    <3>2. WindowHolder(q) = q /\ seen[q] = UsedCount(window[who[q]][when[q]])
      BY <1>t, <3>1 DEF WindowLocked
    <3>3. who[q] \in User /\ when[q] \in Month
      BY <1>t DEF TypeOK
    <3>4. windowLock'[who[q]][when[q]] = q
      BY <2>3, <2>4, <2>5, <3>1, <3>2, <3>3 DEF WindowHolder
    <3>5. QED
      BY <2>2, <3>2, <3>4 DEF WindowHolder, UsedCount
  <2>7. ASSUME NEW u \in User, NEW m \in Month, NEW q \in Request, windowLock'[u][m] = q
        PROVE  who'[q] = u /\ when'[q] = m /\ pc'[q] \in Deciding \union {"lockWindow", "scan"}
    <3>1. windowLock[u][m] = q \/ (q = r /\ u = who[r] /\ m = when[r])
      BY <2>3, <2>4, <2>5, <2>7
    <3>2. QED
      BY <1>t, <2>1, <2>2, <3>1 DEF WindowLocked, TypeOK
  <2>8. QED
    BY <2>6, <2>7 DEF WindowLocked
<1>3. ASSUME NEW r \in Request, LockWindow(r) PROVE WindowLocked'
  <2>1. pc[r] = "lockWindow" /\ pc' = [pc EXCEPT ![r] = "scan"]
    BY <1>3 DEF LockWindow, Goto
  <2>2. UNCHANGED <<window, who, when>>
    BY <1>3 DEF LockWindow
  <2>3. /\ WindowHolder(r) \in {None, r}
        /\ windowLock' = [windowLock EXCEPT ![who[r]][when[r]] = r]
        /\ seen' = [seen EXCEPT ![r] = UsedCount(window[who[r]][when[r]])]
    BY <1>3 DEF LockWindow, HoldWindow
  <2>4. QED
    BY <1>t, <2>1, <2>2, <2>3 DEF WindowLocked, WindowHolder, UsedCount, Deciding, TypeOK
<1>4. ASSUME NEW r \in Request, ScanBundles(r) \/ LockBundle(r) \/ Resolve(r)
      PROVE  WindowLocked'
  <2>1. UNCHANGED <<window, windowLock, who, when, seen>>
    BY <1>4 DEF ScanBundles, LockBundle, Resolve
  <2>2. /\ pc[r] \in Deciding \union {"scan"}
        /\ \E label \in Deciding : pc' = [pc EXCEPT ![r] = label]
    BY <1>4 DEF ScanBundles, LockBundle, Resolve, ScanOn, Goto, Deciding
  <2>3. QED
    BY <1>t, <2>1, <2>2, SameWindowLocked DEF TypeOK
<1>5. ASSUME NEW r \in Request, CommitFree(r) \/ CommitBundle(r) \/ CommitRefusal(r)
      PROVE  WindowLocked'
  <2>1. WindowHolder(r) = r
    BY <1>t, <1>5 DEF CommitFree, CommitBundle, CommitRefusal, WindowLocked, Deciding
  <2>2. PICK o, n : End(r, o) /\ CommitWindow(r, n)
    BY <1>5 DEF CommitFree, CommitBundle, CommitRefusal
  <2>3. QED
    BY <1>t, <2>1, <2>2, EndWindowLocked
<1>6. ASSUME NEW r \in Request, Abort(r) PROVE WindowLocked'
  BY <1>t, <1>6, EndWindowLocked DEF Abort
<1>7. ASSUME UNCHANGED <<window, windowLock, who, when, seen, pc>> PROVE WindowLocked'
  BY <1>t, <1>7, SameWindowLocked
<1>8. QED
  BY <1>1, <1>2, <1>3, <1>4, <1>5, <1>6, <1>7
     DEF Next, Statement, BreakDeadlock, CreateBundle, ReadBundle, NextMonth,
         SaveCancelled, SaveRenewed, SaveDeactivated, SaveBundle
-----------------------------------------------------------------------------
(* The bundle locks. *)

(***************************************************************************)
(* Ending a transaction that wrote no bundle but those it had locked       *)
(* leaves the rows every other transaction has locked as they were read.   *)
(***************************************************************************)
LEMMA EndBundlesLocked ==
    ASSUME TypeOK, BundlesLocked, NEW r \in Request, NEW o, End(r, o),
           \A b \in Bundle \ HeldBundles(r) : bundles'[b] = bundles[b],
           \A b \in Bundle : bundles[b].present => bundles'[b].present
    PROVE  BundlesLocked'
<1> USE TransactionConstants
<1> SUFFICES ASSUME NEW q \in Request
             PROVE  /\ view'[q] = {SnapshotOf(b)' : b \in {c \in HeldBundles(q)' : bundles'[c].active}}
                    /\ HeldBundles(q)' # {} => pc'[q] \in Deciding
                    /\ \A b \in HeldBundles(q)' \union todo'[q] :
                           Owner[b] = who'[q] /\ bundles'[b].present
                    /\ pc'[q] = "lockBundles" => target'[q] \in todo'[q]
  BY DEF BundlesLocked
<1>1. CASE q = r
  <2>1. HeldBundles(q)' = {}
    BY <1>1 DEF End, HeldBundles, TypeOK
  <2>2. view'[q] = {} /\ todo'[q] = {} /\ pc'[q] = "done"
    BY <1>1 DEF End, Goto, TypeOK
  <2>3. QED
    BY <2>1, <2>2
<1>2. CASE q # r
  <2>1. HeldBundles(q)' = HeldBundles(q)
    BY <1>2 DEF End, HeldBundles, TypeOK
  <2>2. \A b \in HeldBundles(q) : bundles'[b] = bundles[b]
    BY <1>2 DEF HeldBundles
  <2>3. /\ view'[q] = view[q] /\ todo'[q] = todo[q] /\ target'[q] = target[q]
        /\ pc'[q] = pc[q] /\ who'[q] = who[q]
    BY <1>2 DEF End, Goto, TypeOK
  <2>4. todo[q] \subseteq Bundle /\ HeldBundles(q) \subseteq Bundle
    BY DEF TypeOK, HeldBundles
  <2>5. QED
    BY <2>1, <2>2, <2>3, <2>4 DEF BundlesLocked, SnapshotOf
<1>3. QED
  BY <1>1, <1>2

(***************************************************************************)
(* A step that neither locks a bundle nor writes a locked one keeps the    *)
(* locked bundles as read.                                                 *)
(***************************************************************************)
LEMMA SameBundlesLocked ==
    ASSUME TypeOK, BundlesLocked, UNCHANGED <<bundleLock, who, todo, target, view>>,
           \A b \in Bundle : bundleLock[b] # None => bundles'[b] = bundles[b],
           \A b \in Bundle : bundles[b].present => bundles'[b].present,
           \A q \in Request : /\ pc[q] \in Deciding => pc'[q] \in Deciding
                              /\ pc'[q] = "lockBundles" => pc[q] = "lockBundles"
    PROVE  BundlesLocked'
<1> USE TransactionConstants
<1> SUFFICES ASSUME NEW q \in Request
             PROVE  /\ view'[q] = {SnapshotOf(b)' : b \in {c \in HeldBundles(q)' : bundles'[c].active}}
                    /\ HeldBundles(q)' # {} => pc'[q] \in Deciding
                    /\ \A b \in HeldBundles(q)' \union todo'[q] :
                           Owner[b] = who'[q] /\ bundles'[b].present
                    /\ pc'[q] = "lockBundles" => target'[q] \in todo'[q]
  BY DEF BundlesLocked
<1>1. HeldBundles(q)' = HeldBundles(q) /\ HeldBundles(q) \subseteq Bundle /\ todo[q] \subseteq Bundle
  BY DEF HeldBundles, TypeOK
<1>2. \A b \in HeldBundles(q) : bundles'[b] = bundles[b]
  BY DEF HeldBundles
<1>3. QED
  BY <1>1, <1>2 DEF BundlesLocked, SnapshotOf

(***************************************************************************)
(* Every step keeps what a scan returned equal to the rows it locked.      *)
(***************************************************************************)
LEMMA BundlesStep == ReadsStayCurrent /\ [Next]_vars => BundlesLocked'
<1> SUFFICES ASSUME ReadsStayCurrent, [Next]_vars PROVE BundlesLocked'
  OBVIOUS
<1> USE TransactionConstants
<1>t. TypeOK /\ BundlesLocked /\ Decided /\ TablesLegal
  BY DEF ReadsStayCurrent
<1>1. ASSUME NEW r \in Request, Start(r) \/ InsertWindow(r) \/ LockWindow(r) \/ Resolve(r)
      PROVE  BundlesLocked'
  <2>1. UNCHANGED <<bundles, bundleLock, who, todo, target, view>>
    BY <1>1 DEF Start, InsertWindow, LockWindow, Resolve
  <2>2. \E label \in Label \ {"lockBundles"} :
           pc' = [pc EXCEPT ![r] = label] /\ (pc[r] \in Deciding => label \in Deciding)
    BY <1>1 DEF Start, InsertWindow, LockWindow, Resolve, Goto, Label, Deciding
  <2>3. QED
    BY <1>t, <2>1, <2>2, SameBundlesLocked DEF TypeOK
<1>2. ASSUME NEW r \in Request, ScanBundles(r) PROVE BundlesLocked'
  <2> DEFINE found == {b \in Bundle : Owner[b] = who[r] /\ bundles[b].present /\ bundles[b].active}
  <2>1. pc[r] = "scan" /\ UNCHANGED <<bundles, bundleLock, who, view>> /\ ScanOn(r, found)
    BY <1>2 DEF ScanBundles
  <2> SUFFICES ASSUME NEW q \in Request
               PROVE  /\ view'[q] = {SnapshotOf(b)' : b \in {c \in HeldBundles(q)' : bundles'[c].active}}
                      /\ HeldBundles(q)' # {} => pc'[q] \in Deciding
                      /\ \A b \in HeldBundles(q)' \union todo'[q] :
                             Owner[b] = who'[q] /\ bundles'[b].present
                      /\ pc'[q] = "lockBundles" => target'[q] \in todo'[q]
    BY DEF BundlesLocked
  <2>2. HeldBundles(q)' = HeldBundles(q)
    BY <2>1 DEF HeldBundles
  <2>3. view'[q] = {SnapshotOf(b)' : b \in {c \in HeldBundles(q)' : bundles'[c].active}}
    BY <1>t, <2>1, <2>2 DEF BundlesLocked, SnapshotOf
  <2>4. CASE q = r
    <3>1. HeldBundles(q) = {}
      BY <1>t, <2>1, <2>4 DEF BundlesLocked, Deciding
    <3>2. todo'[q] = found /\ (pc'[q] = "lockBundles" => target'[q] \in found)
      BY <1>t, <2>1, <2>4 DEF ScanOn, Goto, TypeOK
    <3>3. QED
      BY <2>1, <2>2, <2>3, <3>1, <3>2, <2>4
  <2>5. CASE q # r
    <3>1. todo'[q] = todo[q] /\ target'[q] = target[q] /\ pc'[q] = pc[q]
      BY <1>t, <2>1, <2>5 DEF ScanOn, Goto, TypeOK
    <3>2. QED
      BY <1>t, <2>1, <2>2, <2>3, <3>1 DEF BundlesLocked
  <2>6. QED
    BY <2>4, <2>5
<1>3. ASSUME NEW r \in Request, LockBundle(r) PROVE BundlesLocked'
  <2>1. /\ pc[r] = "lockBundles" /\ bundleLock[target[r]] = None
        /\ bundleLock' = [bundleLock EXCEPT ![target[r]] = r]
        /\ view' = [view EXCEPT ![r] =
                       @ \union {SnapshotOf(b) : b \in {c \in {target[r]} : bundles[c].active}}]
        /\ ScanOn(r, todo[r] \ {target[r]})
        /\ UNCHANGED <<bundles, who>>
    BY <1>3 DEF LockBundle
  <2>2. target[r] \in todo[r] /\ target[r] \in Bundle
    BY <1>t, <2>1 DEF BundlesLocked, TypeOK
  <2> SUFFICES ASSUME NEW q \in Request
               PROVE  /\ view'[q] = {SnapshotOf(b)' : b \in {c \in HeldBundles(q)' : bundles'[c].active}}
                      /\ HeldBundles(q)' # {} => pc'[q] \in Deciding
                      /\ \A b \in HeldBundles(q)' \union todo'[q] :
                             Owner[b] = who'[q] /\ bundles'[b].present
                      /\ pc'[q] = "lockBundles" => target'[q] \in todo'[q]
    BY DEF BundlesLocked
  <2>3. \A b : SnapshotOf(b)' = SnapshotOf(b)
    BY <2>1 DEF SnapshotOf
  <2>4. CASE q = r
    <3>1. HeldBundles(q)' = HeldBundles(q) \union {target[r]}
      BY <1>t, <2>1, <2>2, <2>4 DEF HeldBundles, TypeOK
    <3>2. view'[q] = view[q] \union {SnapshotOf(b) : b \in {c \in {target[r]} : bundles[c].active}}
      BY <1>t, <2>1, <2>4 DEF TypeOK
    <3>3. view[q] = {SnapshotOf(b) : b \in {c \in HeldBundles(q) : bundles[c].active}}
      BY <1>t DEF BundlesLocked
    <3>4. view'[q] = {SnapshotOf(b)' : b \in {c \in HeldBundles(q)' : bundles'[c].active}}
      BY <2>1, <2>3, <3>1, <3>2, <3>3
    <3>5. todo'[q] = todo[q] \ {target[r]} /\ pc'[q] \in {"resolve", "lockBundles"}
          /\ (pc'[q] = "lockBundles" => target'[q] \in todo[q] \ {target[r]})
      BY <1>t, <2>1, <2>4 DEF ScanOn, Goto, TypeOK
    <3>6. QED
      BY <1>t, <2>1, <2>2, <2>4, <3>1, <3>4, <3>5 DEF BundlesLocked, Deciding
  <2>5. CASE q # r
    <3>1. HeldBundles(q)' = HeldBundles(q)
      BY <1>t, <2>1, <2>2, <2>5 DEF HeldBundles, TypeOK
    <3>2. /\ view'[q] = view[q] /\ todo'[q] = todo[q] /\ target'[q] = target[q] /\ pc'[q] = pc[q]
      BY <1>t, <2>1, <2>5 DEF ScanOn, Goto, TypeOK
    <3>3. QED
      BY <1>t, <2>1, <2>3, <3>1, <3>2 DEF BundlesLocked
  <2>6. QED
    BY <2>4, <2>5
<1>4. ASSUME NEW r \in Request, CommitBundle(r) PROVE BundlesLocked'
  <2>1. PICK s \in view[r] : s.bundle = plan[r]
    BY <1>t, <1>4 DEF CommitBundle, Decided, BestBundles, Consumable
  <2>2. plan[r] \in HeldBundles(r)
    BY <1>t, <2>1 DEF BundlesLocked, SnapshotOf
  <2>3. plan[r] \in Bundle
    BY <2>2 DEF HeldBundles
  <2>4. bundles \in [Bundle -> AQ!Row]
    BY <1>t DEF TypeOK, Row
  <2>5. \A b \in Bundle \ {plan[r]} : bundles'[b] = bundles[b]
    BY <1>4, <2>3, <2>4 DEF CommitBundle
  <2>6. bundles'[plan[r]].present = bundles[plan[r]].present
    BY <1>4, <2>3, <2>4 DEF CommitBundle, AQ!Row
  <2>7. PICK o : End(r, o)
    BY <1>4 DEF CommitBundle
  <2>8. QED
    BY <1>t, <2>2, <2>5, <2>6, <2>7, EndBundlesLocked
<1>5. ASSUME NEW r \in Request, CommitFree(r) \/ CommitRefusal(r) \/ Abort(r)
      PROVE  BundlesLocked'
  <2>1. bundles' = bundles /\ \E o : End(r, o)
    BY <1>5 DEF CommitFree, CommitRefusal, Abort
  <2>2. QED
    BY <1>t, <2>1, EndBundlesLocked
<1>6. ASSUME UNCHANGED <<bundleLock, who, todo, target, view, pc>>,
             NEW b \in Bundle, NEW row, row.present,
             bundleLock[b] = None \/ ~bundles[b].present,
             bundles' = [bundles EXCEPT ![b] = row]
      PROVE  BundlesLocked'
  <2>1. bundleLock[b] = None
    BY <1>t, <1>6 DEF BundlesLocked, HeldBundles, TypeOK
  <2>2. \A c \in Bundle : bundleLock[c] # None => bundles'[c] = bundles[c]
    BY <1>t, <1>6, <2>1 DEF TypeOK
  <2>3. \A c \in Bundle : bundles[c].present => bundles'[c].present
    BY <1>t, <1>6 DEF TypeOK
  <2>4. QED
    BY <1>t, <1>6, <2>2, <2>3, SameBundlesLocked
<1>7. ASSUME NEW b \in Bundle, CreateBundle(b) PROVE BundlesLocked'
  BY <1>6, <1>7 DEF CreateBundle, NewRow
<1>8. ASSUME NEW w \in Writer, SaveCancelled(w) \/ SaveRenewed(w) \/ SaveDeactivated(w)
      PROVE  BundlesLocked'
  <2>1. copy[w] # None /\ copy[w].bundle \in Bundle /\ copy[w].row \in Row /\ copy[w].row.present
    BY <1>t, <1>8 DEF SaveCancelled, SaveRenewed, SaveDeactivated, TypeOK, Copy, TablesLegal
  <2>2. PICK row : row.present /\ SaveBundle(w, row)
    BY <1>8, <2>1 DEF SaveCancelled, SaveRenewed, SaveDeactivated, NewRow, Row, AQ!Row
  <2>3. QED
    BY <1>6, <2>1, <2>2 DEF SaveBundle
<1>9. ASSUME UNCHANGED <<bundles, bundleLock, who, todo, target, view, pc>> PROVE BundlesLocked'
  BY <1>t, <1>9, SameBundlesLocked
<1>10. QED
  BY <1>1, <1>2, <1>3, <1>4, <1>5, <1>7, <1>8, <1>9
     DEF Next, Statement, BreakDeadlock, ReadBundle, NextMonth
-----------------------------------------------------------------------------
(* The decision. *)

(***************************************************************************)
(* What the free-window arithmetic amounts to on a count that is read from *)
(* the table: there is a free message left exactly below the allowance,    *)
(* and granting it counts one more.                                        *)
(***************************************************************************)
LEMMA FreeWindowRule ==
    ASSUME NEW m \in Month, NEW n \in Nat
    PROVE  /\ HasRemainingIn(RestoreWindow(m, n), m) <=> n < FreeAllowance
           /\ n < FreeAllowance => UsedIn(RestoreWindow(m, n), m) = n
BY QuotaConstants DEF HasRemainingIn, RestoreWindow, UsedIn, Window

(***************************************************************************)
(* A decision taken earlier is kept as long as its inputs are.             *)
(***************************************************************************)
LEMMA SameDecided ==
    ASSUME Decided,
           \A q \in Request : pc'[q] \in {"free", "charge", "refuse"} =>
               pc'[q] = pc[q] /\ seen'[q] = seen[q] /\ view'[q] = view[q] /\ plan'[q] = plan[q]
    PROVE  Decided'
BY DEF Decided, BestBundles, Consumable

(***************************************************************************)
(* Every step keeps the decisions of the open transactions justified.      *)
(***************************************************************************)
LEMMA DecidedStep == ReadsStayCurrent /\ [Next]_vars => Decided'
<1> SUFFICES ASSUME ReadsStayCurrent, [Next]_vars PROVE Decided'
  OBVIOUS
<1>t. TypeOK /\ WindowLocked /\ Decided /\ TablesLegal
  BY DEF ReadsStayCurrent
<1>1. ASSUME NEW r \in Request, Resolve(r) PROVE Decided'
  <2>1. /\ pc[r] = "resolve" /\ UNCHANGED <<seen, view>>
        /\ when[r] \in Month /\ seen[r] \in Nat /\ who[r] \in User
    BY <1>t, <1>1 DEF Resolve, TypeOK
  <2>2. HasRemainingIn(RestoreWindow(when[r], seen[r]), when[r]) <=> seen[r] < FreeAllowance
    BY <2>1, FreeWindowRule
  <2>3. seen[r] <= FreeAllowance
    BY <1>t, <2>1 DEF WindowLocked, TablesLegal, Deciding
  <2>4. \A q \in Request \ {r} : pc'[q] = pc[q] /\ plan'[q] = plan[q]
    BY <1>t, <1>1 DEF Resolve, Goto, TypeOK
  <2>5. /\ pc'[r] = "free" => seen[r] < FreeAllowance
        /\ pc'[r] \in {"charge", "refuse"} => ~(seen[r] < FreeAllowance)
    BY <1>t, <1>1, <2>2 DEF Resolve, Goto, TypeOK
  <2>6. pc'[r] = "charge" => \E s \in BestBundles(view[r]) : s.bundle = plan'[r]
    BY <1>t, <1>1 DEF Resolve, Goto, TypeOK
  <2>7. pc'[r] = "refuse" => Consumable(view[r]) = {}
    BY <1>t, <1>1 DEF Resolve, Goto, TypeOK
  <2>8. pc'[r] \in {"charge", "refuse"} => seen[r] = FreeAllowance
    BY <2>1, <2>3, <2>5, QuotaConstants
  <2>9. QED
    BY <1>t, <2>1, <2>4, <2>5, <2>6, <2>7, <2>8 DEF Decided, BestBundles, Consumable
<1>2. ASSUME NEW r \in Request,
             \/ Start(r) \/ InsertWindow(r) \/ LockWindow(r) \/ ScanBundles(r) \/ LockBundle(r)
      PROVE  Decided'
  <2>1. /\ pc'[r] \notin {"free", "charge", "refuse"}
        /\ \A q \in Request \ {r} : /\ pc'[q] = pc[q] /\ seen'[q] = seen[q]
                                    /\ view'[q] = view[q] /\ plan'[q] = plan[q]
    BY <1>t, <1>2 DEF Start, InsertWindow, LockWindow, ScanBundles, LockBundle, ScanOn,
                      Goto, TypeOK
  <2>2. QED
    BY <1>t, <2>1, SameDecided
<1>3. ASSUME NEW r \in Request, NEW o, End(r, o) PROVE Decided'
  <2>1. /\ pc'[r] = "done"
        /\ \A q \in Request \ {r} : /\ pc'[q] = pc[q] /\ seen'[q] = seen[q]
                                    /\ view'[q] = view[q] /\ plan'[q] = plan[q]
    BY <1>t, <1>3 DEF End, Goto, TypeOK
  <2>2. QED
    BY <1>t, <2>1, SameDecided
<1>4. ASSUME UNCHANGED <<pc, seen, view, plan>> PROVE Decided'
  BY <1>t, <1>4, SameDecided
<1>5. QED
  BY <1>1, <1>2, <1>3, <1>4
     DEF Next, Statement, BreakDeadlock, Abort, CommitFree, CommitBundle, CommitRefusal,
         CreateBundle, ReadBundle, SaveCancelled, SaveRenewed, SaveDeactivated, SaveBundle,
         NextMonth

-----------------------------------------------------------------------------
(* The tables, and the invariant as a whole. *)

(***************************************************************************)
(* A transaction that writes n to the window it holds leaves every count   *)
(* within the allowance if n is.                                           *)
(***************************************************************************)
LEMMA CommitKeepsAllowance ==
    ASSUME TypeOK, TablesLegal, NEW r \in Request, NEW n \in Nat, n <= FreeAllowance,
           CommitWindow(r, n), NEW u \in User, NEW m \in Month
    PROVE  UsedCount(window'[u][m]) <= FreeAllowance
<1>1. who[r] \in User /\ when[r] \in Month
  BY DEF TypeOK
<1>2. window \in [User -> [Month -> Nat \union {None}]]
  BY DEF TypeOK
<1>3. window'[u][m] = n \/ window'[u][m] = window[u][m]
  BY <1>1, <1>2 DEF CommitWindow
<1>4. UsedCount(n) = n
  BY TransactionConstants DEF UsedCount
<1>5. QED
  BY <1>3, <1>4 DEF TablesLegal

(***************************************************************************)
(* Every step leaves the tables legal and open requests without outcome.   *)
(***************************************************************************)
LEMMA TablesStep == ReadsStayCurrent /\ [Next]_vars => TablesLegal'
<1> SUFFICES ASSUME ReadsStayCurrent, [Next]_vars PROVE TablesLegal'
  OBVIOUS
<1> USE TransactionConstants
<1>t. TypeOK /\ WindowLocked /\ BundlesLocked /\ Decided /\ TablesLegal
  BY DEF ReadsStayCurrent
<1> DEFINE Windows == \A u \in User, m \in Month : UsedCount(window[u][m]) <= FreeAllowance
           Rows    == \A b \in Bundle : bundles[b].active => bundles[b].present
           Copies  == \A w \in Writer : copy[w] # None => copy[w].row.present
           Opens   == \A r \in Request : pc[r] # "done" => outcome[r] = AQ!Open
<1>s. Windows /\ Rows /\ Copies /\ Opens
  BY <1>t DEF TablesLegal
<1>w. ASSUME NEW r \in Request, CommitFree(r) \/ CommitBundle(r) \/ CommitRefusal(r)
      PROVE  Windows'
  <2>1. who[r] \in User /\ when[r] \in Month /\ seen[r] \in Nat
    BY <1>t DEF TypeOK
  <2>2. UsedCount(window[who[r]][when[r]]) \in Nat
    BY <1>t, <2>1 DEF TypeOK, UsedCount
  <2>3. CASE CommitFree(r)
    <3>1. seen[r] < FreeAllowance
      BY <1>t, <2>3 DEF CommitFree, Decided
    <3>2. CommitWindow(r, seen[r] + 1)
      BY <2>1, <2>3, <3>1, FreeWindowRule DEF CommitFree
    <3>3. seen[r] + 1 \in Nat /\ seen[r] + 1 <= FreeAllowance
      BY <2>1, <3>1, QuotaConstants
    <3>4. QED
      BY <1>t, <3>2, <3>3, CommitKeepsAllowance
  <2>4. CASE CommitBundle(r) \/ CommitRefusal(r)
    <3>1. CommitWindow(r, UsedCount(window[who[r]][when[r]]))
      BY <2>4 DEF CommitBundle, CommitRefusal
    <3>2. QED
      BY <1>t, <1>s, <2>1, <2>2, <3>1, CommitKeepsAllowance
  <2>5. QED
    BY <1>w, <2>3, <2>4
<1>r. ASSUME NEW r \in Request, CommitBundle(r) PROVE Rows'
  <2>1. plan[r] \in Bundle
    BY <1>t, <1>r DEF Decided, CommitBundle, TypeOK, BestBundles, Consumable, Snapshot
  <2>2. bundles \in [Bundle -> AQ!Row]
    BY <1>t DEF TypeOK, Row
  <2>3. \A b \in Bundle : /\ bundles'[b].active = bundles[b].active
                          /\ bundles'[b].present = bundles[b].present
    BY <1>r, <2>1, <2>2 DEF CommitBundle, AQ!Row
  <2>4. QED
    BY <1>s, <2>3
<1>o. ASSUME NEW r \in Request, NEW o, End(r, o) PROVE Opens' /\ Copies'
  BY <1>t, <1>s, <1>o DEF End, Goto, TypeOK
<1>1. ASSUME NEW r \in Request, CommitFree(r) \/ CommitBundle(r) \/ CommitRefusal(r) \/ Abort(r)
      PROVE  TablesLegal'
  <2>1. Opens' /\ Copies'
    BY <1>1, <1>o DEF CommitFree, CommitBundle, CommitRefusal, Abort
  <2>2. Windows'
    BY <1>1, <1>s, <1>w DEF Abort
  <2>3. Rows'
    BY <1>1, <1>s, <1>r DEF CommitFree, CommitRefusal, Abort
  <2>4. QED
    BY <2>1, <2>2, <2>3 DEF TablesLegal
<1>2. ASSUME NEW r \in Request,
             \/ Start(r) \/ InsertWindow(r) \/ LockWindow(r)
             \/ ScanBundles(r) \/ LockBundle(r) \/ Resolve(r)
      PROVE  TablesLegal'
  <2>1. UNCHANGED <<window, bundles, copy, outcome>>
    BY <1>2 DEF Start, InsertWindow, LockWindow, ScanBundles, LockBundle, Resolve
  <2>2. \A q \in Request : pc'[q] # "done" => pc[q] # "done"
    BY <1>t, <1>2 DEF Start, InsertWindow, LockWindow, ScanBundles, LockBundle, Resolve,
                      ScanOn, Goto, TypeOK
  <2>3. QED
    BY <1>s, <2>1, <2>2 DEF TablesLegal, UsedCount
<1>3. ASSUME UNCHANGED <<window, pc, outcome>>,
             NEW b \in Bundle, NEW row, row.present, bundles' = [bundles EXCEPT ![b] = row],
             Copies'
      PROVE  TablesLegal'
  <2>1. Rows'
    BY <1>t, <1>s, <1>3 DEF TypeOK
  <2>2. QED
    BY <1>s, <1>3, <2>1 DEF TablesLegal, UsedCount
<1>4. ASSUME NEW b \in Bundle, CreateBundle(b) PROVE TablesLegal'
  <2>1. UNCHANGED <<window, pc, outcome, copy>> /\ bundles' = [bundles EXCEPT ![b] = NewRow(b)]
    BY <1>4 DEF CreateBundle
  <2>2. Copies' /\ NewRow(b).present
    BY <1>s, <2>1 DEF NewRow
  <2>3. QED
    BY <1>3, <2>1, <2>2
<1>5. ASSUME NEW w \in Writer, NEW b \in Bundle, ReadBundle(w, b) PROVE TablesLegal'
  <2>1. Copies'
    BY <1>t, <1>s, <1>5 DEF ReadBundle, TypeOK
  <2>2. UNCHANGED <<window, bundles, pc, outcome>>
    BY <1>5 DEF ReadBundle
  <2>3. QED
    BY <1>s, <2>1, <2>2 DEF TablesLegal, UsedCount
<1>6. ASSUME NEW w \in Writer, SaveCancelled(w) \/ SaveRenewed(w) \/ SaveDeactivated(w)
      PROVE  TablesLegal'
  <2>1. copy[w] # None /\ copy[w].bundle \in Bundle /\ copy[w].row \in Row /\ copy[w].row.present
    BY <1>t, <1>6 DEF SaveCancelled, SaveRenewed, SaveDeactivated, TypeOK, Copy, TablesLegal
  <2>2. PICK row : row.present /\ SaveBundle(w, row)
    BY <1>6, <2>1 DEF SaveCancelled, SaveRenewed, SaveDeactivated, NewRow, Row, AQ!Row
  <2>3. Copies'
    BY <1>t, <1>s, <2>2 DEF SaveBundle, TypeOK
  <2>4. QED
    BY <1>3, <2>1, <2>2, <2>3 DEF SaveBundle
<1>7. ASSUME UNCHANGED <<window, bundles, copy, pc, outcome>> PROVE TablesLegal'
  BY <1>s, <1>7 DEF TablesLegal, UsedCount
<1>8. QED
  BY <1>1, <1>2, <1>4, <1>5, <1>6, <1>7 DEF Next, Statement, BreakDeadlock, NextMonth

(***************************************************************************)
(* The inductive invariant: what a deduction has read under its locks is   *)
(* what is committed, until it ends.                                       *)
(***************************************************************************)
THEOREM InvariantHolds == Spec => []ReadsStayCurrent
<1>1. ReadsStayCurrent /\ [Next]_vars => ReadsStayCurrent'
  BY TypeStep, WindowStep, BundlesStep, DecidedStep, TablesStep DEF ReadsStayCurrent
<1>2. QED
  BY InitInvariant, <1>1, PTL DEF Spec

(* The variables of the transaction keep their types. *)
THEOREM TypeCorrect == Spec => []TypeOK
<1>1. ReadsStayCurrent => TypeOK
  BY DEF ReadsStayCurrent
<1>2. QED
  BY <1>1, InvariantHolds, PTL

-----------------------------------------------------------------------------
(* What follows from it. *)

(***************************************************************************)
(* The rows a transaction has locked and could charge are exactly those    *)
(* its scan returned and could charge.                                     *)
(***************************************************************************)
LEMMA LockedAsViewed ==
    ASSUME ReadsStayCurrent, NEW r \in Request
    PROVE  LET locked == {SnapshotOf(b) : b \in HeldBundles(r)}
           IN  /\ Consumable(locked) = Consumable(view[r])
               /\ BestBundles(locked) = BestBundles(view[r])
<1> DEFINE locked == {SnapshotOf(b) : b \in HeldBundles(r)}
<1>1. view[r] = {SnapshotOf(b) : b \in {c \in HeldBundles(r) : bundles[c].active}}
  BY DEF ReadsStayCurrent, BundlesLocked
<1>2. \A b : SnapshotOf(b).active <=> bundles[b].active
  BY DEF SnapshotOf
<1>3. Consumable(locked) = Consumable(view[r])
  BY <1>1, <1>2 DEF Consumable, IsConsumable
<1>4. QED
  BY <1>3 DEF BestBundles

(***************************************************************************)
(* What a deduction is about to write is what the rules decide on the rows *)
(* as they are committed at that moment.                                   *)
(***************************************************************************)
THEOREM DecisionsHold == Spec => []DecisionStillHolds
<1>1. ReadsStayCurrent => DecisionStillHolds
  <2> SUFFICES ASSUME ReadsStayCurrent, NEW r \in Request
               PROVE  LET free == UsedCount(window[who[r]][when[r]]) < FreeAllowance
                          locked == {SnapshotOf(b) : b \in HeldBundles(r)}
                      IN  /\ pc[r] = "free" => free
                          /\ pc[r] = "charge" =>
                                ~free /\ \E s \in BestBundles(locked) : s.bundle = plan[r]
                          /\ pc[r] = "refuse" => ~free /\ Consumable(locked) = {}
    BY DEF DecisionStillHolds
  <2>1. pc[r] \in Deciding => seen[r] = UsedCount(window[who[r]][when[r]])
    BY DEF ReadsStayCurrent, WindowLocked
  <2>2. /\ pc[r] = "free" => seen[r] < FreeAllowance
        /\ pc[r] \in {"charge", "refuse"} => ~(seen[r] < FreeAllowance)
    BY QuotaConstants DEF ReadsStayCurrent, Decided
  <2>3. /\ pc[r] = "charge" => \E s \in BestBundles(view[r]) : s.bundle = plan[r]
        /\ pc[r] = "refuse" => Consumable(view[r]) = {}
    BY DEF ReadsStayCurrent, Decided
  <2>4. QED
    BY <2>1, <2>2, <2>3, LockedAsViewed DEF Deciding
<1>2. QED
  BY <1>1, InvariantHolds, PTL

(***************************************************************************)
(* The bundle about to be charged is one its transaction has locked, and   *)
(* its committed row can pay.                                              *)
(***************************************************************************)
LEMMA ChargedBundleCanPay ==
    ASSUME ReadsStayCurrent, NEW r \in Request, pc[r] = "charge"
    PROVE  /\ plan[r] \in Bundle
           /\ Owner[plan[r]] = who[r]
           /\ bundles[plan[r]].present /\ bundles[plan[r]].active
           /\ IsUnlimitedTier(TierOf[plan[r]]) \/ bundles[plan[r]].remaining > 0
<1>1. PICK s \in view[r] : s.bundle = plan[r] /\ IsConsumable(s)
  BY DEF ReadsStayCurrent, Decided, BestBundles, Consumable
<1>2. PICK b \in HeldBundles(r) : s = SnapshotOf(b) /\ bundles[b].active
  BY <1>1 DEF ReadsStayCurrent, BundlesLocked
<1>3. b = plan[r] /\ b \in Bundle
  BY <1>1, <1>2 DEF SnapshotOf, HeldBundles
<1>4. bundles[b].remaining \in Nat
  BY <1>3 DEF ReadsStayCurrent, TypeOK, Row, AQ!Row
<1>5. IsUnlimitedTier(TierOf[b]) \/ bundles[b].remaining > 0
  BY <1>1, <1>2, <1>3, <1>4 DEF IsConsumable, IsUnlimited, SnapshotOf
<1>6. Owner[b] = who[r] /\ bundles[b].present
  BY <1>2 DEF ReadsStayCurrent, BundlesLocked
<1>7. QED
  BY <1>2, <1>3, <1>5, <1>6

(***************************************************************************)
(* The remaining > 0 guard of the UPDATE, "defense-in-depth; should never  *)
(* trigger", indeed never does: no message is given away by a decrement    *)
(* that finds no row.                                                      *)
(***************************************************************************)
THEOREM GuardNeverTriggers == Spec => []DecrementNeverMisses
<1>1. ReadsStayCurrent => DecrementNeverMisses
  BY ChargedBundleCanPay DEF DecrementNeverMisses
<1>2. QED
  BY <1>1, InvariantHolds, PTL

\* What r came to is for its own user, and for the month r came in.
ServedAsAsked(r) ==
    LET o == outcome[r]
    IN  /\ o.kind \in {"FREE", "EXHAUSTED"} => o.user = who[r] /\ o.month = when[r]
        /\ o.kind = "BUNDLE" => Owner[o.bundle] = who[r]

\* An end with such an outcome, and the ends of others, leave all so.
LEMMA EndServesAsAsked ==
    ASSUME TypeOK, \A q \in Request : ServedAsAsked(q), NEW r \in Request, NEW o, End(r, o),
           /\ o.kind \in {"FREE", "EXHAUSTED"} => o.user = who[r] /\ o.month = when[r]
           /\ o.kind = "BUNDLE" => Owner[o.bundle] = who[r]
    PROVE  \A q \in Request : ServedAsAsked(q)'
  BY DEF TypeOK, End, ServedAsAsked

(***************************************************************************)
(* A deduction is paid by its own user, whose bundles were locked one by   *)
(* one, and counts in the month it was asked for in, though it may commit  *)
(* in the next: what ChatSend's Deduct takes of it.                        *)
(***************************************************************************)
THEOREM ServesOwnUser == Spec => [](\A r \in Request : ServedAsAsked(r))
<1> DEFINE Served == \A r \in Request : ServedAsAsked(r)
<1>1. Init => Served
  BY DEF Init, ServedAsAsked, AQ!Open
<1>2. ReadsStayCurrent /\ Served /\ [Next]_vars => Served'
  <2> SUFFICES ASSUME ReadsStayCurrent, Served, [Next]_vars PROVE Served'
    OBVIOUS
  <2>t. TypeOK /\ TablesLegal
    BY DEF ReadsStayCurrent
  <2>1. ASSUME NEW r \in Request, CommitFree(r) PROVE Served'
    BY <2>1, <2>t, EndServesAsAsked DEF CommitFree, AQ!Free
  <2>2. ASSUME NEW r \in Request, CommitBundle(r) PROVE Served'
    <3>1. Owner[plan[r]] = who[r]
      BY <2>2, ChargedBundleCanPay DEF CommitBundle
    <3> QED
      BY <2>2, <2>t, <3>1, EndServesAsAsked DEF CommitBundle, AQ!Charged
  <2>3. ASSUME NEW r \in Request, CommitRefusal(r) PROVE Served'
    BY <2>3, <2>t, EndServesAsAsked DEF CommitRefusal, AQ!Exhausted
  <2>4. ASSUME NEW r \in Request, Abort(r) PROVE Served'
    BY <2>4, <2>t, EndServesAsAsked DEF Abort, AQ!Failed
  <2>5. ASSUME NEW r \in Request, Start(r) PROVE Served'
    <3>1. outcome[r] = AQ!Open
      BY <2>5, <2>t DEF Start, TablesLegal
    <3> QED
      BY <2>5, <2>t, <3>1 DEF Start, ServedAsAsked, TypeOK, AQ!Open
  <2>6. ASSUME UNCHANGED <<who, when, outcome>> PROVE Served'
    BY <2>6 DEF ServedAsAsked
  <2> HIDE DEF Served
  <2> QED
    BY <2>1, <2>2, <2>3, <2>4, <2>5, <2>6
       DEF Next, Statement, InsertWindow, LockWindow, ScanBundles, LockBundle, Resolve,
           BreakDeadlock, CreateBundle, ReadBundle, SaveBundle, SaveCancelled, SaveRenewed,
           SaveDeactivated, NextMonth, vars, localVars
<1> HIDE DEF Served
<1>3. Spec => []Served
  BY <1>1, <1>2, InvariantHolds, PTL DEF Spec
<1> QED
  BY <1>3 DEF Served

(***************************************************************************)
(* Two deductions that wait for each other belong to one user and to two   *)
(* different months.  Everyone in a cycle is waited for, hence holds       *)
(* something, and waits: so everyone is in the bundle scan, with its own   *)
(* month's window locked.                                                  *)
(***************************************************************************)
THEOREM NoDeadlockWithinMonth == Spec => []DeadlockNeedsTwoMonths
<1>1. ReadsStayCurrent => DeadlockNeedsTwoMonths
  <2> SUFFICES ASSUME ReadsStayCurrent, NEW S \in SUBSET Request, WaitCycle(S)
               PROVE  \E r, q \in S : who[r] = who[q] /\ when[r] # when[q]
    BY DEF DeadlockNeedsTwoMonths
  <2>t. TypeOK /\ WindowLocked /\ BundlesLocked
    BY DEF ReadsStayCurrent
  <2>1. \A q \in S : who[q] \in User /\ when[q] \in Month
    BY <2>t DEF TypeOK
  <2>2. ASSUME NEW q \in S PROVE pc[q] = "lockBundles" /\ WindowHolder(q) = q
    <3>1. PICK r \in S : WaitsFor(r, q)
      BY DEF WaitCycle
    <3>2. PICK p \in S : WaitsFor(q, p)
      BY DEF WaitCycle
    <3>3. pc[q] \in {"insert", "lockWindow", "lockBundles"}
      BY <3>2 DEF WaitsFor
    <3>4. CASE WindowHolder(r) = q
      <4>1. who[r] = who[q] /\ when[r] = when[q] /\ pc[q] # "insert"
        BY <2>t, <2>1, <3>4 DEF WindowLocked, WindowHolder, Deciding
      <4>2. WindowHolder(q) = q
        BY <3>4, <4>1 DEF WindowHolder
      <4>3. QED
        BY <3>2, <3>3, <4>1, <4>2 DEF WaitsFor
    <3>5. CASE pc[r] = "lockBundles" /\ bundleLock[target[r]] = q
      <4>1. target[r] \in HeldBundles(q)
        BY <2>t, <3>5 DEF BundlesLocked, HeldBundles, TypeOK
      <4>2. pc[q] \in Deciding
        BY <2>t, <4>1 DEF BundlesLocked
      <4>3. QED
        BY <2>t, <3>3, <4>2 DEF WindowLocked, Deciding
    <3>6. QED
      BY <3>1, <3>4, <3>5 DEF WaitsFor
  <2>3. PICK r \in S, q \in S : WaitsFor(r, q)
    BY DEF WaitCycle
  <2>4. q # r /\ pc[r] = "lockBundles" /\ bundleLock[target[r]] = q
    BY <2>2, <2>3 DEF WaitsFor
  <2>5. target[r] \in todo[r] /\ target[r] \in HeldBundles(q)
    BY <2>t, <2>4 DEF BundlesLocked, HeldBundles, TypeOK
  <2>6. who[r] = who[q]
    BY <2>t, <2>5 DEF BundlesLocked
  <2>7. when[r] # when[q]
    BY <2>2, <2>4, <2>6 DEF WindowHolder
  <2>8. QED
    BY <2>6, <2>7
<1>2. QED
  BY <1>1, InvariantHolds, PTL

-----------------------------------------------------------------------------
(* Nobody is stuck but in a cycle. *)

(***************************************************************************)
(* A collection of subsets of a finite set has a minimal member.  It takes *)
(* the place of an induction on the size of the set.                       *)
(***************************************************************************)
LEMMA MinimalSet ==
    ASSUME NEW S, IsFiniteSet(S), NEW F \in SUBSET (SUBSET S), F # {}
    PROVE  \E X \in F : \A Y \in F : Y \subseteq X => Y = X
<1>1. IsWellFoundedOn(StrictSubsetOrdering(S), SUBSET S)
  BY FS_StrictSubsetOrderingWellFounded, FS_FiniteSubsetsOfFinite
<1>2. PICK X \in F : \A Y \in F : <<Y, X>> \notin StrictSubsetOrdering(S)
  BY <1>1, WFMin
<1>3. ASSUME NEW Y \in F, Y \subseteq X, Y # X PROVE FALSE
  <2>1. <<Y, X>> \in (SUBSET S) \X (SUBSET S)
    OBVIOUS
  <2>2. <<Y, X>> \in StrictSubsetOrdering(S)
    BY <1>3, <2>1 DEF StrictSubsetOrdering
  <2>3. QED
    BY <1>2, <2>2
<1>4. QED
  BY <1>2, <1>3

(***************************************************************************)
(* Outranks, the comparison of quota.service.ts, is a strict order.        *)
(***************************************************************************)
LEMMA OutranksIsOrder ==
    ASSUME NEW s \in Snapshot, NEW t \in Snapshot, NEW u \in Snapshot
    PROVE  ~Outranks(s, s) /\ (Outranks(u, t) /\ Outranks(t, s) => Outranks(u, s))
BY DEF Outranks, HasMore, HasSame, Snapshot

(***************************************************************************)
(* Finitely many consumable rows have a best one: selectBundle never finds *)
(* every candidate beaten by another.                                      *)
(***************************************************************************)
LEMMA BestBundleExists ==
    ASSUME NEW S \in SUBSET Snapshot, IsFiniteSet(S), Consumable(S) # {}
    PROVE  BestBundles(S) # {}
<1> DEFINE C == Consumable(S)
           Beaten(X) == \A s \in X : \E t \in X : Outranks(t, s)
           F == {X \in SUBSET C : X # {} /\ Beaten(X)}
<1>1. C \in SUBSET S /\ C \subseteq Snapshot /\ IsFiniteSet(C)
  BY FS_Subset DEF Consumable
<1>2. SUFFICES ASSUME BestBundles(S) = {} PROVE FALSE
  OBVIOUS
<1>3. C \in F
  BY <1>2 DEF BestBundles
<1>4. PICK X \in F : \A Y \in F : Y \subseteq X => Y = X
  <2>1. F \in SUBSET (SUBSET C)
    OBVIOUS
  <2> HIDE DEF F, C
  <2>2. QED
    BY <1>1, <1>3, <2>1, MinimalSet
<1>5. PICK s \in X : TRUE
  OBVIOUS
<1> DEFINE Y == {t \in X : Outranks(t, s)}
<1>6. X \subseteq Snapshot /\ Beaten(X)
  BY <1>1
<1>7. Y # {}
  BY <1>6
<1>8. Beaten(Y)
  BY <1>6, OutranksIsOrder
<1>9. s \in Y
  BY <1>4, <1>7, <1>8
<1>10. QED
  BY <1>6, <1>9, OutranksIsOrder

(***************************************************************************)
(* If everyone of a finite set waits for someone of it, it has a cycle.    *)
(***************************************************************************)
LEMMA WaitersHaveCycle ==
    ASSUME NEW A \in SUBSET Request, A # {}, \A r \in A : \E q \in A : WaitsFor(r, q)
    PROVE  \E S \in SUBSET Request : WaitCycle(S)
<1> DEFINE Closed(X) == \A r \in X : \E q \in X : WaitsFor(r, q)
           F == {X \in SUBSET Request : X # {} /\ Closed(X)}
<1>1. A \in F
  OBVIOUS
<1>2. PICK X \in F : \A Y \in F : Y \subseteq X => Y = X
  <2>1. F \in SUBSET (SUBSET Request)
    OBVIOUS
  <2> HIDE DEF F
  <2>2. QED
    BY <1>1, <2>1, MinimalSet, TransactionConstants
<1>3. ASSUME NEW q \in X, \A r \in X : ~WaitsFor(r, q) PROVE FALSE
  <2>1. X \ {q} # {}
    BY <1>3 DEF WaitsFor
  <2>2. Closed(X \ {q})
    BY <1>3
  <2>3. X \ {q} \in F
    BY <2>1, <2>2
  <2>4. QED
    BY <1>2, <2>3
<1>4. WaitCycle(X)
  BY <1>3 DEF WaitCycle
<1>5. QED
  BY <1>4

(***************************************************************************)
(* What this takes besides the inductive invariant: a scan never comes     *)
(* back to a row it has locked, and the table has finitely many rows.      *)
(***************************************************************************)
Present == {b \in Bundle : bundles[b].present}

ScanGoesOn ==
    /\ IsFiniteSet(Present)
    /\ \A r \in Request : todo[r] \cap HeldBundles(r) = {}

(***************************************************************************)
(* The initial tables have no rows, and nothing is scanned.                *)
(***************************************************************************)
LEMMA ScanInit == Init => ScanGoesOn
<1> SUFFICES ASSUME Init PROVE ScanGoesOn
  OBVIOUS
<1>1. Present = {}
  BY DEF Init, Present, NoRow, AQ!NoRow
<1>2. QED
  BY <1>1, FS_EmptySet DEF Init, ScanGoesOn

(***************************************************************************)
(* A step adds at most one row to the table, and a row that a request      *)
(* locks leaves the rest of its scan.                                      *)
(***************************************************************************)
LEMMA ScanStep == ReadsStayCurrent /\ ScanGoesOn /\ [Next]_vars => ScanGoesOn'
<1> SUFFICES ASSUME ReadsStayCurrent, ScanGoesOn, [Next]_vars PROVE ScanGoesOn'
  OBVIOUS
<1> USE TransactionConstants
<1>t. TypeOK /\ BundlesLocked /\ TablesLegal
  BY DEF ReadsStayCurrent
<1> DEFINE Apart == \A r \in Request : todo[r] \cap HeldBundles(r) = {}
<1>f. ASSUME NEW b, Present' \subseteq Present \union {b} PROVE IsFiniteSet(Present')
  BY <1>f, FS_Subset, FS_AddElement DEF ScanGoesOn
<1>e. ASSUME NEW r \in Request, NEW o, End(r, o) PROVE Apart'
  BY <1>t, <1>e DEF End, ScanGoesOn, HeldBundles, TypeOK
<1>1. ASSUME NEW r \in Request, CommitFree(r) \/ CommitRefusal(r) \/ Abort(r)
      PROVE  ScanGoesOn'
  <2>1. Apart'
    BY <1>1, <1>e DEF CommitFree, CommitRefusal, Abort
  <2>2. UNCHANGED bundles
    BY <1>1 DEF CommitFree, CommitRefusal, Abort
  <2>3. QED
    BY <2>1, <2>2 DEF ScanGoesOn, Present
<1>2. ASSUME NEW r \in Request, CommitBundle(r) PROVE ScanGoesOn'
  <2>1. Apart'
    BY <1>2, <1>e DEF CommitBundle
  <2>2. plan[r] \in Bundle
    BY <1>2, ChargedBundleCanPay DEF CommitBundle
  <2>3. bundles \in [Bundle -> AQ!Row]
    BY <1>t DEF TypeOK, Row
  <2>4. \A b \in Bundle : bundles'[b].present = bundles[b].present
    BY <1>2, <2>2, <2>3 DEF CommitBundle, AQ!Row
  <2>5. Present' = Present
    BY <2>4 DEF Present
  <2>6. QED
    BY <2>1, <2>5 DEF ScanGoesOn
<1>3. ASSUME NEW r \in Request, ScanBundles(r) PROVE ScanGoesOn'
  <2>1. HeldBundles(r) = {}
    BY <1>t, <1>3 DEF BundlesLocked, ScanBundles, Deciding
  <2>2. UNCHANGED <<bundles, bundleLock>> /\ \A q \in Request : q # r => todo'[q] = todo[q]
    BY <1>t, <1>3 DEF ScanBundles, ScanOn, TypeOK
  <2>3. QED
    BY <2>1, <2>2 DEF ScanGoesOn, HeldBundles, Present
<1>4. ASSUME NEW r \in Request, LockBundle(r) PROVE ScanGoesOn'
  <2>1. todo' = [todo EXCEPT ![r] = todo[r] \ {target[r]}] /\ UNCHANGED bundles
    BY <1>4 DEF LockBundle, ScanOn
  <2>2. bundleLock' = [bundleLock EXCEPT ![target[r]] = r]
    BY <1>4 DEF LockBundle
  <2>3. ASSUME NEW q \in Request, NEW b \in todo'[q] PROVE b \notin HeldBundles(q)'
    <3>1. b \in todo[q] /\ b \in Bundle /\ (q = r => b # target[r])
      BY <1>t, <2>1 DEF TypeOK
    <3>2. bundleLock[b] # q
      BY <3>1 DEF ScanGoesOn, HeldBundles
    <3>3. bundleLock'[b] # q
      BY <1>t, <2>2, <3>1, <3>2 DEF TypeOK
    <3>4. QED
      BY <3>3 DEF HeldBundles
  <2>4. Apart'
    BY <2>3
  <2>5. QED
    BY <2>1, <2>4 DEF ScanGoesOn, Present
<1>5. ASSUME UNCHANGED <<todo, bundleLock>>,
             NEW b \in Bundle, NEW row, bundles' = [bundles EXCEPT ![b] = row]
      PROVE  ScanGoesOn'
  <2>1. Present' \subseteq Present \union {b}
    BY <1>t, <1>5 DEF Present, TypeOK
  <2>2. QED
    BY <1>5, <1>f, <2>1 DEF ScanGoesOn, HeldBundles
<1>6. ASSUME NEW b \in Bundle, CreateBundle(b) PROVE ScanGoesOn'
  BY <1>5, <1>6 DEF CreateBundle
<1>7. ASSUME NEW w \in Writer, SaveCancelled(w) \/ SaveRenewed(w) \/ SaveDeactivated(w)
      PROVE  ScanGoesOn'
  <2>1. copy[w].bundle \in Bundle
    BY <1>t, <1>7 DEF SaveCancelled, SaveRenewed, SaveDeactivated, TypeOK, Copy
  <2>2. PICK row : SaveBundle(w, row)
    BY <1>7 DEF SaveCancelled, SaveRenewed, SaveDeactivated
  <2>3. QED
    BY <1>5, <2>1, <2>2 DEF SaveBundle
<1>8. ASSUME UNCHANGED <<bundles, bundleLock, todo>> PROVE ScanGoesOn'
  BY <1>8 DEF ScanGoesOn, Present, HeldBundles
<1>9. QED
  BY <1>1, <1>2, <1>3, <1>4, <1>6, <1>7, <1>8
     DEF Next, Statement, BreakDeadlock, Start, InsertWindow, LockWindow, Resolve,
         ReadBundle, NextMonth

(***************************************************************************)
(* A running request that cannot go on waits for another running one.      *)
(***************************************************************************)
LEMMA BlockedWaits ==
    ASSUME ReadsStayCurrent, ScanGoesOn, NEW r \in Request, Running(r), ~CanGoOn(r)
    PROVE  \E q \in Request : Running(q) /\ WaitsFor(r, q)
<1> USE TransactionConstants
<1>t. TypeOK /\ WindowLocked /\ BundlesLocked
  BY DEF ReadsStayCurrent
<1>w. who[r] \in User /\ when[r] \in Month /\ WindowHolder(r) \in Request \union {None}
  BY <1>t DEF TypeOK, WindowHolder
<1>h. \A q \in Request : WindowHolder(r) = q =>
         Running(q) /\ pc[q] \in Deciding \union {"lockWindow", "scan"}
  BY <1>t, <1>w DEF WindowLocked, WindowHolder, Running, Deciding
<1>1. CASE pc[r] = "insert"
  <2>1. window[who[r]][when[r]] = None /\ WindowHolder(r) # None
    BY <1>1 DEF CanGoOn
  <2>2. WindowHolder(r) # r
    BY <1>1, <1>h DEF Deciding
  <2>3. QED
    BY <1>1, <1>w, <1>h, <2>1, <2>2 DEF WaitsFor
<1>2. CASE pc[r] = "lockWindow"
  BY <1>2, <1>w, <1>h DEF CanGoOn, WaitsFor
<1>3. CASE pc[r] = "lockBundles"
  <2>1. target[r] \in todo[r] /\ target[r] \in Bundle
    BY <1>t, <1>3 DEF BundlesLocked, TypeOK
  <2>2. PICK q \in Request : bundleLock[target[r]] = q
    BY <1>t, <1>3, <2>1 DEF CanGoOn, TypeOK
  <2>3. target[r] \in HeldBundles(q)
    BY <2>1, <2>2 DEF HeldBundles
  <2>4. q # r
    BY <2>1, <2>3 DEF ScanGoesOn
  <2>5. Running(q)
    BY <1>t, <2>3 DEF BundlesLocked, Running, Deciding
  <2>6. QED
    BY <1>3, <2>2, <2>4, <2>5 DEF WaitsFor
<1>4. CASE pc[r] = "resolve"
  <2>1. HeldBundles(r) \subseteq Present
    BY <1>t DEF BundlesLocked, HeldBundles, Present
  <2>2. IsFiniteSet({c \in HeldBundles(r) : bundles[c].active})
    BY <2>1, FS_Subset DEF ScanGoesOn
  <2>3. IsFiniteSet(view[r])
    <3> DEFINE Active == {c \in HeldBundles(r) : bundles[c].active}
               row == [b \in Active |-> SnapshotOf(b)]
    <3>1. view[r] = {SnapshotOf(b) : b \in Active}
      BY <1>t DEF BundlesLocked
    <3>2. row \in Surjection(Active, view[r])
      BY <3>1 DEF Surjection
    <3> HIDE DEF row, Active
    <3>3. QED
      BY <2>2, <3>2, FS_Surjection DEF Active
  <2>4. view[r] \in SUBSET Snapshot
    BY <1>t DEF TypeOK
  <2>5. QED
    BY <1>4, <2>3, <2>4, BestBundleExists DEF CanGoOn
<1>5. CASE pc[r] = "charge"
  BY <1>5, ChargedBundleCanPay DEF CanGoOn
<1>6. QED
  BY <1>1, <1>2, <1>3, <1>4, <1>5 DEF CanGoOn

(***************************************************************************)
(* However many requests contend, some running one can go on, or some wait *)
(* in a cycle: no lock outlives the transaction that took it.              *)
(***************************************************************************)
THEOREM StuckOnlyInCycles == Spec => []StuckOnlyInCycle
<1>1. ReadsStayCurrent /\ ScanGoesOn => StuckOnlyInCycle
  <2> SUFFICES ASSUME ReadsStayCurrent, ScanGoesOn, NEW p \in Request, Running(p),
                      \A r \in Request : Running(r) => ~CanGoOn(r)
               PROVE  \E S \in SUBSET Request : WaitCycle(S)
    BY DEF StuckOnlyInCycle
  <2> DEFINE A == {r \in Request : Running(r)}
  <2>1. \A r \in A : \E q \in A : WaitsFor(r, q)
    BY BlockedWaits
  <2>2. A \in SUBSET Request /\ A # {}
    OBVIOUS
  <2>3. QED
    BY <2>1, <2>2, WaitersHaveCycle
<1>2. QED
  BY <1>1, ScanInit, ScanStep, InvariantHolds, PTL DEF Spec

-----------------------------------------------------------------------------
(* The transaction implements the indivisible deduction. *)

\* The count of free messages that AtomicQuota sees.
Counts == [u \in User |-> [m \in Month |-> UsedCount(window[u][m])]]

(***************************************************************************)
(* The initial tables are those of the abstract deduction.                 *)
(***************************************************************************)
LEMMA InitMaps == Init => AQ!Init
BY DEF Init, AQ!Init, UsedCount, NoRow, Month, AQ!Month

(***************************************************************************)
(* A commit that writes n to the window changes one count.                 *)
(***************************************************************************)
LEMMA CommitMaps ==
    ASSUME TypeOK, NEW r \in Request, NEW n \in Nat, CommitWindow(r, n)
    PROVE  Counts' = [Counts EXCEPT ![who[r]][when[r]] = n]
<1>1. who[r] \in User /\ when[r] \in Month
  BY DEF TypeOK
<1>2. window \in [User -> [Month -> Nat \union {None}]]
  BY DEF TypeOK
<1>3. UsedCount(n) = n
  BY TransactionConstants DEF UsedCount
<1>4. \A u \in User, m \in Month :
         window'[u][m] = IF u = who[r] /\ m = when[r] THEN n ELSE window[u][m]
  BY <1>1, <1>2 DEF CommitWindow
<1> DEFINE after(u) == [m \in Month |-> UsedCount(window'[u][m])]
           row == [Counts[who[r]] EXCEPT ![when[r]] = n]
<1>5. \A u \in User, m \in Month :
         UsedCount(window'[u][m]) = IF u = who[r] /\ m = when[r] THEN n ELSE UsedCount(window[u][m])
  BY <1>3, <1>4 DEF UsedCount
<1>6. Counts' = [u \in User |-> after(u)]
  BY DEF Counts, UsedCount
<1>7. \A u \in User : Counts[u] = [m \in Month |-> UsedCount(window[u][m])]
  BY DEF Counts
<1>8. Counts' = [u \in User |-> IF u = who[r] THEN row ELSE Counts[u]]
  <2>1. after(who[r]) = row
    <3>1. row = [m \in Month |-> IF m = when[r] THEN n ELSE UsedCount(window[who[r]][m])]
      BY <1>1, <1>7
    <3>2. \A m \in Month : UsedCount(window'[who[r]][m]) =
             IF m = when[r] THEN n ELSE UsedCount(window[who[r]][m])
      BY <1>1, <1>5
    <3> HIDE DEF row
    <3>3. QED
      BY <3>1, <3>2
  <2>2. ASSUME NEW u \in User, u # who[r] PROVE after(u) = Counts[u]
    BY <1>5, <1>7, <2>2
  <2> HIDE DEF after, row
  <2>3. QED
    BY <1>1, <1>6, <2>1, <2>2
<1>9. QED
  BY <1>8 DEF Counts

(***************************************************************************)
(* A step that leaves the windows alone leaves the counts alone.           *)
(***************************************************************************)
LEMMA SameCounts == UNCHANGED window => UNCHANGED Counts
BY DEF Counts, UsedCount

(***************************************************************************)
(* Every step is a step of the abstract deduction, or none of its steps.   *)
(***************************************************************************)
LEMMA StepMaps == ReadsStayCurrent /\ [Next]_vars => [AQ!Next]_(AQ!vars)
<1> SUFFICES ASSUME ReadsStayCurrent, [Next]_vars PROVE [AQ!Next]_(AQ!vars)
  OBVIOUS
<1> USE TransactionConstants
<1>t. TypeOK /\ TablesLegal /\ Decided /\ WindowLocked
  BY DEF ReadsStayCurrent
<1>m. AQ!Month = Month /\ \A r \in Request : who[r] \in User /\ when[r] \in Month
  BY <1>t DEF TypeOK, Month, AQ!Month
<1>c. \A u \in User, m \in Month : Counts[u][m] = UsedCount(window[u][m])
  BY DEF Counts
<1>0. ASSUME UNCHANGED <<window, bundles, outcome>> PROVE UNCHANGED AQ!vars
  BY <1>0, SameCounts DEF Counts, AQ!vars
<1>1. ASSUME NEW r \in Request, CommitFree(r) PROVE AQ!GrantFree(r)
  <2>1. pc[r] = "free" /\ seen[r] < FreeAllowance /\ seen[r] \in Nat
    BY <1>t, <1>1 DEF CommitFree, Decided, TypeOK
  <2>2. CommitWindow(r, seen[r] + 1)
    BY <1>1, <1>m, <2>1, FreeWindowRule DEF CommitFree
  <2>3. Counts[who[r]][when[r]] = seen[r]
    BY <1>t, <1>c, <1>m, <2>1 DEF WindowLocked, Deciding
  <2>4. Counts' = [Counts EXCEPT ![who[r]][when[r]] = @ + 1]
    BY <1>t, <2>1, <2>2, <2>3, CommitMaps
  <2>5. AQ!Settle(r, AQ!Free(who[r], when[r])) /\ UNCHANGED bundles
    BY <1>t, <1>1, <2>1 DEF CommitFree, End, AQ!Settle, TablesLegal
  <2>6. QED
    BY <1>m, <2>1, <2>3, <2>4, <2>5 DEF AQ!GrantFree, Counts
<1>2. ASSUME NEW r \in Request, CommitBundle(r) \/ CommitRefusal(r)
      PROVE  Counts' = Counts /\ Counts[who[r]][when[r]] = FreeAllowance
  <2>1. CommitWindow(r, UsedCount(window[who[r]][when[r]])) /\ pc[r] \in {"charge", "refuse"}
    BY <1>2 DEF CommitBundle, CommitRefusal
  <2>2. UsedCount(window[who[r]][when[r]]) \in Nat
    BY <1>t, <1>m DEF TypeOK, UsedCount
  <2>3. Counts' = [Counts EXCEPT ![who[r]][when[r]] = UsedCount(window[who[r]][when[r]])]
    BY <1>t, <2>1, <2>2, CommitMaps
  <2>4. Counts' = Counts
    <3>1. [Counts[who[r]] EXCEPT ![when[r]] = UsedCount(window[who[r]][when[r]])] = Counts[who[r]]
      BY <1>c, <1>m DEF Counts
    <3>2. QED
      BY <1>m, <2>3, <3>1 DEF Counts
  <2>5. Counts[who[r]][when[r]] = FreeAllowance
    BY <1>t, <1>c, <1>m, <2>1 DEF WindowLocked, Deciding, Decided
  <2>6. QED
    BY <2>4, <2>5
<1>3. ASSUME NEW r \in Request, CommitBundle(r) PROVE AQ!GrantBundle(r)
  <2>1. pc[r] = "charge"
    BY <1>3 DEF CommitBundle
  <2>2. /\ plan[r] \in Bundle /\ Owner[plan[r]] = who[r]
        /\ bundles[plan[r]].present /\ bundles[plan[r]].active
        /\ IsUnlimitedTier(TierOf[plan[r]]) \/ bundles[plan[r]].remaining > 0
    BY <2>1, ChargedBundleCanPay
  <2>3. AQ!CanPay(plan[r])
    BY <2>2 DEF AQ!CanPay, IsUnlimitedTier, AQ!IsUnlimitedTier, FiniteTier, AQ!FiniteTier
  <2>4. bundles' = [bundles EXCEPT ![plan[r]].remaining =
                       IF AQ!IsUnlimitedTier(TierOf[plan[r]]) THEN @ ELSE @ - 1]
    <3>1. AQ!IsUnlimitedTier(TierOf[plan[r]]) <=> IsUnlimitedTier(TierOf[plan[r]])
      BY DEF IsUnlimitedTier, AQ!IsUnlimitedTier, FiniteTier, AQ!FiniteTier
    <3>2. IsUnlimitedTier(TierOf[plan[r]]) \/ bundles[plan[r]].remaining # 0
      BY <2>2
    <3>3. QED
      BY <1>3, <3>1, <3>2 DEF CommitBundle
  <2>5. AQ!Settle(r, AQ!Charged(plan[r]))
    BY <1>t, <1>3, <2>1 DEF CommitBundle, End, AQ!Settle, TablesLegal
  <2>6. QED
    BY <1>2, <1>3, <1>m, <2>2, <2>3, <2>4, <2>5 DEF AQ!GrantBundle, Counts
<1>4. ASSUME NEW r \in Request, CommitRefusal(r) PROVE AQ!Refuse(r)
  <2>1. AQ!Settle(r, AQ!Exhausted(who[r], when[r])) /\ UNCHANGED bundles
    BY <1>t, <1>4 DEF CommitRefusal, End, AQ!Settle, TablesLegal
  <2>2. QED
    BY <1>2, <1>4, <1>m, <2>1 DEF AQ!Refuse, Counts
<1>5. ASSUME NEW r \in Request, Abort(r) PROVE AQ!Fail(r)
  <2>1. AQ!Settle(r, AQ!Failed) /\ UNCHANGED <<window, bundles>>
    BY <1>t, <1>5 DEF Abort, End, AQ!Settle, TablesLegal
  <2>2. QED
    BY <2>1, SameCounts DEF AQ!Fail, Counts
<1>6. ASSUME NEW b \in Bundle, NEW row \in Row, UNCHANGED <<window, outcome>>,
             bundles' = [bundles EXCEPT ![b] = row]
      PROVE  AQ!WriteRow(b)
  <2>1. bundles'[b] = row
    BY <1>t, <1>6 DEF TypeOK
  <2>2. QED
    BY <1>6, <2>1, SameCounts DEF AQ!WriteRow, Counts, Row
<1>7. ASSUME NEW b \in Bundle, CreateBundle(b) PROVE AQ!WriteRow(b)
  BY <1>t, <1>6, <1>7, RowTypes DEF CreateBundle
<1>8. ASSUME NEW w \in Writer, SaveCancelled(w) \/ SaveRenewed(w) \/ SaveDeactivated(w)
      PROVE  \E b \in Bundle : AQ!WriteRow(b)
  <2>1. copy[w] # None /\ copy[w].bundle \in Bundle /\ copy[w].row \in Row
    BY <1>t, <1>8 DEF SaveCancelled, SaveRenewed, SaveDeactivated, TypeOK, Copy
  <2>2. PICK row \in Row : SaveBundle(w, row)
    BY <1>t, <1>8, <2>1, RowTypes
       DEF SaveCancelled, SaveRenewed, SaveDeactivated, Row, AQ!Row
  <2>3. QED
    BY <1>6, <2>1, <2>2 DEF SaveBundle
<1>9. ASSUME NEW r \in Request,
             \/ Start(r) \/ InsertWindow(r) \/ LockWindow(r)
             \/ ScanBundles(r) \/ LockBundle(r) \/ Resolve(r)
      PROVE  UNCHANGED AQ!vars
  BY <1>0, <1>9 DEF Start, InsertWindow, LockWindow, ScanBundles, LockBundle, Resolve
<1>10. QED
  BY <1>0, <1>1, <1>3, <1>4, <1>5, <1>7, <1>8, <1>9
     DEF Next, Statement, BreakDeadlock, ReadBundle, NextMonth, AQ!Next

(***************************************************************************)
(* Every interleaving of the statements of any number of deductions, with  *)
(* any subscription activity, is a behaviour of indivisible deductions.    *)
(***************************************************************************)
THEOREM ImplementsAtomicQuota == Spec => DeductionIsAtomic
BY InitMaps, StepMaps, InvariantHolds, PTL DEF Spec, DeductionIsAtomic, AQ!Spec

AQP == INSTANCE AtomicQuotaProofs WITH
           used <- [u \in User |-> [m \in Month |-> UsedCount(window[u][m])]]

(***************************************************************************)
(* The window's count is exact, and within the allowance, for every number *)
(* of racing requests: the abstract step lemma carried over the refinement.*)
(***************************************************************************)
THEOREM FreeGrantsExact == Spec => []FreeGrantsCounted
<1>k. \A S : AQ!Cardinality(S) = AQP!Cardinality(S)
  BY DEF AQ!Cardinality, AQP!Cardinality
<1>a. /\ AQP!IsFiniteSet(Request)
      /\ Owner \in [Bundle -> User]
      /\ TierOf \in [Bundle -> AQP!Tier]
      /\ MaxMessages \in [AQP!FiniteTier -> Nat \ {0}]
      /\ FreeAllowance \in Nat \ {0}
      /\ LastMonth \in Nat
  BY TransactionConstants, QuotaConstants
     DEF IsFiniteSet, AQP!IsFiniteSet, Tier, AQP!Tier, FiniteTier, AQP!FiniteTier
<1>c. FreeGrantsCounted <=> AQP!FreeGrantsCounted
  BY <1>k DEF FreeGrantsCounted, AQ!FreeGrantsCounted, AQP!FreeGrantsCounted, AQ!FreeGrants,
         AQP!FreeGrants, AQ!Free, AQP!Free, AQ!Month, AQP!Month
<1>n. [AQ!Next]_(AQ!vars) => [AQP!Next]_(AQP!vars)
  BY DEF AQ!Next, AQP!Next, AQ!vars, AQP!vars, AQ!GrantFree, AQP!GrantFree,
     AQ!GrantBundle, AQP!GrantBundle, AQ!Refuse, AQP!Refuse, AQ!Fail, AQP!Fail,
     AQ!WriteRow, AQP!WriteRow, AQ!Settle, AQP!Settle, AQ!CanPay, AQP!CanPay, AQ!Row, AQP!Row,
     AQ!Open, AQP!Open, AQ!Failed, AQP!Failed, AQ!Free, AQP!Free, AQ!Exhausted, AQP!Exhausted,
     AQ!Charged, AQP!Charged, AQ!Month, AQP!Month,
     AQ!IsUnlimitedTier, AQP!IsUnlimitedTier, AQ!FiniteTier, AQP!FiniteTier
<1>t. ReadsStayCurrent => AQP!TypeOK
  BY TransactionConstants
     DEF ReadsStayCurrent, TypeOK, AQP!TypeOK, UsedCount, AQP!Row, AQ!Row, Row, AQP!Outcome,
         AQ!Outcome, AQ!Month, AQP!Month, Month, AQ!Open, AQP!Open, AQ!Failed, AQP!Failed,
         AQ!Free, AQP!Free, AQ!Exhausted, AQP!Exhausted, AQ!Charged, AQP!Charged
<1>i. AQ!Init => AQP!Init
  BY DEF AQ!Init, AQP!Init, AQ!NoRow, AQP!NoRow, AQ!Open, AQP!Open, AQ!Month, AQP!Month
<1>1. Init => AQP!FreeGrantsCounted
  BY <1>i, <1>a, InitMaps, AQP!CountInit
<1>2. ReadsStayCurrent /\ AQP!FreeGrantsCounted /\ [Next]_vars => AQP!FreeGrantsCounted'
  BY <1>n, <1>t, <1>a, StepMaps, AQP!CountStep
<1>3. QED
  BY <1>1, <1>2, <1>c, InvariantHolds, PTL DEF Spec
=============================================================================
