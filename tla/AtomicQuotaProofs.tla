-------------------------- MODULE AtomicQuotaProofs --------------------------
(***************************************************************************)
(* What callers may rely on if a deduction is one indivisible step: the    *)
(* count of the free window and the grants made from it never drift apart. *)
(* That there are finitely many requests is a hypothesis of the theorems   *)
(* that count them; the modules that use this one assume it.               *)
(***************************************************************************)
EXTENDS AtomicQuota, FiniteSetTheorems, TLAPS

(***************************************************************************)
(* A grant recorded for a request that was open is one grant more.         *)
(***************************************************************************)
LEMMA OneGrantMore ==
    ASSUME IsFiniteSet(Request), TypeOK,
           NEW r \in Request, NEW u \in User, NEW m \in Month,
           outcome[r] = Open,
           outcome' = [outcome EXCEPT ![r] = Free(u, m)]
    PROVE  Cardinality(FreeGrants(u, m)') = Cardinality(FreeGrants(u, m)) + 1
<1>1. r \notin FreeGrants(u, m)
  BY DEF FreeGrants, Open, Free
<1>2. FreeGrants(u, m)' = FreeGrants(u, m) \union {r}
  BY DEF FreeGrants, TypeOK
<1>3. IsFiniteSet(FreeGrants(u, m))
  BY FS_Subset DEF FreeGrants
<1>4. QED
  BY <1>1, <1>2, <1>3, FS_AddElement

(***************************************************************************)
(* Any other outcome leaves the grants of a user and month as they were.   *)
(***************************************************************************)
LEMMA NoOtherGrant ==
    ASSUME TypeOK, NEW r \in Request, NEW u \in User, NEW m \in Month, NEW o,
           outcome[r] = Open, o # Free(u, m),
           outcome' = [outcome EXCEPT ![r] = o]
    PROVE  FreeGrants(u, m)' = FreeGrants(u, m)
BY DEF FreeGrants, Open, Free, TypeOK

-----------------------------------------------------------------------------
(* The variables of the abstract deduction keep their types. *)
THEOREM TypeCorrect == Spec => []TypeOK
<1>1. Init => TypeOK
  BY DEF Init, TypeOK, Row, NoRow, Outcome
<1>2. TypeOK /\ [Next]_vars => TypeOK'
  <2> SUFFICES ASSUME TypeOK, [Next]_vars PROVE TypeOK'
    OBVIOUS
  <2>1. ASSUME NEW r \in Request, GrantFree(r) PROVE TypeOK'
    BY <2>1 DEF GrantFree, Settle, TypeOK, Outcome
  <2>2. ASSUME NEW r \in Request, GrantBundle(r) PROVE TypeOK'
    <3>1. PICK b \in Bundle :
             /\ CanPay(b)
             /\ bundles' = [bundles EXCEPT ![b].remaining =
                               IF IsUnlimitedTier(TierOf[b]) THEN @ ELSE @ - 1]
             /\ Settle(r, Charged(b))
             /\ UNCHANGED used
      BY <2>2 DEF GrantBundle
    <3>2. bundles' \in [Bundle -> Row]
      BY <3>1 DEF TypeOK, CanPay, Row
    <3>3. outcome' \in [Request -> Outcome]
      BY <3>1 DEF TypeOK, Settle, Outcome
    <3>4. QED
      BY <3>1, <3>2, <3>3 DEF TypeOK
  <2>3. ASSUME NEW r \in Request, Refuse(r) PROVE TypeOK'
    BY <2>3 DEF Refuse, Settle, TypeOK, Outcome
  <2>4. ASSUME NEW r \in Request, Fail(r) PROVE TypeOK'
    BY <2>4 DEF Fail, Settle, TypeOK, Outcome
  <2>5. ASSUME NEW b \in Bundle, WriteRow(b) PROVE TypeOK'
    BY <2>5 DEF WriteRow, TypeOK
  <2>6. CASE UNCHANGED vars
    BY <2>6 DEF vars, TypeOK
  <2>7. QED
    BY <2>1, <2>2, <2>3, <2>4, <2>5, <2>6 DEF Next
<1>3. QED
  BY <1>1, <1>2, PTL DEF Spec

(***************************************************************************)
(* One step keeps the free windows and the free grants equal.              *)
(***************************************************************************)
LEMMA CountStep ==
    ASSUME IsFiniteSet(Request)
    PROVE  TypeOK /\ FreeGrantsCounted /\ [Next]_vars => FreeGrantsCounted'
<1> SUFFICES ASSUME TypeOK, FreeGrantsCounted, [Next]_vars,
                    NEW u \in User, NEW m \in Month
             PROVE  /\ used'[u][m] = Cardinality(FreeGrants(u, m)')
                    /\ used'[u][m] <= FreeAllowance
  BY DEF FreeGrantsCounted
<1>1. used[u][m] = Cardinality(FreeGrants(u, m)) /\ used[u][m] <= FreeAllowance
  BY DEF FreeGrantsCounted
<1>2. ASSUME NEW r \in Request, GrantFree(r)
      PROVE  used'[u][m] = Cardinality(FreeGrants(u, m)') /\ used'[u][m] <= FreeAllowance
  <2>1. PICK v \in User, n \in Month :
           /\ used[v][n] < FreeAllowance
           /\ used' = [used EXCEPT ![v][n] = @ + 1]
           /\ Settle(r, Free(v, n))
    BY <1>2 DEF GrantFree
  <2>2. CASE v = u /\ n = m
    <3>1. used'[u][m] = used[u][m] + 1 /\ used[u][m] < FreeAllowance
      BY <2>1, <2>2 DEF TypeOK
    <3>2. Cardinality(FreeGrants(u, m)') = Cardinality(FreeGrants(u, m)) + 1
      BY <2>1, <2>2, OneGrantMore DEF Settle
    <3>3. used[u][m] \in Nat
      BY DEF TypeOK
    <3>4. QED
      BY <1>1, <3>1, <3>2, <3>3, QuotaConstants
  <2>3. CASE ~(v = u /\ n = m)
    <3>1. used'[u][m] = used[u][m]
      BY <2>1, <2>3 DEF TypeOK
    <3>2. Free(v, n) # Free(u, m)
      BY <2>3 DEF Free
    <3>3. FreeGrants(u, m)' = FreeGrants(u, m)
      BY <2>1, <3>2, NoOtherGrant DEF Settle
    <3>4. QED
      BY <1>1, <3>1, <3>3
  <2>4. QED
    BY <2>2, <2>3
<1>3. ASSUME NEW r \in Request, NEW o, Settle(r, o), o # Free(u, m), used' = used
      PROVE  used'[u][m] = Cardinality(FreeGrants(u, m)') /\ used'[u][m] <= FreeAllowance
  BY <1>1, <1>3, NoOtherGrant DEF Settle
<1>4. ASSUME NEW r \in Request, GrantBundle(r) \/ Refuse(r) \/ Fail(r)
      PROVE  used'[u][m] = Cardinality(FreeGrants(u, m)') /\ used'[u][m] <= FreeAllowance
  <2>1. PICK o : Settle(r, o) /\ used' = used /\ o # Free(u, m)
    BY <1>4 DEF GrantBundle, Refuse, Fail, Charged, Exhausted, Failed, Free
  <2>2. QED
    BY <1>3, <2>1
<1>5. ASSUME NEW b \in Bundle, WriteRow(b)
      PROVE  used'[u][m] = Cardinality(FreeGrants(u, m)') /\ used'[u][m] <= FreeAllowance
  BY <1>1, <1>5 DEF WriteRow, FreeGrants
<1>6. CASE UNCHANGED vars
  BY <1>1, <1>6 DEF vars, FreeGrants
<1>7. QED
  BY <1>2, <1>4, <1>5, <1>6 DEF Next

(***************************************************************************)
(* At the start nothing is counted and nothing is granted.                 *)
(***************************************************************************)
LEMMA CountInit == Init => FreeGrantsCounted
<1> SUFFICES ASSUME Init, NEW u \in User, NEW m \in Month
             PROVE  used[u][m] = Cardinality(FreeGrants(u, m)) /\ used[u][m] <= FreeAllowance
  BY DEF FreeGrantsCounted
<1>1. FreeGrants(u, m) = {}
  BY DEF Init, FreeGrants, Open, Free
<1>2. used[u][m] = 0
  BY DEF Init
<1>3. QED
  BY <1>1, <1>2, FS_EmptySet, QuotaConstants

(***************************************************************************)
(* Nobody is given more free messages than the allowance of the month, and *)
(* every message given is counted.                                         *)
(***************************************************************************)
THEOREM CountCorrect ==
    ASSUME IsFiniteSet(Request)
    PROVE  Spec => []FreeGrantsCounted
BY CountInit, CountStep, TypeCorrect, PTL DEF Spec
=============================================================================
