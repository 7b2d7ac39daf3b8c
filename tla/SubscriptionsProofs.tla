-------------------------- MODULE SubscriptionsProofs --------------------------
(***************************************************************************)
(* Proofs about Subscriptions, for any number of bundles and cancellation  *)
(* requests, any cycle lengths, and any number of runs cut short.          *)
(***************************************************************************)
EXTENDS Subscriptions, FiniteSetTheorems, TLAPS

\* What a new cycle starts with is a number of messages.
LEMMA InitialIsNat ==
    ASSUME NEW b \in Bundle
    PROVE  InitialRemaining(b) \in Nat
  BY QuotaConstants DEF InitialRemaining, IsUnlimitedTier, FiniteTier, Tier

\* So is what the runs that were cut short may have lost.
LEMMA LostIsNat ==
    ASSUME NEW b \in Bundle, failures \in Nat
    PROVE  LostWithRuns(b) \in Nat
<1>1. \A n, k \in Nat : n * k \in Nat
  OBVIOUS
<1> QED
  BY <1>1, SubscriptionConstants DEF LostWithRuns

\* And what the saved cancellations may have given back.
LEMMA GivenBackIsNat ==
    ASSUME NEW b \in Bundle
    PROVE  GivenBack(b) \in Nat
<1>1. \A n, k \in Nat : n * k \in Nat
  OBVIOUS
<1>2. Cardinality({c \in Cancel : target[c] = b /\ outcome[c] = "cancelled"}) \in Nat
  BY SubscriptionConstants, FS_Subset, FS_CardinalityType
<1> QED
  BY <1>1, <1>2, InitialIsNat DEF GivenBack

\* A cancellation that is saved may give back a cycle's messages of its bundle.
LEMMA SaveGivesBack ==
    ASSUME TypeOK, NEW c \in Cancel, CancelSave(c), NEW b \in Bundle
    PROVE  /\ b # target[c] => GivenBack(b)' = GivenBack(b)
           /\ b = target[c] => GivenBack(b)' = GivenBack(b) + InitialRemaining(b)
<1> DEFINE S == {x \in Cancel : target[x] = b /\ outcome[x] = "cancelled"}
<1>1. target' = target /\ outcome' = [outcome EXCEPT ![c] = "cancelled"] /\ outcome[c] = "saving"
  BY DEF CancelSave, Answer
<1>2. GivenBack(b) = InitialRemaining(b) * Cardinality(S)
  BY DEF GivenBack
<1>3. GivenBack(b)' = InitialRemaining(b) * Cardinality(S')
  BY <1>1 DEF GivenBack
<1>4. CASE b # target[c]
  <2>1. S' = S
    BY <1>1, <1>4 DEF TypeOK
  <2> QED
    BY <1>2, <1>3, <1>4, <2>1
<1>5. CASE b = target[c]
  <2>1. S' = S \union {c} /\ c \notin S
    BY <1>1, <1>5 DEF TypeOK
  <2>2. IsFiniteSet(S)
    BY SubscriptionConstants, FS_Subset
  <2>3. Cardinality(S) \in Nat /\ Cardinality(S') = Cardinality(S) + 1
    BY <2>1, <2>2, FS_AddElement, FS_CardinalityType
  <2>4. \A n, k \in Nat : n * (k + 1) = n * k + n
    OBVIOUS
  <2> HIDE DEF S
  <2> QED
    BY <1>2, <1>3, <1>5, <2>3, <2>4, InitialIsNat
<1> QED
  BY <1>4, <1>5

\* An empty database is sound.
LEMMA InitIsSound == Init => SavesAreSound
<1> SUFFICES ASSUME Init PROVE SavesAreSound
  OBVIOUS
<1> USE DEF Init
<1>1. TypeOK
  <2>1. NoRow \in Row
    BY DEF Row, NoRow
  <2>2. bundles \in [Bundle -> Row]
    BY <2>1
  <2>3. /\ tick \in Nat /\ failures \in Nat /\ cron \in BOOLEAN
        /\ due \in SUBSET Copy /\ pending \in Copy \union {None}
    OBVIOUS
  <2>4. /\ target \in [Cancel -> Bundle \union {None}]
        /\ copy \in [Cancel -> Copy \union {None}]
        /\ outcome \in [Cancel -> Outcome]
    BY DEF Outcome
  <2>5. paidUntil \in [Bundle -> Nat] /\ balance \in [Bundle -> Int]
    OBVIOUS
  <2> QED
    BY <2>2, <2>3, <2>4, <2>5 DEF TypeOK
<1>2. \A b \in Bundle : Legal(bundles[b])
  BY DEF NoRow, Legal
<1>3. CopiesLegal /\ CopiesPaid
  BY DEF CopiesLegal, CopiesPaid
<1>4. RenewNeverThrows /\ JobAdvances /\ RenewalBought
  BY DEF RenewNeverThrows, JobAdvances, RenewalBought
<1>5. NoFreeCycle /\ NoLostPayment /\ AllowanceKept /\ NothingCarriedOver
  BY GivenBackIsNat, InitialIsNat, LostIsNat
     DEF NoRow, NoFreeCycle, NoLostPayment, Advanced, AllowanceKept, NothingCarriedOver, Usable
<1> QED
  BY <1>1, <1>2, <1>3, <1>4, <1>5 DEF SavesAreSound

-----------------------------------------------------------------------------
(* What the transitions of a row keep. *)

LEMMA CancelledRow ==
    ASSUME NEW row \in Row
    PROVE  /\ Cancelled(row) \in Row
           /\ Cancelled(row).present = row.present
           /\ Cancelled(row).active = row.active
           /\ Cancelled(row).renewalDate = row.renewalDate
           /\ Cancelled(row).remaining = row.remaining
           /\ ~Cancelled(row).autoRenew /\ Cancelled(row).cancelled
  BY DEF Cancelled, Row

LEMMA DeactivatedRow ==
    ASSUME NEW row \in Row
    PROVE  /\ Deactivated(row) \in Row
           /\ Deactivated(row).present = row.present
           /\ ~Deactivated(row).active
           /\ Deactivated(row).renewalDate = row.renewalDate
           /\ Deactivated(row).remaining = row.remaining
           /\ Deactivated(row).autoRenew = row.autoRenew
           /\ Deactivated(row).cancelled = row.cancelled
  BY DEF Deactivated, Row

LEMMA RenewedRow ==
    ASSUME NEW row \in Row, NEW b \in Bundle
    PROVE  /\ Renewed(b, row) \in Row
           /\ Renewed(b, row).present = row.present
           /\ Renewed(b, row).active = row.active
           /\ Renewed(b, row).remaining = InitialRemaining(b)
           /\ Renewed(b, row).renewalDate = row.renewalDate + Cycle[b]
           /\ Renewed(b, row).autoRenew = row.autoRenew
           /\ Renewed(b, row).cancelled = row.cancelled
<1>1. \A n, d \in Nat :
          LET new == [row EXCEPT !.remaining = n, !.renewalDate = d]
          IN  /\ new \in Row
              /\ new.present = row.present /\ new.active = row.active
              /\ new.remaining = n /\ new.renewalDate = d
              /\ new.autoRenew = row.autoRenew /\ new.cancelled = row.cancelled
  BY DEF Row
<1>2. InitialRemaining(b) \in Nat /\ row.renewalDate + Cycle[b] \in Nat
  BY InitialIsNat, SubscriptionConstants DEF Row
<1> QED
  BY <1>1, <1>2 DEF Renewed

-----------------------------------------------------------------------------
(* One lemma for each action. *)

\* Nothing in memory is about a bundle that does not exist yet.
LEMMA CreateIsSound ==
    ASSUME SavesAreSound, NEW b \in Bundle, Create(b)
    PROVE  SavesAreSound'
<1> InitialRemaining(b) \in Nat /\ Cycle[b] \in Nat /\ tick \in Nat
  BY InitialIsNat, SubscriptionConstants DEF SavesAreSound, TypeOK
<1> USE DEF Create, requestVars, jobVars
<1>1. TypeOK'
  BY DEF SavesAreSound, TypeOK, Row, NewRow
<1>2. \A x \in Bundle : Legal(bundles'[x])
  BY DEF SavesAreSound, TypeOK, NewRow, Legal
<1>3. \A c \in due : c.bundle # b /\ c.bundle \in Bundle
  BY DEF SavesAreSound, TypeOK, CopiesLegal, Copy
<1>4. pending # None => pending.bundle # b /\ pending.bundle \in Bundle
  BY DEF SavesAreSound, TypeOK, CopiesLegal, Copy
<1>5. \A c \in Cancel : outcome[c] = "saving" => target[c] # b /\ target[c] \in Bundle
  BY DEF SavesAreSound, CopiesLegal, Copy
<1>6. CopiesLegal'
  BY <1>3, <1>4, <1>5 DEF SavesAreSound, TypeOK, CopiesLegal, JobIdle
<1>7. RenewNeverThrows'
  BY DEF SavesAreSound, RenewNeverThrows
<1>8. NoFreeCycle'
  BY DEF SavesAreSound, TypeOK, NoFreeCycle, NewRow
<1>9. CopiesPaid'
  BY <1>3, <1>4, <1>5 DEF SavesAreSound, TypeOK, CopiesPaid, CopiesLegal, Copy, Row
<1>10. NoLostPayment' /\ JobAdvances'
  <2>1. LostWithRuns(b) \in Nat
    BY LostIsNat DEF SavesAreSound, TypeOK
  <2>2. \A x \in Bundle : CancelSaved(x)' = CancelSaved(x) /\ LostWithRuns(x)' = LostWithRuns(x)
    BY DEF CancelSaved, LostWithRuns
  <2>3. \A x \in Bundle : /\ bundles'[x] = IF x = b THEN NewRow(b) ELSE bundles[x]
                          /\ paidUntil'[x] = IF x = b THEN tick + Cycle[b] ELSE paidUntil[x]
    BY DEF SavesAreSound, TypeOK
  <2>4. NoLostPayment'
    BY <2>1, <2>2, <2>3 DEF SavesAreSound, NoLostPayment, NewRow, Advanced
  <2>5. JobAdvances'
    BY <2>2, <2>3, <1>3, <1>4 DEF SavesAreSound, JobAdvances, Advanced
  <2> QED
    BY <2>4, <2>5
<1>11. \A x \in Bundle : GivenBack(x)' = GivenBack(x) /\ GivenBack(x) \in Nat
  BY GivenBackIsNat DEF GivenBack
<1>12. AllowanceKept' /\ RenewalBought'
  BY <1>4, <1>11 DEF SavesAreSound, TypeOK, AllowanceKept, RenewalBought, NewRow, Usable
<1>13. NothingCarriedOver'
  BY DEF SavesAreSound, TypeOK, NothingCarriedOver, NewRow
<1> QED
  BY <1>1, <1>2, <1>6, <1>7, <1>8, <1>9, <1>10, <1>12, <1>13 DEF SavesAreSound

\* A cancellation takes the row it reads into its copy.
LEMMA CancelReadIsSound ==
    ASSUME SavesAreSound, NEW c \in Cancel, NEW b \in Bundle, NEW u \in User,
           NEW admin \in BOOLEAN, CancelRead(c, b, u, admin)
    PROVE  SavesAreSound'
<1> USE DEF SavesAreSound, CancelRead, jobVars, historyVars
<1> DEFINE read == /\ bundles[b].present
                   /\ target' = [target EXCEPT ![c] = b]
                   /\ copy' = [copy EXCEPT ![c] = CopyOf(b)]
                   /\ outcome' = [outcome EXCEPT ![c] = "saving"]
           turned == /\ target' = target /\ copy' = copy
                     /\ \E o \in Outcome \ {"saving", "cancelled"} : outcome' = [outcome EXCEPT ![c] = o]
<1>1. read \/ turned
  BY DEF Answer, Reject, Outcome
<1>2. CopyOf(b) \in Copy
  BY DEF TypeOK, CopyOf, Copy
<1>3. TypeOK'
  BY <1>1, <1>2 DEF TypeOK, Outcome
<1>4. \A x \in Bundle : CancelSaved(x) => CancelSaved(x)'
  BY <1>1 DEF TypeOK, CancelSaved
<1>5. CopiesLegal'
  BY <1>1, <1>2 DEF TypeOK, CopiesLegal, JobIdle, CopyOf
<1>6. CopiesPaid'
  BY <1>1 DEF TypeOK, CopiesPaid, NoFreeCycle, CopyOf
<1>7. NoLostPayment'
  BY <1>4 DEF NoLostPayment, Advanced, LostWithRuns
<1>9. \A x \in Bundle : GivenBack(x)' = GivenBack(x)
  <2> SUFFICES ASSUME NEW x \in Bundle PROVE GivenBack(x)' = GivenBack(x)
    OBVIOUS
  <2> DEFINE S == {d \in Cancel : target[d] = x /\ outcome[d] = "cancelled"}
  <2>1. S' = S
    BY <1>1 DEF TypeOK
  <2> QED
    BY <2>1 DEF GivenBack
<1>10. AllowanceKept' /\ NothingCarriedOver'
  BY <1>1, <1>9 DEF TypeOK, AllowanceKept, NothingCarriedOver, CopyOf
<1>8. JobAdvances' /\ RenewalBought'
  <2>1. \A x \in due : x.bundle \in Bundle
    BY DEF TypeOK, Copy
  <2>2. pending # None => pending.bundle \in Bundle
    BY DEF TypeOK, Copy
  <2> QED
    BY <1>4, <1>9, <2>1, <2>2 DEF JobAdvances, RenewalBought, Advanced, LostWithRuns
<1> QED
  BY <1>3, <1>5, <1>6, <1>7, <1>8, <1>10 DEF RenewNeverThrows, NoFreeCycle

\* A cancellation may set a bundle back, and is then known to have.
LEMMA CancelSaveIsSound ==
    ASSUME SavesAreSound, NEW c \in Cancel, CancelSave(c)
    PROVE  SavesAreSound'
<1> USE DEF SavesAreSound, CancelSave, Answer, jobVars, historyVars
<1> DEFINE b == target[c]
           row == Cancelled(copy[c].row)
<1>1. /\ b \in Bundle /\ copy[c] \in Copy /\ bundles[b].present
      /\ row \in Row /\ row.present /\ Legal(row) /\ row.renewalDate <= paidUntil[b]
      /\ row.remaining <= InitialRemaining(b)
  <2>1. b \in Bundle /\ copy[c] \in Copy /\ bundles[b].present /\ copy[c].row \in Row
    BY DEF CopiesLegal, Copy
  <2>2. /\ copy[c].row.present /\ copy[c].row.renewalDate <= paidUntil[b]
        /\ copy[c].row.remaining <= InitialRemaining(b)
    BY DEF CopiesLegal, CopiesPaid, NothingCarriedOver
  <2> QED
    BY <2>1, <2>2, CancelledRow DEF Legal
<1>2. bundles' = [bundles EXCEPT ![b] = row]
  OBVIOUS
<1> HIDE DEF row
<1>3. TypeOK'
  BY <1>1, <1>2 DEF TypeOK, Outcome
<1>4. \A x \in Bundle : bundles[x].present => bundles'[x].present
  BY <1>1, <1>2 DEF TypeOK
<1>5. /\ \A x \in Bundle : CancelSaved(x) => CancelSaved(x)'
      /\ CancelSaved(b)'
  BY DEF TypeOK, CancelSaved
<1>6. (\A x \in due : x.bundle \in Bundle) /\ (pending # None => pending.bundle \in Bundle)
  BY DEF TypeOK, Copy
<1>7. \A x \in Bundle : Legal(bundles'[x])
  BY <1>1, <1>2 DEF TypeOK
<1>8. CopiesLegal'
  <2>1. \A d \in Cancel : outcome'[d] = "saving" =>
            outcome[d] = "saving" /\ copy'[d] = copy[d] /\ target[d] \in Bundle
    BY DEF TypeOK, CopiesLegal, Copy
  <2> QED
    BY <1>4, <1>6, <2>1 DEF CopiesLegal, JobIdle
<1>9. NoFreeCycle' /\ CopiesPaid'
  BY <1>1, <1>2 DEF TypeOK, NoFreeCycle, CopiesPaid
<1>10. NoLostPayment' /\ JobAdvances'
  BY <1>2, <1>5, <1>6 DEF TypeOK, NoLostPayment, JobAdvances, Advanced, LostWithRuns
<1>11. NothingCarriedOver'
  BY <1>1, <1>2 DEF TypeOK, NothingCarriedOver
<1>12. \A x \in Bundle : /\ GivenBack(x) \in Nat /\ InitialRemaining(x) \in Nat
                         /\ GivenBack(x)' = IF x = b THEN GivenBack(x) + InitialRemaining(x)
                                                     ELSE GivenBack(x)
  BY SaveGivesBack, GivenBackIsNat, InitialIsNat
<1>13. \A x \in Bundle : /\ Usable(bundles[x]) \in Nat /\ balance'[x] = balance[x]
                         /\ balance[x] \in Int
                         /\ bundles'[x] = IF x = b THEN row ELSE bundles[x]
  BY <1>1, <1>2 DEF TypeOK, Row, Usable
<1>14. Usable(row) \in Nat /\ Usable(row) <= InitialRemaining(b)
  BY <1>1, InitialIsNat DEF Usable, Row
<1>15. AllowanceKept'
  BY <1>1, <1>12, <1>13, <1>14 DEF AllowanceKept
<1>16. RenewalBought'
  <2>1. pending # None => Usable(pending.row) \in Nat
    BY DEF TypeOK, Copy, Row, Usable
  <2> QED
    BY <1>1, <1>6, <1>12, <1>13, <1>14, <2>1 DEF RenewalBought
<1> QED
  BY <1>3, <1>7, <1>8, <1>9, <1>10, <1>11, <1>15, <1>16 DEF RenewNeverThrows

\* A cancellation that fails leaves nothing behind.
LEMMA CancelFailIsSound ==
    ASSUME SavesAreSound, NEW c \in Cancel, CancelFail(c)
    PROVE  SavesAreSound'
<1> USE DEF SavesAreSound, CancelFail, Answer, jobVars, historyVars
<1>1. TypeOK'
  BY DEF TypeOK, Outcome
<1>2. \A x : CancelSaved(x) => CancelSaved(x)'
  BY DEF TypeOK, CancelSaved
<1>3. \A d \in Cancel : outcome'[d] = "saving" => outcome[d] = "saving" /\ copy'[d] = copy[d]
  BY DEF TypeOK
<1>4. CopiesLegal' /\ CopiesPaid'
  BY <1>3 DEF CopiesLegal, JobIdle, CopiesPaid
<1>5. NoLostPayment' /\ JobAdvances'
  BY <1>2 DEF NoLostPayment, JobAdvances, Advanced, LostWithRuns
<1>6. \A x : GivenBack(x)' = GivenBack(x)
  <2> SUFFICES ASSUME NEW x PROVE GivenBack(x)' = GivenBack(x)
    OBVIOUS
  <2> DEFINE S == {d \in Cancel : target[d] = x /\ outcome[d] = "cancelled"}
  <2>1. S' = S
    BY DEF TypeOK
  <2> QED
    BY <2>1 DEF GivenBack
<1>7. AllowanceKept' /\ RenewalBought' /\ NothingCarriedOver'
  BY <1>3, <1>6 DEF AllowanceKept, RenewalBought, NothingCarriedOver
<1> QED
  BY <1>1, <1>4, <1>5, <1>7 DEF RenewNeverThrows, NoFreeCycle

\* A charge takes from the row what it takes from the balance.
LEMMA ChargeIsSound ==
    ASSUME SavesAreSound, NEW b \in Bundle, Charge(b)
    PROVE  SavesAreSound'
<1> USE DEF SavesAreSound, Charge, requestVars, jobVars
<1>1. bundles' = [bundles EXCEPT ![b] = [bundles[b] EXCEPT !.remaining = bundles[b].remaining - 1]]
  BY DEF TypeOK
<1>2. [bundles[b] EXCEPT !.remaining = bundles[b].remaining - 1] \in Row
  BY DEF TypeOK, Row
<1>3. TypeOK'
  BY <1>1, <1>2 DEF TypeOK
<1>4. \A x \in Bundle : /\ bundles'[x].present = bundles[x].present
                        /\ bundles'[x].active = bundles[x].active
                        /\ bundles'[x].autoRenew = bundles[x].autoRenew
                        /\ bundles'[x].cancelled = bundles[x].cancelled
                        /\ bundles'[x].renewalDate = bundles[x].renewalDate
  BY <1>1 DEF TypeOK, Row
<1>5. \A x \in Bundle : x # b => bundles'[x] = bundles[x] /\ balance'[x] = balance[x]
  BY DEF TypeOK
<1>6. Usable(bundles'[b]) = Usable(bundles[b]) - 1 /\ balance'[b] = balance[b] - 1
  BY <1>1 DEF TypeOK, Row, Usable
<1>7. (\A x \in due : x.bundle \in Bundle) /\ (pending # None => pending.bundle \in Bundle)
  BY DEF TypeOK, Copy
<1>8. CopiesLegal' /\ \A x \in Bundle : Legal(bundles'[x])
  <2>1. \A d \in Cancel : outcome[d] = "saving" => target[d] \in Bundle
    BY DEF CopiesLegal, Copy
  <2> QED
    BY <1>4, <1>7, <2>1 DEF CopiesLegal, JobIdle, Legal
<1>9. NoFreeCycle' /\ CopiesPaid' /\ NoLostPayment' /\ JobAdvances' /\ RenewNeverThrows'
  BY <1>4, <1>7 DEF NoFreeCycle, CopiesPaid, NoLostPayment, JobAdvances, RenewNeverThrows,
                    CancelSaved, Advanced, LostWithRuns
<1>10. AllowanceKept' /\ RenewalBought'
  <2>1. \A x \in Bundle : Usable(bundles[x]) \in Nat /\ balance[x] \in Int
    BY DEF TypeOK, Row, Usable
  <2>2. pending # None => Usable(pending.row) \in Nat
    BY DEF TypeOK, Row, Usable, Copy
  <2>3. \A x \in Bundle : GivenBack(x)' = GivenBack(x) /\ GivenBack(x) \in Nat
    BY GivenBackIsNat DEF GivenBack
  <2> QED
    BY <1>5, <1>6, <1>7, <2>1, <2>2, <2>3 DEF AllowanceKept, RenewalBought
<1>11. NothingCarriedOver'
  <2>1. \A x \in Bundle : bundles'[x].remaining <= bundles[x].remaining
                          /\ bundles'[x].remaining \in Int /\ bundles[x].remaining \in Int
    BY <1>1, <1>5 DEF TypeOK, Row
  <2> QED
    BY <2>1, InitialIsNat DEF NothingCarriedOver
<1> QED
  BY <1>3, <1>8, <1>9, <1>10, <1>11

\* The query takes each due row once, as it stands.
LEMMA JobStartIsSound ==
    ASSUME SavesAreSound, JobStart
    PROVE  SavesAreSound'
<1> USE DEF SavesAreSound, JobStart, requestVars, historyVars
<1>1. \A c \in due' : \E b \in Bundle : c = CopyOf(b) /\ IsDue(b)
  OBVIOUS
<1>2. \A c \in due' : /\ c \in Copy /\ c.bundle \in Bundle /\ c.row = bundles[c.bundle]
                      /\ c = CopyOf(c.bundle) /\ IsDue(c.bundle)
  BY <1>1 DEF TypeOK, CopyOf, Copy
<1>3. TypeOK'
  BY <1>2 DEF TypeOK
<1>4. CopiesLegal'
  <2>1. ASSUME NEW c \in due'
        PROVE  /\ bundles[c.bundle].present /\ c.row.present /\ c.row.autoRenew
               /\ \A d \in due' : c.bundle = d.bundle => c = d
    BY <1>2 DEF IsDue, Legal
  <2>2. pending' = None /\ ~cron'
    BY DEF CopiesLegal, JobIdle
  <2> QED
    BY <2>1, <2>2 DEF CopiesLegal
<1>5. RenewNeverThrows'
  BY <1>2 DEF RenewNeverThrows, RenewThrows, IsDue, Legal
<1>6. CopiesPaid' /\ NoFreeCycle'
  BY <1>2 DEF NoFreeCycle, CopiesPaid
<1>7. JobAdvances' /\ NoLostPayment'
  <2>1. pending = None /\ pending' = None
    BY DEF CopiesLegal, JobIdle
  <2> QED
    BY <1>2, <2>1 DEF NoLostPayment, JobAdvances, CancelSaved, Advanced, LostWithRuns
<1>8. AllowanceKept' /\ RenewalBought' /\ NothingCarriedOver'
  BY <1>2 DEF AllowanceKept, RenewalBought, GivenBack, NothingCarriedOver
<1> QED
  BY <1>3, <1>4, <1>5, <1>6, <1>7, <1>8

\* A payment moves the row, and the books, by one cycle.
LEMMA PaymentSucceedsIsSound ==
    ASSUME SavesAreSound, NEW c \in due, JobPay(c), PaymentSucceeds(c)
    PROVE  SavesAreSound'
<1> DEFINE b == c.bundle
           row == Renewed(b, c.row)
<1> USE DEF SavesAreSound, requestVars
<1>1. /\ c \in Copy /\ b \in Bundle /\ c.row \in Row
      /\ c.row.active /\ ~c.row.cancelled /\ pending = None
  BY DEF TypeOK, Copy, RenewNeverThrows, RenewThrows, JobPay
<1>2. /\ due' = due \ {c}
      /\ pending' = [bundle |-> b, row |-> row]
      /\ paidUntil' = [paidUntil EXCEPT ![b] = @ + Cycle[b]]
      /\ balance' = [balance EXCEPT ![b] = @ + InitialRemaining(b)]
      /\ UNCHANGED <<tick, bundles, requestVars, cron, failures>>
  BY <1>1 DEF PaymentSucceeds, RenewThrows, JobPay
<1>3. Cycle[b] \in Nat /\ InitialRemaining(b) \in Nat
  BY <1>1, InitialIsNat, SubscriptionConstants
<1>4. /\ row \in Row /\ row.present = c.row.present /\ row.active
      /\ row.remaining = InitialRemaining(b)
      /\ row.renewalDate = c.row.renewalDate + Cycle[b]
      /\ row.autoRenew = c.row.autoRenew /\ ~row.cancelled
  BY <1>1, RenewedRow
<1> HIDE DEF row
<1>5. pending' \in Copy /\ pending'.bundle = b /\ pending'.row = row
  BY <1>1, <1>2, <1>4 DEF Copy
<1>6. TypeOK'
  BY <1>1, <1>2, <1>3, <1>5 DEF TypeOK
<1>7. \A x \in due' : x \in due /\ x.bundle \in Bundle /\ x.bundle # b
  BY <1>2 DEF TypeOK, Copy, CopiesLegal
<1>8. CopiesLegal' /\ RenewNeverThrows'
  BY <1>1, <1>2, <1>4, <1>5, <1>7 DEF CopiesLegal, JobIdle, Legal, RenewNeverThrows
<1>9. \A x \in Bundle : paidUntil'[x] >= paidUntil[x] /\ (x # b => paidUntil'[x] = paidUntil[x])
  BY <1>1, <1>2, <1>3 DEF TypeOK
<1>10. /\ paidUntil'[b] = paidUntil[b] + Cycle[b]
       /\ balance'[b] = balance[b] + InitialRemaining(b)
  BY <1>1, <1>2 DEF TypeOK
<1>11. \A x \in Bundle : /\ bundles[x].renewalDate \in Nat /\ paidUntil[x] \in Nat
                         /\ paidUntil'[x] \in Nat
  BY <1>6 DEF TypeOK, Row
<1>12. NoFreeCycle'
  BY <1>2, <1>9, <1>11 DEF NoFreeCycle
<1>13. CopiesPaid'
  <2>1. \A x \in Cancel : outcome[x] = "saving" =>
            target[x] \in Bundle /\ copy[x].row.renewalDate \in Nat
    BY DEF CopiesLegal, Copy, Row
  <2>2. \A x \in Cancel : outcome[x] = "saving" =>
            copy[x].row.renewalDate <= paidUntil'[target[x]]
    BY <2>1, <1>9, <1>11 DEF CopiesPaid
  <2>3. c.row.renewalDate <= paidUntil[b] /\ c.row.renewalDate \in Nat
    BY <1>1 DEF CopiesPaid, Row
  <2>4. pending'.row.renewalDate <= paidUntil'[b]
    BY <2>3, <1>1, <1>3, <1>4, <1>5, <1>10, <1>11
  <2> QED
    BY <2>2, <2>4, <1>2, <1>5, <1>7, <1>9 DEF CopiesPaid
<1>14. NoLostPayment' /\ JobAdvances'
  <2>1. \A x : CancelSaved(x)' <=> CancelSaved(x)
    BY <1>2 DEF CancelSaved
  <2>2. pending' # None
    BY <1>5, NoneIsNoCopy
  <2>5. \A x \in Bundle : LostWithRuns(x)' = LostWithRuns(x) /\ LostWithRuns(x) \in Nat
    BY <1>2, LostIsNat DEF LostWithRuns, TypeOK
  <2>3. NoLostPayment'
    BY <2>1, <2>2, <2>5, <1>1, <1>2, <1>5, <1>9 DEF NoLostPayment, Advanced
  <2>6. CancelSaved(b) \/ (Advanced(b, c.row) /\ Advanced(b, bundles[b]))
    BY <1>1 DEF JobAdvances, NoLostPayment
  <2>7. CancelSaved(b) \/ /\ paidUntil'[b] <= row.renewalDate + LostWithRuns(b)
                          /\ paidUntil'[b] <= bundles[b].renewalDate + LostWithRuns(b) + Cycle[b]
    <3>1. c.row.renewalDate \in Nat /\ LostWithRuns(b) \in Nat
      BY <1>1, <2>5 DEF Row
    <3> QED
      BY <2>6, <3>1, <1>1, <1>3, <1>4, <1>10, <1>11 DEF Advanced
  <2>4. JobAdvances'
    BY <2>1, <2>5, <2>7, <1>1, <1>2, <1>5, <1>7, <1>9 DEF JobAdvances, Advanced
  <2> QED
    BY <2>3, <2>4
<1>15. AllowanceKept' /\ RenewalBought'
  <2>1. \A x \in Bundle : GivenBack(x)' = GivenBack(x) /\ GivenBack(x) \in Nat
    BY <1>2, GivenBackIsNat DEF GivenBack
  <2>2. \A x \in Bundle : balance'[x] >= balance[x] /\ balance[x] \in Int /\ balance'[x] \in Int
    BY <1>1, <1>2, <1>3 DEF TypeOK
  <2>3. \A x \in Bundle : Usable(bundles[x]) \in Nat
    BY DEF TypeOK, Row, Usable
  <2>4. Usable(row) = InitialRemaining(b)
    BY <1>4 DEF Usable
  <2>5. AllowanceKept'
    BY <2>1, <2>2, <2>3, <1>2 DEF AllowanceKept
  <2>6. RenewalBought'
    BY <2>1, <2>2, <2>3, <2>4, <1>1, <1>2, <1>3, <1>5, <1>10 DEF AllowanceKept, RenewalBought
  <2> QED
    BY <2>5, <2>6
<1>16. NothingCarriedOver'
  BY <1>2, <1>3, <1>4, <1>5, <1>7 DEF NothingCarriedOver
<1> QED
  BY <1>2, <1>6, <1>8, <1>12, <1>13, <1>14, <1>15, <1>16

\* A declined payment only takes the row out of use.
LEMMA PaymentFailsIsSound ==
    ASSUME SavesAreSound, NEW c \in due, JobPay(c), PaymentFails(c)
    PROVE  SavesAreSound'
<1> DEFINE b == c.bundle
           row == Deactivated(c.row)
<1> USE DEF SavesAreSound, requestVars, historyVars
<1>1. c \in Copy /\ b \in Bundle /\ c.row \in Row /\ ~c.row.cancelled /\ pending = None
  BY DEF TypeOK, Copy, RenewNeverThrows, RenewThrows, JobPay
<1>2. /\ due' = due \ {c}
      /\ pending' = [bundle |-> b, row |-> row]
      /\ UNCHANGED <<tick, bundles, requestVars, cron, historyVars, failures>>
  BY DEF PaymentFails, JobPay
<1>3. /\ row \in Row /\ row.present = c.row.present /\ ~row.active
      /\ row.renewalDate = c.row.renewalDate /\ row.remaining = c.row.remaining
      /\ row.autoRenew = c.row.autoRenew /\ ~row.cancelled
  BY <1>1, DeactivatedRow
<1> HIDE DEF row
<1>4. pending' \in Copy /\ pending'.bundle = b /\ pending'.row = row
  BY <1>1, <1>2, <1>3 DEF Copy
<1>5. TypeOK'
  BY <1>1, <1>2, <1>4 DEF TypeOK
<1>6. \A x \in due' : x \in due /\ x.bundle \in Bundle /\ x.bundle # b
  BY <1>2 DEF TypeOK, Copy, CopiesLegal
<1>7. CopiesLegal' /\ RenewNeverThrows'
  BY <1>1, <1>2, <1>3, <1>4, <1>6 DEF CopiesLegal, JobIdle, Legal, RenewNeverThrows
<1>8. NoFreeCycle' /\ CopiesPaid'
  BY <1>1, <1>2, <1>3, <1>4 DEF NoFreeCycle, CopiesPaid
<1>9. \A x : CancelSaved(x)' <=> CancelSaved(x)
  BY <1>2 DEF CancelSaved
<1>10. NoLostPayment' /\ JobAdvances'
  <2>1. \A x \in Bundle : LostWithRuns(x)' = LostWithRuns(x) /\ LostWithRuns(x) \in Nat
    BY <1>2, LostIsNat DEF LostWithRuns, TypeOK
  <2>2. \A x \in Bundle : bundles[x].renewalDate \in Nat /\ paidUntil[x] \in Nat
    BY DEF TypeOK, Row
  <2>3. CancelSaved(b) \/ (Advanced(b, c.row) /\ Advanced(b, bundles[b]))
    BY <1>1 DEF JobAdvances, NoLostPayment
  <2>4. NoLostPayment'
    BY <1>1, <1>2, <1>4, <1>9, <2>1 DEF NoLostPayment, Advanced
  <2>5. Cycle[b] \in Nat
    BY <1>1, SubscriptionConstants
  <2>6. JobAdvances'
    BY <1>1, <1>2, <1>3, <1>4, <1>6, <1>9, <2>1, <2>2, <2>3, <2>5 DEF JobAdvances, Advanced
  <2> QED
    BY <2>4, <2>6
<1>11. AllowanceKept' /\ RenewalBought'
  <2>1. \A x \in Bundle : Usable(bundles[x]) \in Nat
    BY DEF TypeOK, Row, Usable
  <2>2. Usable(row) = 0
    BY <1>3 DEF Usable
  <2>3. \A x \in Bundle : GivenBack(x)' = GivenBack(x)
    BY <1>2 DEF GivenBack
  <2> QED
    BY <2>1, <2>2, <2>3, <1>1, <1>2, <1>4 DEF AllowanceKept, RenewalBought
<1>12. NothingCarriedOver'
  BY <1>1, <1>2, <1>3, <1>4, <1>6 DEF NothingCarriedOver
<1> QED
  BY <1>2, <1>5, <1>7, <1>8, <1>10, <1>11, <1>12

\* Saving the attempt puts the row where the books already are.
LEMMA JobSaveIsSound ==
    ASSUME SavesAreSound, JobSave
    PROVE  SavesAreSound'
<1> DEFINE b == pending.bundle
<1> USE DEF SavesAreSound, JobSave, requestVars, historyVars
<1>1. /\ pending # None /\ b \in Bundle /\ pending.row \in Row
      /\ bundles[b].present /\ pending.row.present /\ Legal(pending.row)
  BY DEF TypeOK, Copy, CopiesLegal
<1>2. bundles' = [bundles EXCEPT ![b] = pending.row] /\ pending' = None
  OBVIOUS
<1>3. TypeOK'
  BY <1>1, <1>2 DEF TypeOK
<1>4. \A x \in Bundle : bundles'[x] = IF x = b THEN pending.row ELSE bundles[x]
  BY <1>1, <1>2 DEF TypeOK
<1>5. \A x \in Bundle : Legal(bundles'[x])
  BY <1>1, <1>4
<1>6. \A x \in due : x.bundle \in Bundle
  BY DEF TypeOK, Copy
<1>7. CopiesLegal' /\ RenewNeverThrows'
  <2>1. \A d \in Cancel : outcome[d] = "saving" => target[d] \in Bundle
    BY DEF CopiesLegal, Copy
  <2> QED
    BY <1>1, <1>2, <1>4, <1>6, <2>1 DEF CopiesLegal, JobIdle, RenewNeverThrows
<1>8. NoFreeCycle' /\ CopiesPaid'
  BY <1>1, <1>2, <1>4 DEF NoFreeCycle, CopiesPaid
<1>9. \A x : CancelSaved(x)' <=> CancelSaved(x)
  BY DEF CancelSaved
<1>10. NoLostPayment' /\ JobAdvances'
  <2>1. \A x \in Bundle : LostWithRuns(x)' = LostWithRuns(x)
    BY DEF LostWithRuns
  <2> QED
    BY <2>1, <1>1, <1>2, <1>4, <1>6, <1>9 DEF NoLostPayment, JobAdvances, Advanced
<1>11. AllowanceKept' /\ RenewalBought'
  <2>1. Usable(pending.row) \in Nat /\ Usable(bundles[b]) \in Nat /\ balance[b] \in Int
    BY <1>1 DEF TypeOK, Row, Usable
  <2>2. \A x \in Bundle : GivenBack(x)' = GivenBack(x) /\ GivenBack(x) \in Nat
    BY GivenBackIsNat DEF GivenBack
  <2> QED
    BY <2>1, <2>2, <1>1, <1>2, <1>4 DEF AllowanceKept, RenewalBought
<1>12. NothingCarriedOver'
  BY <1>1, <1>2, <1>4 DEF NothingCarriedOver
<1> QED
  BY <1>3, <1>5, <1>7, <1>8, <1>10, <1>11, <1>12

\* A run that is cut short forgets its rows and keeps its payments.
LEMMA JobStopsIsSound ==
    ASSUME SavesAreSound, JobStops
    PROVE  SavesAreSound'
<1> USE DEF SavesAreSound, JobStops, requestVars, historyVars
<1>1. TypeOK'
  <2>1. cron' \in BOOLEAN /\ due' \in SUBSET Copy /\ pending' \in Copy \union {None}
    OBVIOUS
  <2>2. failures' \in Nat
    BY DEF TypeOK
  <2> QED
    BY <2>1, <2>2 DEF TypeOK
<1>2. \A x \in Bundle : /\ LostWithRuns(x)' = LostWithRuns(x) + Cycle[x]
                        /\ LostWithRuns(x) \in Nat /\ Cycle[x] \in Nat
                        /\ bundles[x].renewalDate \in Nat /\ paidUntil[x] \in Nat
  <2>1. \A n, k \in Nat : n * (k + 1) = n * k + n
    OBVIOUS
  <2>2. failures \in Nat /\ failures' = failures + 1
    BY DEF TypeOK
  <2> QED
    BY <2>1, <2>2, LostIsNat, SubscriptionConstants DEF LostWithRuns, TypeOK, Row
<1>3. CopiesLegal' /\ RenewNeverThrows' /\ CopiesPaid' /\ RenewalBought'
  BY DEF CopiesLegal, RenewNeverThrows, CopiesPaid, RenewalBought
<1>4. NoLostPayment' /\ JobAdvances'
  <2>1. \A x \in Bundle : CancelSaved(x) \/ paidUntil[x] <= bundles[x].renewalDate + LostWithRuns(x) + Cycle[x]
    BY <1>2 DEF NoLostPayment, JobAdvances, Advanced
  <2>2. \A x \in Bundle : CancelSaved(x)' = CancelSaved(x)
    BY DEF CancelSaved
  <2> QED
    BY <1>2, <2>1, <2>2 DEF NoLostPayment, JobAdvances, Advanced
<1>5. NoFreeCycle' /\ AllowanceKept' /\ NothingCarriedOver'
  BY DEF NoFreeCycle, AllowanceKept, GivenBack, NothingCarriedOver
<1> QED
  BY <1>1, <1>3, <1>4, <1>5

\* Time alone changes no row.
LEMMA NextTickIsSound ==
    ASSUME SavesAreSound, NextTick
    PROVE  SavesAreSound'
<1> USE DEF SavesAreSound, NextTick, requestVars, historyVars
<1>1. TypeOK'
  BY DEF TypeOK, Midnight
<1>2. CopiesLegal' /\ RenewNeverThrows'
  BY DEF CopiesLegal, JobIdle, RenewNeverThrows
<1>3. NoFreeCycle' /\ CopiesPaid'
  BY DEF NoFreeCycle, CopiesPaid
<1>4. NoLostPayment' /\ JobAdvances'
  BY DEF NoLostPayment, JobAdvances, CancelSaved, Advanced, LostWithRuns
<1>5. AllowanceKept' /\ RenewalBought' /\ NothingCarriedOver'
  BY DEF AllowanceKept, RenewalBought, GivenBack, NothingCarriedOver
<1> QED
  BY <1>1, <1>2, <1>3, <1>4, <1>5

-----------------------------------------------------------------------------
(* The invariant is inductive. *)

LEMMA StepIsSound == SavesAreSound /\ [Next]_vars => SavesAreSound'
<1> SUFFICES ASSUME SavesAreSound, [Next]_vars PROVE SavesAreSound'
  OBVIOUS
<1>1. ASSUME NEW b \in Bundle, Create(b) \/ Charge(b) PROVE SavesAreSound'
  BY <1>1, CreateIsSound, ChargeIsSound
<1>2. ASSUME NEW c \in Cancel, NEW b \in Bundle, NEW u \in User, NEW admin \in BOOLEAN,
             CancelRead(c, b, u, admin)
      PROVE  SavesAreSound'
  BY <1>2, CancelReadIsSound
<1>3. ASSUME NEW c \in Cancel, CancelSave(c) \/ CancelFail(c) PROVE SavesAreSound'
  BY <1>3, CancelSaveIsSound, CancelFailIsSound
<1>4. CASE JobStart
  BY <1>4, JobStartIsSound
<1>5. ASSUME NEW c \in due, JobPay(c) PROVE SavesAreSound'
  <2>1. PaymentSucceeds(c) \/ PaymentFails(c)
    BY <1>5 DEF JobPay
  <2> QED
    BY <1>5, <2>1, PaymentSucceedsIsSound, PaymentFailsIsSound
<1>6. CASE JobSave
  BY <1>6, JobSaveIsSound
<1>7. CASE JobStops
  BY <1>7, JobStopsIsSound
<1>8. CASE NextTick
  BY <1>8, NextTickIsSound
<1>9. CASE UNCHANGED vars
  BY <1>9 DEF vars, requestVars, jobVars, historyVars, SavesAreSound, TypeOK, CopiesLegal, JobIdle,
              RenewNeverThrows, NoFreeCycle, CopiesPaid, NoLostPayment, JobAdvances,
              AllowanceKept, RenewalBought, CancelSaved, GivenBack, NothingCarriedOver,
              Advanced, LostWithRuns
<1> QED
  BY <1>1, <1>2, <1>3, <1>4, <1>5, <1>6, <1>7, <1>8, <1>9 DEF Next, JobStep

(***************************************************************************)
(* Every row that is or may come to be saved is legal and paid for.        *)
(***************************************************************************)
THEOREM SoundnessHolds == Spec => []SavesAreSound
  BY InitIsSound, StepIsSound, PTL DEF Spec

(***************************************************************************)
(* The variables keep their types: no charge takes remaining below zero.   *)
(***************************************************************************)
THEOREM TypeCorrect == Spec => []TypeOK
<1>1. SavesAreSound => TypeOK
  BY DEF SavesAreSound
<1> QED
  BY <1>1, SoundnessHolds, PTL

(***************************************************************************)
(* No run of the renewal job is ended by an exception of renew().          *)
(***************************************************************************)
THEOREM RunsNeverThrow == Spec => []RenewNeverThrows
<1>1. SavesAreSound => RenewNeverThrows
  BY DEF SavesAreSound
<1> QED
  BY <1>1, SoundnessHolds, PTL

(***************************************************************************)
(* No bundle is renewed beyond the cycles that were paid for.              *)
(***************************************************************************)
THEOREM CyclesArePaid == Spec => []NoFreeCycle
<1>1. SavesAreSound => NoFreeCycle
  BY DEF SavesAreSound
<1> QED
  BY <1>1, SoundnessHolds, PTL

(***************************************************************************)
(* Without a cancellation, every payment advances its bundle, but for one  *)
(* for each run that was cut short.                                        *)
(***************************************************************************)
THEOREM PaymentsAdvance == Spec => []NoLostPayment
<1>1. SavesAreSound => NoLostPayment
  BY DEF SavesAreSound
<1> QED
  BY <1>1, SoundnessHolds, PTL

(***************************************************************************)
(* The renewal job's unlocked saves never give away a message, and those   *)
(* of the cancellations no more than a cycle's messages each.              *)
(***************************************************************************)
THEOREM AllowanceHolds == Spec => []AllowanceKept
<1>1. SavesAreSound => AllowanceKept
  BY DEF SavesAreSound
<1> QED
  BY <1>1, SoundnessHolds, PTL
-----------------------------------------------------------------------------
(* What becomes of a cancelled bundle. *)

\* A bundle that is settled stays so, and its books stay as they are.
SettledStep(b) == Settled(b) => Settled(b)' /\ paidUntil'[b] = paidUntil[b]

\* Requests never take a cancellation back: what a later one saves is cancelled.
LEMMA RequestsKeepSettled ==
    ASSUME SavesAreSound, NEW b \in Bundle, Settled(b), [Next]_vars
    PROVE  (Settled(b)' /\ paidUntil'[b] = paidUntil[b]) \/ JobStep \/ JobStops
<1> USE DEF SavesAreSound
<1>1. bundles[b].cancelled /\ bundles[b].present
  BY DEF Settled, Legal
<1>2. ASSUME UNCHANGED jobVars, bundles'[b].cancelled, paidUntil'[b] = paidUntil[b]
      PROVE  Settled(b)' /\ paidUntil'[b] = paidUntil[b]
  BY <1>2 DEF Settled, jobVars
<1>3. ASSUME NEW x \in Bundle, Create(x) PROVE Settled(b)' /\ paidUntil'[b] = paidUntil[b]
  BY <1>1, <1>2, <1>3 DEF Create, TypeOK
<1>4. ASSUME NEW x \in Bundle, Charge(x) PROVE Settled(b)' /\ paidUntil'[b] = paidUntil[b]
  BY <1>1, <1>2, <1>4 DEF Charge, TypeOK, Row
<1>5. ASSUME NEW c \in Cancel, CancelSave(c) PROVE Settled(b)' /\ paidUntil'[b] = paidUntil[b]
  <2>1. copy[c].row \in Row
    BY <1>5 DEF CancelSave, CopiesLegal, Copy
  <2>2. bundles'[b].cancelled
    BY <1>1, <1>5, <2>1, CancelledRow DEF CancelSave, TypeOK
  <2> QED
    BY <1>2, <1>5, <2>2 DEF CancelSave, historyVars
<1>6. CASE UNCHANGED <<bundles, due, pending, paidUntil>>
  BY <1>1, <1>6 DEF Settled
<1> QED
  BY <1>3, <1>4, <1>5, <1>6
     DEF Next, CancelRead, CancelFail, NextTick, jobVars, historyVars, vars

\* The job pays and saves what it has read, and it reads no cancelled row.
LEMMA JobKeepsSettled ==
    ASSUME SavesAreSound, NEW b \in Bundle, Settled(b), JobStep \/ JobStops
    PROVE  Settled(b)' /\ paidUntil'[b] = paidUntil[b]
<1> USE DEF SavesAreSound, Settled
<1>1. ~IsDue(b)
  BY DEF IsDue, Legal
<1>2. CASE JobStart
  <2>1. \A c \in due' : c.bundle # b
    BY <1>1, <1>2 DEF JobStart, CopyOf
  <2> QED
    BY <1>2, <2>1 DEF JobStart, historyVars
<1>3. ASSUME NEW c \in due, JobPay(c) PROVE Settled(b)' /\ paidUntil'[b] = paidUntil[b]
  <2>1. c.bundle # b /\ c.bundle \in Bundle
    BY DEF TypeOK, Copy
  <2>2. due' \subseteq due /\ (pending' # None => pending'.bundle = c.bundle)
    BY <1>3 DEF JobPay, PaymentSucceeds, PaymentFails
  <2>3. paidUntil'[b] = paidUntil[b] /\ UNCHANGED bundles
    BY <1>3, <2>1 DEF JobPay, PaymentSucceeds, PaymentFails, historyVars, TypeOK
  <2> QED
    BY <2>1, <2>2, <2>3
<1>4. CASE JobSave
  BY <1>4 DEF JobSave, historyVars, TypeOK, Copy
<1>5. CASE JobStops
  BY <1>5 DEF JobStops, historyVars
<1> QED
  BY <1>2, <1>3, <1>4, <1>5 DEF JobStep

(***************************************************************************)
(* A bundle that stands cancelled when no run has read it before is never  *)
(* renewed, nor paid for, again.                                           *)
(***************************************************************************)
THEOREM CancellationLasts == Spec => NoFutureRenewal
<1>1. SavesAreSound /\ [Next]_vars => \A b \in Bundle : SettledStep(b)
  BY RequestsKeepSettled, JobKeepsSettled DEF SettledStep
<1>2. SavesAreSound /\ [Next]_vars =>
          [\A b \in Bundle : Settled(b) => Settled(b)' /\ paidUntil'[b] = paidUntil[b]]_vars
  BY <1>1 DEF SettledStep
<1> QED
  BY <1>2, SoundnessHolds, PTL DEF Spec, NoFutureRenewal
-----------------------------------------------------------------------------
(* How late the job may be. *)

LastMidnight == tick - (tick % TicksPerDay)

\* What the runs that were cut short excuse.
Excused == TicksPerDay * failures

Renews(row) == row.active /\ row.autoRenew

\* At the last midnight no row was overdue by more than what is excused, but for
\* those the run has yet to handle; and these for no more than a day longer.
OnTime ==
    /\ cron => LastMidnight = tick
    /\ \A b \in Bundle : Renews(bundles[b]) =>
           LastMidnight - bundles[b].renewalDate < Excused + TicksPerDay
    /\ ~cron => \A b \in Bundle : Renews(bundles[b]) =>
           \/ LastMidnight - bundles[b].renewalDate < Excused
           \/ \E c \in due : c.bundle = b
           \/ pending # None /\ pending.bundle = b
    /\ \A c \in due : LastMidnight - c.row.renewalDate < Excused + TicksPerDay
    /\ pending # None /\ pending.row.active => LastMidnight - pending.row.renewalDate < Excused

\* From one midnight to the next it is a day.
LEMMA Midnights ==
    ASSUME NEW t \in Nat, NEW d \in Nat \ {0}
    PROVE  /\ t % d \in 0..(d - 1)
           /\ (t + 1) % d = 0 => t % d = d - 1
           /\ (t + 1) % d # 0 => (t + 1) % d = (t % d) + 1
<1> DEFINE r == t % d
           q == t \div d
           s == (t + 1) % d
           p == (t + 1) \div d
<1>1. r \in 0..(d - 1) /\ q \in Int /\ t = d * q + r
  OBVIOUS
<1>2. s \in 0..(d - 1) /\ p \in Int /\ t + 1 = d * p + s
  OBVIOUS
<1> HIDE DEF r, q, s, p
<1>3. d * p - d * q = r + 1 - s
  BY <1>1, <1>2
<1>4. d * (p - q) = d * p - d * q
  BY <1>1, <1>2
<1>5. p - q = 0 \/ p - q = 1
  <2> DEFINE k == p - q
  <2>1. k \in Int /\ d * k = r + 1 - s
    BY <1>1, <1>2, <1>3, <1>4
  <2> HIDE DEF k
  <2>2. k >= 2 => d * k >= 2 * d
    BY <2>1
  <2>3. k <= -1 => d * k <= -d
    BY <2>1
  <2>4. k = 0 \/ k = 1
    BY <2>1, <2>2, <2>3, <1>1, <1>2
  <2> QED
    BY <2>4 DEF k
<1>6. r + 1 - s = 0 \/ r + 1 - s = d
  BY <1>1, <1>2, <1>3, <1>4, <1>5
<1>7. r \in 0..(d - 1) /\ (s = 0 => r = d - 1) /\ (s # 0 => s = r + 1)
  BY <1>1, <1>2, <1>6
<1> QED
  BY <1>7 DEF r, s

LEMMA Times ==
    ASSUME TypeOK
    PROVE  /\ LastMidnight \in Int /\ LastMidnight <= tick /\ tick < LastMidnight + TicksPerDay
           /\ Excused \in Nat
           /\ TicksPerDay * (1 + failures) = Excused + TicksPerDay
           /\ \A b \in Bundle : bundles[b].renewalDate \in Nat
           /\ \A c \in due : c.bundle \in Bundle /\ c.row \in Row /\ c.row.renewalDate \in Nat
           /\ pending # None => pending.bundle \in Bundle /\ pending.row \in Row
           /\ pending # None => pending.row.renewalDate \in Nat
<1>1. tick % TicksPerDay \in 0..(TicksPerDay - 1)
  BY Midnights, SubscriptionConstants DEF TypeOK
<1>2. Excused \in Nat /\ TicksPerDay * (1 + failures) = Excused + TicksPerDay
  BY SubscriptionConstants DEF TypeOK, Excused
<1> QED
  BY <1>1, <1>2, SubscriptionConstants DEF TypeOK, LastMidnight, Row, Copy

\* Rows that are due no earlier than they were, and none that is new to the job.
LEMMA RequestsAreOnTime ==
    ASSUME SavesAreSound, OnTime, TypeOK', UNCHANGED <<tick, jobVars, failures>>,
           \A b \in Bundle : Renews(bundles'[b]) =>
               \/ bundles'[b].renewalDate > tick
               \/ Renews(bundles[b]) /\ bundles'[b].renewalDate = bundles[b].renewalDate
    PROVE  OnTime'
<1>1. LastMidnight' = LastMidnight /\ Excused' = Excused
  BY DEF LastMidnight, Excused
<1>2. TypeOK /\ TicksPerDay \in Nat /\ \A b \in Bundle : bundles'[b].renewalDate \in Nat
  BY SubscriptionConstants DEF SavesAreSound, TypeOK, Row
<1>3. tick \in Nat
  BY <1>2 DEF TypeOK
<1> QED
  BY <1>1, <1>2, <1>3, Times DEF OnTime, jobVars

LEMMA OnTimeInit == Init => OnTime
  BY DEF Init, OnTime, NoRow, Renews

LEMMA JobIsOnTime ==
    ASSUME SavesAreSound, OnTime, JobStep
    PROVE  OnTime'
<1> TypeOK /\ TicksPerDay \in Nat \ {0}
  BY SubscriptionConstants DEF SavesAreSound
<1> USE Times
<1>1. LastMidnight' = LastMidnight /\ Excused' = Excused /\ failures' = failures
  BY DEF JobStep, JobStart, JobPay, JobSave, LastMidnight, Excused
<1>2. CASE JobStart
  <2>1. /\ pending = None /\ pending' = None /\ ~cron' /\ LastMidnight = tick
        /\ bundles' = bundles
    BY <1>2 DEF JobStart, SavesAreSound, CopiesLegal, JobIdle, OnTime
  <2>2. \A c \in due' : /\ c.bundle \in Bundle /\ c.row = bundles[c.bundle]
                        /\ Renews(bundles[c.bundle])
    BY <1>2 DEF JobStart, CopyOf, IsDue, Renews
  <2>3. \A b \in Bundle : Renews(bundles[b]) =>
            bundles[b].renewalDate > tick \/ \E c \in due' : c.bundle = b
    <3> SUFFICES ASSUME NEW b \in Bundle, Renews(bundles[b]), ~(bundles[b].renewalDate > tick)
                 PROVE  \E c \in due' : c.bundle = b
      OBVIOUS
    <3>1. IsDue(b)
      BY DEF IsDue, Renews, TypeOK
    <3>2. CopyOf(b) \in due'
      BY <1>2, <3>1 DEF JobStart
    <3> QED
      BY <3>2 DEF CopyOf
  <2> QED
    BY <1>1, <2>1, <2>2, <2>3 DEF OnTime
<1>3. ASSUME NEW c \in due, JobPay(c) PROVE OnTime'
  <2>1. c.row \in Row /\ c.bundle \in Bundle /\ pending = None /\ ~cron /\ ~RenewThrows(c.row)
    BY <1>3 DEF JobPay, SavesAreSound, CopiesLegal, JobIdle, RenewNeverThrows
  <2>2. /\ due' = due \ {c} /\ bundles' = bundles /\ ~cron'
        /\ pending' # None /\ pending'.bundle = c.bundle
        /\ pending'.row = Renewed(c.bundle, c.row) \/ pending'.row = Deactivated(c.row)
    <3>1. \A b, row : [bundle |-> b, row |-> row].bundle = b /\ [bundle |-> b, row |-> row].row = row
      OBVIOUS
    <3>2. Renewed(c.bundle, c.row) \in Row /\ Deactivated(c.row) \in Row
      BY <2>1, RenewedRow, DeactivatedRow
    <3>3. /\ [bundle |-> c.bundle, row |-> Renewed(c.bundle, c.row)] # None
          /\ [bundle |-> c.bundle, row |-> Deactivated(c.row)] # None
      BY <2>1, <3>2, NoneIsNoCopy DEF Copy
    <3> QED
      BY <1>3, <2>1, <3>1, <3>3 DEF JobPay, PaymentSucceeds, PaymentFails
  <2>3. pending'.row.active => pending'.row.renewalDate >= c.row.renewalDate + TicksPerDay
    <3>1. Cycle[c.bundle] \in Nat /\ Cycle[c.bundle] >= TicksPerDay /\ c.row.renewalDate \in Nat
      BY <2>1, SubscriptionConstants DEF Row
    <3> QED
      BY <2>1, <2>2, <3>1, RenewedRow, DeactivatedRow
  <2>4. pending'.row.active => pending'.row.renewalDate \in Nat
    BY <2>1, <2>2, RenewedRow, DeactivatedRow DEF Row
  <2>5. pending'.row.active => LastMidnight - pending'.row.renewalDate < Excused
    BY <2>1, <2>3, <2>4 DEF OnTime, Row
  <2> QED
    BY <1>1, <2>1, <2>2, <2>5 DEF OnTime
<1>4. CASE JobSave
  <2>1. /\ pending # None /\ pending.bundle \in Bundle /\ pending' = None /\ due' = due
        /\ ~cron /\ ~cron'
    BY <1>4 DEF JobSave, SavesAreSound, CopiesLegal, JobIdle
  <2>2. \A b \in Bundle : bundles'[b] = IF b = pending.bundle THEN pending.row ELSE bundles[b]
    BY <1>4, <2>1 DEF JobSave, TypeOK
  <2>3. Renews(pending.row) => LastMidnight - pending.row.renewalDate < Excused
    BY <2>1 DEF OnTime, Renews
  <2> QED
    BY <1>1, <2>1, <2>2, <2>3 DEF OnTime
<1> QED
  BY <1>2, <1>3, <1>4 DEF JobStep

LEMMA StopIsOnTime ==
    ASSUME SavesAreSound, OnTime, JobStops
    PROVE  OnTime'
<1>1. TypeOK /\ TicksPerDay \in Nat \ {0}
  BY SubscriptionConstants DEF SavesAreSound
<1>2. Excused' = Excused + TicksPerDay
  BY <1>1 DEF JobStops, Excused, TypeOK
<1>3. LastMidnight' = LastMidnight
  BY DEF JobStops, LastMidnight
<1>4. bundles' = bundles /\ ~cron' /\ due' = {} /\ pending' = None
  BY DEF JobStops
<1> QED
  BY <1>1, <1>2, <1>3, <1>4, Times DEF OnTime

LEMMA TickIsOnTime ==
    ASSUME SavesAreSound, OnTime, NextTick
    PROVE  OnTime'
<1>1. TypeOK /\ TicksPerDay \in Nat \ {0} /\ tick \in Nat
  BY SubscriptionConstants DEF SavesAreSound, TypeOK
<1>2. Excused' = Excused
  BY DEF NextTick, Excused
<1>3. UNCHANGED <<bundles, due, pending>> /\ tick' = tick + 1 /\ ~cron
  BY DEF NextTick
<1> DEFINE r == tick % TicksPerDay
           s == (tick + 1) % TicksPerDay
<1>0. /\ r \in 0..(TicksPerDay - 1)
      /\ s = 0 => r = TicksPerDay - 1
      /\ s # 0 => s = r + 1
      /\ LastMidnight = tick - r /\ LastMidnight' = tick + 1 - s
      /\ Midnight(tick + 1) <=> s = 0
  <2>1. r \in 0..(TicksPerDay - 1) /\ (s = 0 => r = TicksPerDay - 1) /\ (s # 0 => s = r + 1)
    BY <1>1, Midnights
  <2>2. LastMidnight = tick - r /\ LastMidnight' = tick + 1 - s
    BY <1>1, <1>3 DEF LastMidnight
  <2>3. Midnight(tick + 1) <=> s = 0
    BY DEF Midnight
  <2> QED
    BY <2>1, <2>2, <2>3
<1> HIDE DEF r, s
<1>4. CASE Midnight(tick + 1)
  <2>1. LastMidnight' = tick + 1 /\ LastMidnight' = LastMidnight + TicksPerDay
    BY <1>0, <1>1, <1>4
  <2>2. cron' /\ JobIdle
    BY <1>4 DEF NextTick
  <2> QED
    BY <1>1, <1>2, <1>3, <2>1, <2>2, Times DEF OnTime, JobIdle
<1>5. CASE ~Midnight(tick + 1)
  <2>1. s \in Int /\ LastMidnight' = LastMidnight
    BY <1>0, <1>1, <1>5
  <2>2. ~cron'
    BY <1>5 DEF NextTick
  <2> QED
    BY <1>2, <1>3, <2>1, <2>2 DEF OnTime
<1> QED
  BY <1>4, <1>5

\* What a request does to the rows leaves the job no later than it was.
LEMMA RequestStepsAreOnTime ==
    ASSUME SavesAreSound, SavesAreSound', OnTime, [Next]_vars
    PROVE  OnTime' \/ JobStep \/ JobStops \/ NextTick
<1> DEFINE kept(b) == \/ bundles'[b].renewalDate > tick
                      \/ /\ Renews(bundles[b])
                         /\ bundles'[b].renewalDate = bundles[b].renewalDate
<1>1. TypeOK /\ TypeOK'
  BY DEF SavesAreSound
<1>2. ASSUME NEW b \in Bundle, Create(b) PROVE OnTime'
  <2>1. Cycle[b] \in Nat \ {0} /\ tick \in Nat
    BY <1>1, SubscriptionConstants DEF TypeOK
  <2>2. \A x \in Bundle : Renews(bundles'[x]) => kept(x)
    BY <1>1, <1>2, <2>1 DEF Create, NewRow, Renews, TypeOK
  <2> QED
    BY <1>1, <1>2, <2>2, RequestsAreOnTime DEF Create
<1>3. ASSUME NEW b \in Bundle, Charge(b) PROVE OnTime'
  <2>1. \A x \in Bundle : Renews(bundles'[x]) => kept(x)
    BY <1>1, <1>3 DEF Charge, Renews, TypeOK, Row
  <2> QED
    BY <1>1, <1>3, <2>1, RequestsAreOnTime DEF Charge
<1>4. ASSUME bundles' = bundles, UNCHANGED <<tick, jobVars, failures>> PROVE OnTime'
  BY <1>1, <1>4, RequestsAreOnTime
<1>5. ASSUME NEW c \in Cancel, CancelSave(c) PROVE OnTime'
  <2>1. copy[c].row \in Row /\ target[c] \in Bundle
    BY <1>5 DEF CancelSave, SavesAreSound, CopiesLegal, Copy
  <2>2. ~Renews(Cancelled(copy[c].row))
    BY <2>1, CancelledRow DEF Renews
  <2>3. \A x \in Bundle : Renews(bundles'[x]) => kept(x)
    BY <1>1, <1>5, <2>1, <2>2 DEF CancelSave, TypeOK
  <2> QED
    BY <1>1, <1>5, <2>3, RequestsAreOnTime DEF CancelSave
<1> QED
  BY <1>2, <1>3, <1>4, <1>5 DEF Next, CancelRead, CancelFail, vars

LEMMA OnTimeStep == SavesAreSound /\ SavesAreSound' /\ OnTime /\ [Next]_vars => OnTime'
  BY RequestStepsAreOnTime, JobIsOnTime, StopIsOnTime, TickIsOnTime

(***************************************************************************)
(* No bundle escapes the renewal job: between two runs it has been due for *)
(* less than a day, and a day more for every run that was cut short.       *)
(***************************************************************************)
THEOREM NothingIsOverdue == Spec => []OverdueOnlyByFailure
<1>1. SavesAreSound /\ OnTime => OverdueOnlyByFailure
  <2> SUFFICES ASSUME SavesAreSound, OnTime, JobIdle, NEW b \in Bundle, IsDue(b)
               PROVE  tick - bundles[b].renewalDate < TicksPerDay * (1 + failures)
    BY DEF OverdueOnlyByFailure
  <2>1. TypeOK /\ tick \in Nat /\ TicksPerDay \in Nat /\ Renews(bundles[b])
    BY SubscriptionConstants DEF SavesAreSound, TypeOK, IsDue, Renews
  <2> QED
    BY <2>1, Times DEF OnTime, JobIdle
<1> QED
  BY <1>1, OnTimeInit, OnTimeStep, SoundnessHolds, PTL DEF Spec

=============================================================================
