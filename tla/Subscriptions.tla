---------------------------- MODULE Subscriptions ----------------------------
(***************************************************************************)
(* The life of subscription bundles: created and cancelled by requests,    *)
(* renewed or deactivated by a job that runs every midnight, and charged   *)
(* by chat messages.  Cancellation and renewal read a row, compute a new   *)
(* one and save the WHOLE row later, with no lock and no version check, so *)
(* whatever was committed in between is overwritten.                       *)
(*                                                                         *)
(* A charge is one step here: that the transaction behind it behaves so is *)
(* what QuotaTransaction shows.                                            *)
(***************************************************************************)
EXTENDS QuotaRules, Integers, FiniteSets

CONSTANTS
    Cancel,       \* the cancellation requests that are ever made
    Cycle,        \* the length of each bundle's billing cycle, in ticks
    TicksPerDay,  \* the clock's resolution: ticks from one midnight to the next
    LastTick,     \* bound: the clock runs over 0..LastTick
    MaxFailures,  \* bound: how many runs of the renewal job may be cut short
    None          \* no copy of a row

ASSUME SubscriptionConstants ==
    /\ IsFiniteSet(Cancel)
    /\ TicksPerDay \in Nat \ {0}
    /\ Cycle \in [Bundle -> Nat]
    /\ \A b \in Bundle : Cycle[b] >= TicksPerDay
    /\ LastTick \in Nat
    /\ MaxFailures \in Nat

VARIABLES
    tick,       \* the server's clock; the multiples of TicksPerDay are midnights
    bundles,    \* the subscription_bundles rows
    target,     \* the bundle each cancellation was admitted for
    copy,       \* the row a cancellation has read and is about to save
    outcome,    \* the answer to each cancellation
    cron,       \* the midnight run has been triggered and has not queried yet
    due,        \* the rows of the run's findDueForRenewal not yet attempted
    pending,    \* the attempted row, paid or declined, not yet saved
    paidUntil,  \* history: the end of the cycles paid for each bundle
    balance,    \* history: the messages bought with a bundle less those sent
    failures    \* how many runs were cut short

requestVars == <<target, copy, outcome>>
jobVars == <<cron, due, pending>>
historyVars == <<paidUntil, balance>>
vars == <<tick, bundles, requestVars, jobVars, historyVars, failures>>

Row == [present     : BOOLEAN,
        active      : BOOLEAN,
        remaining   : Nat,
        renewalDate : Nat,
        autoRenew   : BOOLEAN,
        cancelled   : BOOLEAN]

NoRow == [present |-> FALSE, active |-> FALSE, remaining |-> 0,
          renewalDate |-> 0, autoRenew |-> FALSE, cancelled |-> FALSE]

\* A row in the memory of the server, with the id it will be saved under.
Copy == [bundle : Bundle, row : Row]

ASSUME NoneIsNoCopy == None \notin Copy

CopyOf(b) == [bundle |-> b, row |-> bundles[b]]

Midnight(t) == t % TicksPerDay = 0

JobIdle == due = {} /\ pending = None

Init ==
    /\ tick = 0
    /\ bundles = [b \in Bundle |-> NoRow]
    /\ target = [c \in Cancel |-> None]
    /\ copy = [c \in Cancel |-> None]
    /\ outcome = [c \in Cancel |-> "none"]
    /\ cron = FALSE
    /\ due = {}
    /\ pending = None
    /\ paidUntil = [b \in Bundle |-> 0]
    /\ balance = [b \in Bundle |-> 0]
    /\ failures = 0

-----------------------------------------------------------------------------
(* The entity's transitions; endDate always equals renewalDate.             *)

NewRow(b) == [present     |-> TRUE,
              active      |-> TRUE,
              remaining   |-> InitialRemaining(b),
              renewalDate |-> tick + Cycle[b],
              autoRenew   |-> TRUE,
              cancelled   |-> FALSE]

Cancelled(row) == [row EXCEPT !.autoRenew = FALSE, !.cancelled = TRUE]

\* Plausible bug: a declined payment has no effect on the bundle.
Unchanged(row) == row

Deactivated(row) == [row EXCEPT !.active = FALSE]

RenewThrows(row) == ~row.active \/ row.cancelled

\* Plausible bug: the unused messages are carried over.
RenewedCarryingOver(b, row) ==
    [row EXCEPT !.remaining = @ + InitialRemaining(b), !.renewalDate = @ + Cycle[b]]

\* Plausible bug: the new cycle starts when the job runs.
RenewedFromNow(b, row) ==
    [row EXCEPT !.remaining = InitialRemaining(b), !.renewalDate = tick + Cycle[b]]

\* Plausible bug: the quota is refreshed and the dates are not.
RenewedInPlace(b, row) == [row EXCEPT !.remaining = InitialRemaining(b)]

\* The new cycle starts where the old one ended, however late the job runs.
Renewed(b, row) ==
    [row EXCEPT !.remaining = InitialRemaining(b), !.renewalDate = @ + Cycle[b]]

-----------------------------------------------------------------------------
(* Requests. *)

Create(b) ==
    /\ ~bundles[b].present
    /\ bundles' = [bundles EXCEPT ![b] = NewRow(b)]
    /\ paidUntil' = [paidUntil EXCEPT ![b] = tick + Cycle[b]]
    /\ balance' = [balance EXCEPT ![b] = InitialRemaining(b)]
    /\ UNCHANGED <<tick, requestVars, jobVars, failures>>

Answer(c, o) == outcome' = [outcome EXCEPT ![c] = o]

Reject(c, error) == Answer(c, error) /\ UNCHANGED <<target, copy>>

\* CancelSubscriptionUseCase up to its save: findById, and the checks on the
\* row it returned.  The caller is u, with or without the admin role.
CancelRead(c, b, u, admin) ==
    /\ outcome[c] = "none"
    /\ LET row == bundles[b]
           allowed == admin \/ Owner[b] = u
       IN  \/ ~row.present /\ Reject(c, "notFound")
           \/ row.present /\ ~allowed /\ Reject(c, "forbidden")
           \/ row.present /\ allowed /\ ~row.active /\ Reject(c, "notActive")
           \/ /\ row.present /\ allowed /\ row.active /\ row.cancelled
              /\ Reject(c, "alreadyCancelled")
           \/ /\ row.present /\ allowed /\ row.active /\ ~row.cancelled
              /\ target' = [target EXCEPT ![c] = b]
              /\ copy' = [copy EXCEPT ![c] = CopyOf(b)]
              /\ Answer(c, "saving")
    /\ UNCHANGED <<tick, bundles, jobVars, historyVars, failures>>

\* bundleRepo.save writes every column back from the copy; 204 follows.
CancelSave(c) ==
    /\ outcome[c] = "saving"
    /\ bundles' = [bundles EXCEPT ![target[c]] = Cancelled(copy[c].row)]
    /\ copy' = [copy EXCEPT ![c] = None]
    /\ Answer(c, "cancelled")
    /\ UNCHANGED <<tick, target, jobVars, historyVars, failures>>

\* The save rejects, or the process stops: nothing is written.
CancelFail(c) ==
    /\ outcome[c] = "saving"
    /\ copy' = [copy EXCEPT ![c] = None]
    /\ Answer(c, "failed")
    /\ UNCHANGED <<tick, bundles, target, jobVars, historyVars, failures>>

\* A chat message paid by b.  No date is looked at, only active and remaining.
Charge(b) ==
    /\ bundles[b].active
    /\ ~IsUnlimitedTier(TierOf[b])
    /\ bundles[b].remaining > 0
    /\ bundles' = [bundles EXCEPT ![b].remaining = @ - 1]
    /\ balance' = [balance EXCEPT ![b] = @ - 1]
    /\ UNCHANGED <<tick, requestVars, jobVars, paidUntil, failures>>

-----------------------------------------------------------------------------
(* RenewalJob.runRenewals. *)

\* Plausible bug: the query leaves out autoRenew.
IsDueWhenActive(b) == bundles[b].active /\ bundles[b].renewalDate <= tick

\* The where clause of findDueForRenewal.
IsDue(b) ==
    bundles[b].active /\ bundles[b].autoRenew /\ bundles[b].renewalDate <= tick

JobStart ==
    /\ cron
    /\ cron' = FALSE
    /\ due' = {CopyOf(b) : b \in {x \in Bundle : IsDue(x)}}
    /\ UNCHANGED <<tick, bundles, requestVars, pending, historyVars, failures>>

\* The payment goes through, and is kept whatever becomes of the renewal;
\* an exception in renew() would end the whole run.
PaymentSucceeds(c) ==
    /\ due' = IF RenewThrows(c.row) THEN {} ELSE due \ {c}
    /\ pending' = IF RenewThrows(c.row) THEN None
                  ELSE [bundle |-> c.bundle, row |-> Renewed(c.bundle, c.row)]
    /\ paidUntil' = [paidUntil EXCEPT ![c.bundle] = @ + Cycle[c.bundle]]
    /\ balance' = [balance EXCEPT ![c.bundle] = @ + InitialRemaining(c.bundle)]

PaymentFails(c) ==
    /\ due' = due \ {c}
    /\ pending' = [bundle |-> c.bundle, row |-> Deactivated(c.row)]
    /\ UNCHANGED historyVars

\* attemptRenewal on the next row of the list; no ORDER BY fixes which.
JobPay(c) ==
    /\ pending = None
    /\ PaymentSucceeds(c) \/ PaymentFails(c)
    /\ UNCHANGED <<tick, bundles, requestVars, cron, failures>>

JobSave ==
    /\ pending # None
    /\ bundles' = [bundles EXCEPT ![pending.bundle] = pending.row]
    /\ pending' = None
    /\ UNCHANGED <<tick, requestVars, cron, due, historyVars, failures>>

\* The process is down at midnight or stops during the run, or a save rejects
\* and the exception ends the loop.  Nothing takes the run up again.
JobStops ==
    /\ cron \/ ~JobIdle
    /\ failures < MaxFailures
    /\ failures' = failures + 1
    /\ cron' = FALSE
    /\ due' = {}
    /\ pending' = None
    /\ UNCHANGED <<tick, bundles, requestVars, historyVars>>

\* A run starts at midnight and is over before the next one.
NextTick ==
    /\ tick < LastTick
    /\ ~cron
    /\ Midnight(tick + 1) => JobIdle
    /\ tick' = tick + 1
    /\ cron' = Midnight(tick + 1)
    /\ UNCHANGED <<bundles, requestVars, due, pending, historyVars, failures>>

-----------------------------------------------------------------------------
JobStep == JobStart \/ (\E c \in due : JobPay(c)) \/ JobSave

Next ==
    \/ \E b \in Bundle : Create(b) \/ Charge(b)
    \/ \E c \in Cancel, b \in Bundle, u \in User, admin \in BOOLEAN :
           CancelRead(c, b, u, admin)
    \/ \E c \in Cancel : CancelSave(c) \/ CancelFail(c)
    \/ JobStep
    \/ JobStops
    \/ NextTick

Spec == Init /\ [][Next]_vars

\* The scheduler fires, the run goes on as long as nothing stops it, and time
\* passes.  Nobody has to cancel, to create or to chat.
FairSpec == Spec /\ WF_vars(JobStep) /\ WF_vars(NextTick)

-----------------------------------------------------------------------------
Outcome == {"none", "notFound", "forbidden", "notActive", "alreadyCancelled",
            "saving", "cancelled", "failed"}

TypeOK ==
    /\ tick \in Nat
    /\ bundles \in [Bundle -> Row]
    /\ target \in [Cancel -> Bundle \union {None}]
    /\ copy \in [Cancel -> Copy \union {None}]
    /\ outcome \in [Cancel -> Outcome]
    /\ cron \in BOOLEAN
    /\ due \in SUBSET Copy
    /\ pending \in Copy \union {None}
    /\ paidUntil \in [Bundle -> Nat]
    /\ balance \in [Bundle -> Int]
    /\ failures \in Nat

\* The messages a row can pay for, an unlimited tier aside.
Usable(row) == IF row.active THEN row.remaining ELSE 0

\* Some cancellation of b has been answered with 204.
CancelSaved(b) == \E c \in Cancel : target[c] = b /\ outcome[c] = "cancelled"

\* The most messages the cancellations of b can have given back with the rows
\* they wrote: each no more than a cycle has.
GivenBack(b) ==
    InitialRemaining(b) * Cardinality({c \in Cancel : target[c] = b /\ outcome[c] = "cancelled"})

(***************************************************************************)
(* renew() never throws (subscription-bundle.ts:95-100), however requests  *)
(* race with the job: every row the job holds may still be renewed.  A     *)
(* throw would end the run after the payment, for all other bundles too.   *)
(***************************************************************************)
RenewNeverThrows == \A c \in due : ~RenewThrows(c.row)

(***************************************************************************)
(* No cycle is free: a bundle's renewalDate never lies beyond the cycles   *)
(* that were paid for, whichever stale copy was saved last and however     *)
(* late the job ran.                                                       *)
(***************************************************************************)
NoFreeCycle == \A b \in Bundle : bundles[b].renewalDate <= paidUntil[b]

\* The most that the runs cut short can have lost of what b has paid.
LostWithRuns(b) == Cycle[b] * failures

Advanced(b, row) == paidUntil[b] <= row.renewalDate + LostWithRuns(b)

(***************************************************************************)
(* No payment is lost: outside an unsaved attempt, a bundle has advanced   *)
(* by the cycles that were paid, but for one cycle for each run that was   *)
(* cut short, unless a cancellation has written back an older row.         *)
(***************************************************************************)
NoLostPayment ==
    \A b \in Bundle :
        \/ CancelSaved(b)
        \/ pending # None /\ pending.bundle = b
        \/ Advanced(b, bundles[b])

(***************************************************************************)
(* The messages a bundle can still pay for were bought and not yet sent:   *)
(* the unlocked saves of the renewal job give nothing away, although they  *)
(* overwrite charges made since the job read the row.  Only a cancellation *)
(* can (see CancelOnlyCancels), and not even one that races with renewals  *)
(* gives back more than the messages of one cycle.                         *)
(***************************************************************************)
AllowanceKept == \A b \in Bundle : Usable(bundles[b]) <= balance[b] + GivenBack(b)

(* The parts of the inductive invariant below. *)

\* A row, wherever it is, that can be saved without breaking the table.
Legal(row) ==
    /\ row.active \/ row.autoRenew \/ row.cancelled => row.present
    /\ row.cancelled => ~row.autoRenew

\* The rows in memory are those of present bundles, a run has one of each, and
\* runs do not overlap.
CopiesLegal ==
    /\ cron => JobIdle
    /\ \A c \in Cancel : outcome[c] = "saving" =>
           /\ copy[c] \in Copy /\ copy[c].bundle = target[c]
           /\ bundles[target[c]].present /\ copy[c].row.present /\ Legal(copy[c].row)
    /\ \A c \in due :
           /\ bundles[c.bundle].present /\ c.row.present /\ c.row.autoRenew
           /\ \A d \in due : c.bundle = d.bundle => c = d
           /\ pending # None => c.bundle # pending.bundle
    /\ pending # None =>
           bundles[pending.bundle].present /\ pending.row.present /\ Legal(pending.row)

\* No row in memory lies beyond the cycles that were paid for.
CopiesPaid ==
    /\ \A c \in Cancel : outcome[c] = "saving" => copy[c].row.renewalDate <= paidUntil[target[c]]
    /\ \A c \in due : c.row.renewalDate <= paidUntil[c.bundle]
    /\ pending # None => pending.row.renewalDate <= paidUntil[pending.bundle]

\* The job's rows stand where its payments say, as the table does, which lags
\* behind by one payment more while that is not saved.
JobAdvances ==
    /\ \A c \in due : CancelSaved(c.bundle) \/ Advanced(c.bundle, c.row)
    /\ pending # None =>
           LET b == pending.bundle
           IN  \/ CancelSaved(b)
               \/ /\ Advanced(b, pending.row)
                  /\ paidUntil[b] <= bundles[b].renewalDate + LostWithRuns(b) + Cycle[b]

\* No row, in the table or in memory, has more messages than a new cycle.
NothingCarriedOver ==
    /\ \A b \in Bundle : bundles[b].remaining <= InitialRemaining(b)
    /\ \A c \in Cancel : outcome[c] = "saving" =>
           copy[c].row.remaining <= InitialRemaining(target[c])
    /\ \A c \in due : c.row.remaining <= InitialRemaining(c.bundle)
    /\ pending # None => pending.row.remaining <= InitialRemaining(pending.bundle)

\* A renewal that is still to be saved was bought on top of what is usable now.
RenewalBought ==
    pending # None =>
        Usable(pending.row) + Usable(bundles[pending.bundle])
            <= balance[pending.bundle] + GivenBack(pending.bundle)

(***************************************************************************)
(* The inductive invariant: every row that is or may come to be saved is   *)
(* legal and paid for.                                                     *)
(***************************************************************************)
SavesAreSound ==
    /\ TypeOK
    /\ \A b \in Bundle : Legal(bundles[b])
    /\ CopiesLegal
    /\ RenewNeverThrows
    /\ NoFreeCycle
    /\ CopiesPaid
    /\ NoLostPayment
    /\ JobAdvances
    /\ NothingCarriedOver
    /\ AllowanceKept
    /\ RenewalBought

(***************************************************************************)
(* Between two runs no bundle has been due for a day or longer, except for *)
(* the days whose run was cut short: no race takes a bundle out of sight   *)
(* of the job.                                                             *)
(***************************************************************************)
OverdueOnlyByFailure ==
    JobIdle => \A b \in Bundle :
        IsDue(b) => tick - bundles[b].renewalDate < TicksPerDay * (1 + failures)

\* A cancelled bundle that no run in progress has read.
Settled(b) ==
    /\ bundles[b].cancelled
    /\ \A c \in due : c.bundle # b
    /\ pending # None => pending.bundle # b

(***************************************************************************)
(* "No future renewal is triggered" (subscription-bundle.ts:123-124) once  *)
(* a bundle stands cancelled outside a run: it stays cancelled, and is not *)
(* paid for again, whatever else is saved.  A cancellation is lost only to *)
(* a run that had read the bundle before it (see CancelledForGood).        *)
(***************************************************************************)
NoFutureRenewal ==
    [][\A b \in Bundle : Settled(b) => Settled(b)' /\ paidUntil'[b] = paidUntil[b]]_vars

DueAt(b, d) == IsDue(b) /\ bundles[b].renewalDate = d

\* The last tick at which a due bundle is sure to meet a run that is not cut.
Horizon == LastTick - TicksPerDay * (1 + MaxFailures)

(***************************************************************************)
(* A bundle that is due at some date is renewed beyond that date,          *)
(* deactivated or cancelled in the end, although each run that is cut      *)
(* short leaves it to the next midnight.                                   *)
(***************************************************************************)
DueIsHandled ==
    \A b \in Bundle, d \in 0..Horizon :
        (DueAt(b, d) /\ tick <= Horizon) ~> ~DueAt(b, d)

-----------------------------------------------------------------------------
(* What the repository says and the code does not do. *)

(***************************************************************************)
(* cancel() "disables auto-renew and records the cancellation timestamp    *)
(* [...] no future renewal is triggered" (subscription-bundle.ts:121-125): *)
(* a bundle whose cancellation was answered with 204 is a cancelled one.   *)
(***************************************************************************)
CancelledForGood == \A b \in Bundle : CancelSaved(b) => bundles[b].cancelled

(***************************************************************************)
(* Cancellation "disables auto-renew and records the cancellation          *)
(* timestamp" (subscription-bundle.ts:122-123), and that is all it does to *)
(* the bundle: it undoes no charge, no renewal and no deactivation that    *)
(* were committed while it was in progress.                                *)
(***************************************************************************)
CancelOnlyCancels ==
    [][\A c \in Cancel :
           outcome[c] = "saving" /\ outcome'[c] = "cancelled" =>
               bundles'[target[c]] = Cancelled(bundles[target[c]])]_vars

(***************************************************************************)
(* The cycle of a cancelled bundle "runs to its natural end"               *)
(* (subscription-bundle.ts:123): a day after that it pays for no message.  *)
(***************************************************************************)
CancelledRunsOut ==
    \A b \in Bundle :
        bundles[b].cancelled /\ tick > bundles[b].renewalDate + TicksPerDay
            => ~bundles[b].active
=============================================================================
