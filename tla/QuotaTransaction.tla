-------------------------- MODULE QuotaTransaction --------------------------
(***************************************************************************)
(* PrismaQuotaRepository.deductWithinTransaction, statement by statement,  *)
(* on a PostgreSQL database at READ COMMITTED: the INSERT that guarantees  *)
(* a free window, the two SELECT ... FOR UPDATE that lock it and then the  *)
(* active bundles one row at a time, the pure decision on what was read,   *)
(* and the UPDATE with its COMMIT.  Other transactions interleave between  *)
(* any two statements: other deductions, and the subscriptions module,     *)
(* whose saves overwrite a whole row from a copy read earlier.             *)
(*                                                                         *)
(* The variables hold committed data; what a transaction has written and   *)
(* not committed is in its locals, and becomes visible at its commit.      *)
(***************************************************************************)
EXTENDS QuotaRules, FiniteSets

CONSTANTS
    Request,    \* the chat requests that ever ask for a deduction
    Writer,     \* the subscription operations that may be in progress at once
    LastMonth,  \* bound: the clock runs over the months 0..LastMonth
    None        \* no lock holder, no bundle, no copy

Month == 0..LastMonth

ASSUME TransactionConstants ==
    /\ IsFiniteSet(Request)
    /\ LastMonth \in Nat
    /\ None \notin Request \union Bundle \union Nat

VARIABLES
    month,       \* the month of the server's clock, also used for activatedAt
    window,      \* free_quota_windows.used, None when there is no row
    windowLock,  \* holder of that row: its inserter, or its FOR UPDATE
    bundles,     \* the subscription_bundles rows
    bundleLock,  \* holder of the FOR UPDATE lock of each bundle row
    copy,        \* the row a subscription operation has read and will save
    pc,          \* where each request is in the transaction
    who, when,   \* userId, and the month of `now`
    seen,        \* freeRows[0].used, as SELECT returned it
    todo,        \* bundle rows of the scan's snapshot not yet locked
    target,      \* the one of them the scan stands at
    view,        \* bundleRows: the rows the bundle SELECT returned
    plan,        \* the DeductionPlan: the bundle that pays, None if none does
    outcome      \* how the request ended

localVars == <<who, when, seen, todo, target, view, plan>>
vars == <<month, window, windowLock, bundles, bundleLock, copy, pc, localVars, outcome>>

\* A window without a row counts no message: FreeQuotaWindow.start.
UsedCount(n) == IF n = None THEN 0 ELSE n

AQ == INSTANCE AtomicQuota WITH
          used <- [u \in User |-> [m \in Month |-> UsedCount(window[u][m])]]

Row == AQ!Row
NoRow == AQ!NoRow

NewRow(b) == [present     |-> TRUE,
              active      |-> TRUE,
              remaining   |-> InitialRemaining(b),
              activatedAt |-> month]

\* A row as the bundle SELECT returns it.
SnapshotOf(b) == [bundle      |-> b,
                  remaining   |-> bundles[b].remaining,
                  activatedAt |-> bundles[b].activatedAt,
                  active      |-> bundles[b].active]

Init ==
    /\ month = 0
    /\ window = [u \in User |-> [m \in Month |-> None]]
    /\ windowLock = [u \in User |-> [m \in Month |-> None]]
    /\ bundles = [b \in Bundle |-> NoRow]
    /\ bundleLock = [b \in Bundle |-> None]
    /\ copy = [w \in Writer |-> None]
    /\ pc = [r \in Request |-> "idle"]
    /\ who \in [Request -> User]
    /\ when = [r \in Request |-> 0]
    /\ seen = [r \in Request |-> 0]
    /\ todo = [r \in Request |-> {}]
    /\ target = [r \in Request |-> None]
    /\ view = [r \in Request |-> {}]
    /\ plan = [r \in Request |-> None]
    /\ outcome = [r \in Request |-> AQ!Open]

-----------------------------------------------------------------------------
(* The statements of one deduction. *)

Goto(r, label) == pc' = [pc EXCEPT ![r] = label]

WindowHolder(r) == windowLock[who[r]][when[r]]

HoldWindow(r) == windowLock' = [windowLock EXCEPT ![who[r]][when[r]] = r]

\* `now` is taken before the transaction begins.
Start(r) ==
    /\ pc[r] = "idle"
    /\ when' = [when EXCEPT ![r] = month]
    /\ Goto(r, "insert")
    /\ UNCHANGED <<month, window, windowLock, bundles, bundleLock, copy,
                   who, seen, todo, target, view, plan, outcome>>

\* INSERT ... ON CONFLICT DO NOTHING waits for an uncommitted inserter of the
\* same key; it does not wait for the lock of a row that is committed.
InsertWindow(r) ==
    /\ pc[r] = "insert"
    /\ \/ /\ window[who[r]][when[r]] = None
          /\ WindowHolder(r) = None
          /\ HoldWindow(r)
       \/ /\ window[who[r]][when[r]] # None
          /\ UNCHANGED windowLock
    /\ Goto(r, "lockWindow")
    /\ UNCHANGED <<month, window, bundles, bundleLock, copy, localVars, outcome>>

\* Plausible bug: the window is selected without FOR UPDATE.
SelectWindow(r) ==
    /\ pc[r] = "lockWindow"
    /\ seen' = [seen EXCEPT ![r] = UsedCount(window[who[r]][when[r]])]
    /\ Goto(r, "scan")
    /\ UNCHANGED <<month, window, windowLock, bundles, bundleLock, copy,
                   who, when, todo, target, view, plan, outcome>>

\* SELECT ... FROM free_quota_windows ... FOR UPDATE.
LockWindow(r) ==
    /\ pc[r] = "lockWindow"
    /\ WindowHolder(r) \in {None, r}
    /\ HoldWindow(r)
    /\ seen' = [seen EXCEPT ![r] = UsedCount(window[who[r]][when[r]])]
    /\ Goto(r, "scan")
    /\ UNCHANGED <<month, window, bundles, bundleLock, copy,
                   who, when, todo, target, view, plan, outcome>>

\* The scan goes on to some row of rest: no ORDER BY fixes which.
ScanOn(r, rest) ==
    /\ todo' = [todo EXCEPT ![r] = rest]
    /\ \/ /\ rest = {}
          /\ target' = [target EXCEPT ![r] = None]
          /\ Goto(r, "resolve")
       \/ /\ \E b \in rest : target' = [target EXCEPT ![r] = b]
          /\ Goto(r, "lockBundles")

\* SELECT ... FROM subscription_bundles ... FOR UPDATE takes its snapshot.
ScanBundles(r) ==
    /\ pc[r] = "scan"
    /\ ScanOn(r, {b \in Bundle : Owner[b] = who[r] /\ bundles[b].present /\ bundles[b].active})
    /\ UNCHANGED <<month, window, windowLock, bundles, bundleLock, copy,
                   who, when, seen, view, plan, outcome>>

\* Plausible bug: the bundles are selected without FOR UPDATE.
SelectBundle(r) ==
    /\ pc[r] = "lockBundles"
    /\ view' = [view EXCEPT ![r] =
                   @ \union {SnapshotOf(b) : b \in {c \in {target[r]} : bundles[c].active}}]
    /\ ScanOn(r, todo[r] \ {target[r]})
    /\ UNCHANGED <<month, window, windowLock, bundles, bundleLock, copy,
                   who, when, seen, plan, outcome>>

\* It waits for each row, then evaluates active = true again on the newest
\* version of the row; a row that no longer qualifies stays locked.
LockBundle(r) ==
    /\ pc[r] = "lockBundles"
    /\ bundleLock[target[r]] = None
    /\ bundleLock' = [bundleLock EXCEPT ![target[r]] = r]
    /\ view' = [view EXCEPT ![r] =
                   @ \union {SnapshotOf(b) : b \in {c \in {target[r]} : bundles[c].active}}]
    /\ ScanOn(r, todo[r] \ {target[r]})
    /\ UNCHANGED <<month, window, windowLock, bundles, copy, who, when, seen, plan, outcome>>

\* Plausible bug: the bundles are asked before the free allowance.
ResolveBundleFirst(r) ==
    /\ pc[r] = "resolve"
    /\ IF Consumable(view[r]) # {}
       THEN /\ \E s \in BestBundles(view[r]) : plan' = [plan EXCEPT ![r] = s.bundle]
            /\ Goto(r, "charge")
       ELSE /\ Goto(r, IF seen[r] < FreeAllowance THEN "free" ELSE "refuse")
            /\ UNCHANGED plan
    /\ UNCHANGED <<month, window, windowLock, bundles, bundleLock, copy,
                   who, when, seen, todo, target, view, outcome>>

\* QuotaService.resolveDeduction on the locked rows; BundleSelection shows that
\* selectBundle picks one of BestBundles, and null if none is consumable.
Resolve(r) ==
    /\ pc[r] = "resolve"
    /\ LET free == HasRemainingIn(RestoreWindow(when[r], seen[r]), when[r])
       IN  \/ /\ free
              /\ Goto(r, "free")
              /\ UNCHANGED plan
           \/ /\ ~free
              /\ \E s \in BestBundles(view[r]) : plan' = [plan EXCEPT ![r] = s.bundle]
              /\ Goto(r, "charge")
           \/ /\ ~free /\ Consumable(view[r]) = {}
              /\ Goto(r, "refuse")
              /\ UNCHANGED plan
    /\ UNCHANGED <<month, window, windowLock, bundles, bundleLock, copy,
                   who, when, seen, todo, target, view, outcome>>

\* The end of the transaction, committed or not, drops its locks and locals.
End(r, o) ==
    /\ Goto(r, "done")
    /\ outcome' = [outcome EXCEPT ![r] = o]
    /\ windowLock' = [windowLock EXCEPT ![who[r]][when[r]] = IF @ = r THEN None ELSE @]
    /\ bundleLock' = [b \in Bundle |-> IF bundleLock[b] = r THEN None ELSE bundleLock[b]]
    /\ seen' = [seen EXCEPT ![r] = 0]
    /\ todo' = [todo EXCEPT ![r] = {}]
    /\ target' = [target EXCEPT ![r] = None]
    /\ view' = [view EXCEPT ![r] = {}]
    /\ plan' = [plan EXCEPT ![r] = None]
    /\ UNCHANGED <<month, copy, who, when>>

\* Whatever else it did, a commit makes the inserted window visible.
CommitWindow(r, n) == window' = [window EXCEPT ![who[r]][when[r]] = n]

\* UPDATE free_quota_windows SET used = nextUsed, an absolute value.
CommitFree(r) ==
    /\ pc[r] = "free"
    /\ CommitWindow(r, UsedIn(RestoreWindow(when[r], seen[r]), when[r]) + 1)
    /\ End(r, AQ!Free(who[r], when[r]))
    /\ UNCHANGED bundles

\* UPDATE ... SET remaining = remaining - 1 WHERE id = ... AND remaining > 0;
\* the number of rows it updated is ignored.
CommitBundle(r) ==
    /\ pc[r] = "charge"
    /\ bundles' = [bundles EXCEPT ![plan[r]].remaining =
                      IF IsUnlimitedTier(TierOf[plan[r]]) \/ @ = 0 THEN @ ELSE @ - 1]
    /\ CommitWindow(r, UsedCount(window[who[r]][when[r]]))
    /\ End(r, AQ!Charged(plan[r]))

\* An error result is returned, not thrown: the transaction still commits.
CommitRefusal(r) ==
    /\ pc[r] = "refuse"
    /\ CommitWindow(r, UsedCount(window[who[r]][when[r]]))
    /\ End(r, AQ!Exhausted(who[r], when[r]))
    /\ UNCHANGED bundles

\* Plausible bug: the failed transaction is left open, with its locks.
AbortWithoutRollback(r) ==
    /\ pc[r] \notin {"idle", "done"}
    /\ Goto(r, "done")
    /\ outcome' = [outcome EXCEPT ![r] = AQ!Failed]
    /\ UNCHANGED <<month, window, windowLock, bundles, bundleLock, copy, localVars>>

\* Timeout of the interactive transaction, lost connection, crash, or the
\* choice of the database as a deadlock victim: everything is rolled back.
Abort(r) ==
    /\ pc[r] \notin {"idle", "done"}
    /\ End(r, AQ!Failed)
    /\ UNCHANGED <<window, bundles>>

-----------------------------------------------------------------------------
(* Waiting. *)

WaitsFor(r, q) ==
    /\ q # r
    /\ \/ pc[r] = "insert" /\ window[who[r]][when[r]] = None /\ WindowHolder(r) = q
       \/ pc[r] = "lockWindow" /\ WindowHolder(r) = q
       \/ pc[r] = "lockBundles" /\ bundleLock[target[r]] = q

\* A cycle of requests each waiting for the next.
WaitCycle(S) ==
    /\ S # {}
    /\ \A r \in S : \E q \in S : WaitsFor(r, q)
    /\ \A q \in S : \E r \in S : WaitsFor(r, q)

\* PostgreSQL's deadlock detector aborts a member of a cycle.
BreakDeadlock(r) ==
    /\ \E S \in SUBSET Request : r \in S /\ WaitCycle(S)
    /\ Abort(r)

-----------------------------------------------------------------------------
(* The subscriptions module, as far as the columns of Row go.  It takes no  *)
(* lock between reading a row and saving it; the save itself is an UPDATE,  *)
(* which waits for a deduction that holds the row.                          *)

CreateBundle(b) ==
    /\ ~bundles[b].present
    /\ bundles' = [bundles EXCEPT ![b] = NewRow(b)]
    /\ UNCHANGED <<month, window, windowLock, bundleLock, copy, pc, localVars, outcome>>

\* findById of a cancellation, or a row of findDueForRenewal: active either way.
ReadBundle(w, b) ==
    /\ copy[w] = None
    /\ bundles[b].present /\ bundles[b].active
    /\ copy' = [copy EXCEPT ![w] = [bundle |-> b, row |-> bundles[b]]]
    /\ UNCHANGED <<month, window, windowLock, bundles, bundleLock, pc, localVars, outcome>>

SaveBundle(w, row) ==
    /\ bundleLock[copy[w].bundle] = None
    /\ bundles' = [bundles EXCEPT ![copy[w].bundle] = row]
    /\ copy' = [copy EXCEPT ![w] = None]
    /\ UNCHANGED <<month, window, windowLock, bundleLock, pc, localVars, outcome>>

\* cancel() changes none of these columns: the copy is written back.
SaveCancelled(w) == copy[w] # None /\ SaveBundle(w, copy[w].row)

SaveRenewed(w) == copy[w] # None /\ SaveBundle(w, NewRow(copy[w].bundle))

SaveDeactivated(w) ==
    copy[w] # None /\ SaveBundle(w, [copy[w].row EXCEPT !.active = FALSE])

NextMonth ==
    /\ month < LastMonth
    /\ month' = month + 1
    /\ UNCHANGED <<window, windowLock, bundles, bundleLock, copy, pc, localVars, outcome>>

-----------------------------------------------------------------------------
Statement(r) ==
    \/ InsertWindow(r) \/ LockWindow(r) \/ ScanBundles(r) \/ LockBundle(r)
    \/ Resolve(r) \/ CommitFree(r) \/ CommitBundle(r) \/ CommitRefusal(r)

Next ==
    \/ \E r \in Request : Start(r) \/ Statement(r) \/ Abort(r) \/ BreakDeadlock(r)
    \/ \E b \in Bundle : CreateBundle(b)
    \/ \E w \in Writer, b \in Bundle : ReadBundle(w, b)
    \/ \E w \in Writer : SaveCancelled(w) \/ SaveRenewed(w) \/ SaveDeactivated(w)
    \/ NextMonth

Spec == Init /\ [][Next]_vars

\* The server runs the next statement of an open transaction when it is not
\* blocked, and the database resolves deadlocks.  Timeouts are not assumed.
FairSpec ==
    /\ Spec
    /\ \A r \in Request : WF_vars(Statement(r)) /\ WF_vars(BreakDeadlock(r))

-----------------------------------------------------------------------------
Label == {"idle", "insert", "lockWindow", "scan", "lockBundles", "resolve",
          "free", "charge", "refuse", "done"}

Copy == [bundle : Bundle, row : Row] \union {None}

TypeOK ==
    /\ month \in Month
    /\ window \in [User -> [Month -> Nat \union {None}]]
    /\ windowLock \in [User -> [Month -> Request \union {None}]]
    /\ bundles \in [Bundle -> Row]
    /\ bundleLock \in [Bundle -> Request \union {None}]
    /\ copy \in [Writer -> Copy]
    /\ pc \in [Request -> Label]
    /\ who \in [Request -> User]
    /\ when \in [Request -> Month]
    /\ seen \in [Request -> Nat]
    /\ todo \in [Request -> SUBSET Bundle]
    /\ target \in [Request -> Bundle \union {None}]
    /\ view \in [Request -> SUBSET Snapshot]
    /\ plan \in [Request -> Bundle \union {None}]
    /\ outcome \in [Request -> AQ!Outcome]

HeldBundles(r) == {b \in Bundle : bundleLock[b] = r}

\* The labels at which a request has the rows its SELECTs returned.
Deciding == {"lockBundles", "resolve", "free", "charge", "refuse"}

\* A locked window is as its holder read it, and only that holder has it.
WindowLocked ==
    /\ \A r \in Request : pc[r] \in Deciding \union {"scan"} =>
           WindowHolder(r) = r /\ seen[r] = UsedCount(window[who[r]][when[r]])
    /\ \A u \in User, m \in Month, r \in Request : windowLock[u][m] = r =>
           who[r] = u /\ when[r] = m /\ pc[r] \in Deciding \union {"lockWindow", "scan"}

\* The rows a scan has returned are the active ones among those it locked.
BundlesLocked ==
    \A r \in Request :
        /\ view[r] = {SnapshotOf(b) : b \in {c \in HeldBundles(r) : bundles[c].active}}
        /\ HeldBundles(r) # {} => pc[r] \in Deciding
        /\ \A b \in HeldBundles(r) \union todo[r] : Owner[b] = who[r] /\ bundles[b].present
        /\ pc[r] = "lockBundles" => target[r] \in todo[r]

\* A decision follows the rules on the rows it was given.
Decided ==
    \A r \in Request :
        /\ pc[r] = "free" => seen[r] < FreeAllowance
        /\ pc[r] \in {"charge", "refuse"} => seen[r] = FreeAllowance
        /\ pc[r] = "charge" => \E s \in BestBundles(view[r]) : s.bundle = plan[r]
        /\ pc[r] = "refuse" => Consumable(view[r]) = {}

\* What the tables hold is legal, and a request is open until it ends.
TablesLegal ==
    /\ \A u \in User, m \in Month : UsedCount(window[u][m]) <= FreeAllowance
    /\ \A b \in Bundle : bundles[b].active => bundles[b].present
    /\ \A w \in Writer : copy[w] # None => copy[w].row.present
    /\ \A r \in Request : pc[r] # "done" => outcome[r] = AQ!Open

(***************************************************************************)
(* The inductive invariant: from the moment a row is read FOR UPDATE until *)
(* the transaction ends, what was read is what is committed.               *)
(***************************************************************************)
ReadsStayCurrent ==
    /\ TypeOK
    /\ WindowLocked
    /\ BundlesLocked
    /\ Decided
    /\ TablesLegal

(***************************************************************************)
(* The free window of a month counts exactly the messages that were given  *)
(* for free in it, and never more than the allowance, whatever raced with  *)
(* whatever.  The UPDATE writes an absolute value, so a decision on a      *)
(* stale count would lose a grant.                                         *)
(***************************************************************************)
FreeGrantsCounted == AQ!FreeGrantsCounted

(***************************************************************************)
(* What a transaction is about to write is what the rules decide on the    *)
(* rows as they are committed now, not as they were when it read them: a   *)
(* free grant still has a message left; a charge comes after the free      *)
(* messages are gone and takes a best bundle of those it locked; a refusal *)
(* has neither.                                                            *)
(***************************************************************************)
DecisionStillHolds ==
    \A r \in Request :
        LET free == UsedCount(window[who[r]][when[r]]) < FreeAllowance
            locked == {SnapshotOf(b) : b \in HeldBundles(r)}
        IN  /\ pc[r] = "free" => free
            /\ pc[r] = "charge" => ~free /\ \E s \in BestBundles(locked) : s.bundle = plan[r]
            /\ pc[r] = "refuse" => ~free /\ Consumable(locked) = {}

(***************************************************************************)
(* The guard of the UPDATE never filters the row out ("defense-in-depth;   *)
(* should never trigger", prisma-quota.repository.ts:112-113).  If it did, *)
(* the message would be free of charge, since the row count is ignored.    *)
(***************************************************************************)
DecrementNeverMisses ==
    \A r \in Request :
        pc[r] = "charge" /\ ~IsUnlimitedTier(TierOf[plan[r]]) => bundles[plan[r]].remaining > 0

(***************************************************************************)
(* Two deductions of a user can only deadlock across the turn of a month:  *)
(* within one month the window lock, always taken first, orders them.      *)
(***************************************************************************)
DeadlockNeedsTwoMonths ==
    \A S \in SUBSET Request :
        WaitCycle(S) => \E r, q \in S : who[r] = who[q] /\ when[r] # when[q]

Running(r) == pc[r] \notin {"idle", "done"}

\* The next statement of r need not wait, and what it is to decide it can.
CanGoOn(r) ==
    CASE pc[r] = "insert"      -> window[who[r]][when[r]] = None => WindowHolder(r) = None
      [] pc[r] = "lockWindow"  -> WindowHolder(r) \in {None, r}
      [] pc[r] = "lockBundles" -> bundleLock[target[r]] = None
      [] pc[r] = "resolve"     -> Consumable(view[r]) # {} => BestBundles(view[r]) # {}
      [] pc[r] = "charge"      -> plan[r] \in Bundle
      [] OTHER                 -> TRUE

(***************************************************************************)
(* No lock is left behind: while deductions are running, one of them can   *)
(* go on, or some wait in a cycle, which the database breaks.  So nobody   *)
(* waits for a request that has ended, for a lock of its own, or for       *)
(* Prisma's timeout to take effect (prisma-quota.repository.ts:46).        *)
(***************************************************************************)
StuckOnlyInCycle ==
    (\E r \in Request : Running(r)) =>
        \/ \E r \in Request : Running(r) /\ CanGoOn(r)
        \/ \E S \in SUBSET Request : WaitCycle(S)

(***************************************************************************)
(* Every interleaving of the statements looks to the callers as if each    *)
(* deduction had been one indivisible step.                                *)
(***************************************************************************)
DeductionIsAtomic == AQ!Spec

(***************************************************************************)
(* A deduction that has started ends, though it may have to wait for       *)
(* others and though nothing but deadlock detection ever interrupts it.    *)
(***************************************************************************)
EveryDeductionEnds ==
    \A r \in Request : pc[r] \notin {"idle", "done"} ~> pc[r] = "done"
=============================================================================
