# Formal verification of the chat and subscriptions backend

The repository is a NestJS service: authenticated users send chat messages, and
each message is paid for either by a monthly free allowance or by a subscription
bundle. State lives in PostgreSQL (through Prisma); the server process keeps
nothing between requests except timers and throttle counters. This directory
holds TLA+ models of the parts where that can go wrong, the configurations that
model-check them with TLC, and proofs checked by TLAPS.

Paths below are relative to the repository's `src/`.

## 1. The system

| Component | State | Operations | Interacts with | Hard behaviour | What makes it correct |
|---|---|---|---|---|---|
| Quota rules (`chat/domain`) | none, pure | `resolveDeduction`, `selectBundle`, `outranks`, window arithmetic | called inside the quota transaction | one pass keeps only the best row so far; ties follow row order; the limit of the allowance | a best consumable bundle is picked, the first of equals |
| Quota deduction (`prisma-quota.repository.ts`) | `free_quota_windows`, `subscription_bundles.remaining`, row locks | `deductWithinTransaction` | other deductions; saves of the subscriptions module on the same rows | READ COMMITTED, locks taken row by row in no stated order, aborts, the turn of the month | it looks like one step; no free message is lost or given twice; nothing waits for ever |
| Sending a message (`send-chat-message.use-case.ts`, `chat.controller.ts`) | `chat_messages` | `execute`, `send` | quota, AI client, message repository, timeout middleware, exception filter | every await can fail, the client may have its 408 already, the process may stop | the answer is true of the tables; a stored message was paid, once, by the source it names |
| Chat history (`prisma-chat-message.repository.ts`) | none of its own | `list`, `getOne` | `chat_messages`, which other requests add to | two queries per page, offsets, dates taken before the save | a walk through the pages misses nothing that was there |
| Subscription bundles (`subscriptions/`) | `subscription_bundles` | create, cancel, list | renewal job and charges on the same row | read, await, save of the whole row, with no lock and no version | an update undoes no other update |
| Renewal job (`renewal.job.ts`) | the list of due rows in memory | `runRenewals` at midnight | payment simulation, bundle repository | stale rows, a payment before a save, a run that is cut short | every due bundle is handled; no cycle without payment, no payment without cycle |
| Billing calendar (`addMonths`, `MonthKey`) | none, pure | dates of cycles, key of a month | bundles, windows | days a month does not have, renewal upon renewal | a cycle ends when the customer expects, and never before |
| Authentication and session binding (`auth/`) | `sessions`, `users` | verify the token, look up or create the session, compare the fingerprint, check the role | every request, before its handler | look-up and creation are separate statements; expiry; revocation meanwhile | one fingerprint per session, refused once revoked or expired |
| Rate limiting (`security/guards`) | the throttler's counters in memory | choose the key, count | runs before the controllers' guards | which guard runs first | a request is refused only for requests it shares a key with; who shares a key |
| Request timeout, content type (`security/middleware`) | one timer per response | answer 408; answer 415 | the handler that goes on | two writers of one response | every request is answered |
| Exception filter, health, metrics, request id (`observability/`) | none | map errors to statuses | every handler | a response already sent | the client keeps the first answer, and it is true |
| Interceptors (`humanizer/`) | - | - | controllers | - | imported by the controllers, absent from the repository |

`PROJECT.json` lists the same components with their status, and the hazards of
the code at the lines where they bite.

## 2. The modules

    QuotaRules                    pure rules, shared by everything below
      |- BundleSelection          the loop of selectBundle
      |- AtomicQuota              abstract: a deduction is one step
      |    ^ implemented by
      |- QuotaTransaction         the SQL transaction, statement by statement
      |- ChatSend                 the request handler, on the tables of AtomicQuota
      `- Subscriptions            bundles, cancellations and the renewal job
    SessionBinding                token and session guard, the rows they keep
      `- RequestGuards            all a request passes before its handler
    ChatHistory                   pages and single messages, during saves
    BillingCalendar               the dates of a bundle

The `MC...` modules give the constants values for TLC; the `...Proofs` modules
hold theorems about the module they extend. Composition: `ChatSend` instantiates
`AtomicQuota` and takes its actions as the deduction; `QuotaTransaction` shows,
by refinement, that this is sound; `QuotaTransaction` has in turn an abstraction
of `Subscriptions` as its environment (any interleaving of reads and whole-row
saves), and `Subscriptions` one of the deduction (`Charge`, one step).
`RequestGuards` extends `SessionBinding` and takes its actions as one of the
guards; `RequestGuardsProofs` shows by refinement that all the guards together
still are a behaviour of `SessionBinding`. `ChatSend` begins where
`RequestGuards` ends, at the handler.

### QuotaRules and BundleSelection

One operator per value-object method: `Window`, `RestoreWindow`, `UsedIn`,
`HasRemainingIn` for `FreeQuotaWindow`; `IsConsumable`, `HasMore`, `HasSame` for
`QuotaBundleSnapshot`; `Outranks` for `QuotaService.outranks`. `BestBundles` says
without an order what `selectBundle` returns, and `BundleSelection` is its loop
(`rows`, `next`, `selected`; `Keep` and `Take` are the two outcomes of an
iteration), shown to compute it. The allowance and the sizes of the tiers are
constants: the code's 3, 10 and 100 are one instance.

### AtomicQuota and QuotaTransaction

`AtomicQuota` is the promise of `quota.repository.ts` that a deduction is one
step: a request takes a free message that its window has left, or, when the
free messages of a month of its user are used up, a message of a bundle that can
pay, or is refused; a failed one costs nothing. It does not ask that the bundle
be the best one, nor that no bundle could have paid when a request is refused:
that the rules were followed is `DecisionStillHolds` in `QuotaTransaction`, where
the rows are that the rules were applied to.

`QuotaTransaction` is `deductWithinTransaction`. Each request runs through the
labels `insert`, `lockWindow`, `scan`, `lockBundles`, `resolve`, then `free`,
`charge` or `refuse`, and `done`. What the model takes from PostgreSQL at READ
COMMITTED:

* variables hold committed data, a transaction's own writes are in its locals
  until it commits. The only rows written before the commit are the inserted
  window, which `windowLock` and the missing row represent, and the row of the
  final UPDATE, which is locked already; so the UPDATE and the COMMIT are one
  action (`CommitFree`, `CommitBundle`, `CommitRefusal`);
* `INSERT ... ON CONFLICT DO NOTHING` waits for an uncommitted inserter of the
  same key;
* `SELECT ... FOR UPDATE` takes its snapshot first (`ScanBundles`), then locks
  row by row (`LockBundle`), waits for a holder, and evaluates the WHERE clause
  again on the newest version of the row;
* a cycle of waiting transactions is broken by aborting one of them
  (`BreakDeadlock`); any transaction may be aborted at any time (`Abort`:
  Prisma's timeout, a lost connection, a crash).

The subscriptions module appears as `CreateBundle`, `ReadBundle` and three kinds
of save that write a copy back, waiting for row locks only.

### Subscriptions

Rows with the columns that matter (`endDate` always equals `renewalDate`).
`CancelRead` is the use case up to its save, with all its error returns;
`CancelSave` is `bundleRepo.save`; between the two anything may happen. The job
is `JobStart` (the query), `JobPay` (`attemptRenewal`: payment accepted or
declined, `renew` may throw), `JobSave`, and `JobStops` for a run cut short.
`NextTick` moves the clock and raises `cron` at midnight. `paidUntil` and
`balance` are history: no action reads them. `Charge` is the UPDATE of the quota
transaction, one step because `QuotaTransaction` shows that it is; it covers the
finite tiers, the only ones that are decremented. A deduction that began before
a save and ended after it is not lost by this: the row lock makes the save wait.

### ChatSend

One label per await of the handler. `Receive` is the validation, `Deduct` a step
of `AtomicQuota` for the request's own user, `Proceed` the early return,
`Chat`, `Create`, `Save`, `Answer` the rest. `Break` is a rejected promise at
any of them, also after the database has done its work. `Timeout` answers 408
and stops nothing; `Disconnect` and `Crash` take the client or the process away.
Whoever answers first is the one the client hears (`Respond`).

The clock is read twice: `Receive` reads the month whose window is charged, and
`Create` dates the message, after the deduction and the AI client; `NextMonth`
may come between. A row keeps what `ChatMessage` and the repository store of the
outcome: the source, the bundle, and that date (`MessageOf`). It does not keep the
month that paid. The clock of the server is assumed never to go back.

### SessionBinding

The guards that know sessions. The token is verified by `JwtAuthGuard`
(`RefuseToken`, `AcceptToken`): whether it is good is a free choice. `LookUp` is
the `findUnique`, `Decide` the checks on the row it returned, `Provision` the
`upsert` of the user, `CreateRow` the `create`, which fails when the unique
`keycloak_sid` is taken meanwhile. `RevokeByKeycloakSid` and `RevokeAllForUser`
are the methods of the service; nothing in the repository calls them, so they
may come at any time. `late` is history: the session was revoked when the
token was verified. A session (`sid`) belongs to one user, as Keycloak has it,
and the HMAC of user, session and device is taken to be injective.

### RequestGuards

A request is for a handler (`route`) and comes from a device, which has an address. `gate`
is what has become of it outside the session guards. `RefuseContentType` is the
middleware (415), `Throttle` the global guard with `getTracker` (`TrackerOf`)
and the library's counters `hits`, one for each handler and tracker; `Authenticate` is one
step of `SessionBinding`, and `Authorize` is `RolesGuard`. `TrackerOf` is
written as the code is, with the user's id when `req.user` is set. It never is:
a global guard runs before those of a controller, and the label of the request
says so. `NextPeriod` moves the clock and lets the throttler forget. The limits
of the buckets and the handlers are constants. `@SkipThrottle` leaves the
handlers of each controller one bucket (`Bucket`), which gives each of them a
limit; the library's key has the name of the class and of the handler in it, so
two handlers of a controller do not share a counter.

### ChatHistory

A message is made (`Create`, where it gets its date) and stored later (`Save`),
in any order. A client walks: it asks for the first page (`Begin`), the two
queries of `list` run in either order (`FindMany`, `Count`), the page is
answered and the next one asked for while `offset + limit < total` (`Reply`), or
a query fails and the client asks again (`Break`). The code has no client; this
one does what `limit`, `offset` and `total` invite it to. `First(n, R)` are
the sets the first `n` rows may be under `ORDER BY created_at DESC`, more than
one when dates are equal, and a page is what lies between two of them. `GetOne`
is `getOne`, for any caller: a list of one row of the caller's own, searched (404),
then the check of owner and role (403), then the message (200).

### BillingCalendar

`AddMonths` is `setUTCMonth` on dates without a time of day, with months
numbered through the years. `Init` is `SubscriptionBundle.create` on any day of
the given months, `Renew` the dates of `renew`. `bought` and `renewals` are
history. What the properties say of every cycle is what `Subscriptions` assumes
of its constant lengths: a cycle is at least a day.

## 3. What the runs check

| Run | Shows | States |
|---|---|---|
| `bundle_selection` | for every list of up to three rows over three bundles, in every order, with ties and empty rows: each prefix's best bundle is held, the first among equals | 44 137 |
| `quota_transaction` | three deductions, two finite bundles, one subscription operation, two months: `AtomicQuota` is implemented (`DeductionIsAtomic`), what is read stays current (`ReadsStayCurrent`), decisions hold when they are written, the guarded UPDATE never misses, deadlock needs two months, and short of a deadlock some open deduction can always go on (`StuckOnlyInCycle`) | 88 712 |
| `quota_liveness` | three deductions, an allowance of two messages, a finite and an unlimited bundle, no subscription operation: free grants are counted exactly (`FreeGrantsCounted`), and each deduction ends | 59 205 |
| `subscriptions` | two bundles with cycles of different length, a cancellation, charges, a job cut short once: saves are sound, no free cycle, no lost payment, no throw in a run, allowances kept, nothing overdue, no renewal of a cancelled bundle that no run has read, and what is due is renewed, deactivated or cancelled in the end | 643 289 |
| `request_guards` | three requests over a session each of a user and an admin, two devices at two addresses, either revocation at any time, expiry: one device per session whoever races to create its row, who is admitted is bound, unexpired and provisioned, who comes after a revocation is not admitted, a handler is reached through all guards, a limit is spent by requests of the same user or address only, and not exceeded by a user at one address | 1 327 792 |
| `chat_send` | two requests of two users over two months, with failure, timeout, disconnection and crash anywhere: true answers, paid and unique audit records, free messages by the dates of their rows and bundle messages by their bundle never more than were charged, every request answered | 163 078 |
| `chat_history` | three messages of the reader and one of somebody else, made and stored in any order while the reader walks: nothing unseen is left behind, a walk that ends is complete, `getOne`, by the reader and by an admin, shows a stored message to its author or an admin only, and only own messages hide one from its author | 1 084 462 |
| `billing_calendar` | every day of purchase of 78 years, monthly and yearly, renewed up to 13 times: one rollover at most, never early, the length of each cycle in days | 797 692 |

and four that are violated, each contradicting a sentence of the repository:

| Run | What happens |
|---|---|
| `cancellation_lost` | The job reads a row, the cancellation is saved and answered with 204, the job saves its renewed copy: the bundle is not cancelled. |
| `stale_cancellation` | A message is charged between a cancellation's read and its save, which writes the old `remaining` back. The same save takes a renewal back, or revives a bundle deactivated for a declined payment. |
| `cancelled_never_ends` | No race is needed: nothing deactivates a cancelled bundle, and charging looks at no date. |
| `shared_rate_limit` | Two users behind one address use up each other's limit: the guard's comment, the README and an end-to-end test promise a counter per user. |

`shared_rate_limit` decides for one key where the repository's sentences want
another, so the limit that holds is stated for either: `LimitsAreOwn` says that
no user gets more requests of a handler through from one address than its bucket
allows, and that who is refused shares user or address with as many requests
that were let through. It is true of counters per user as of counters per
address, and false when the throttler counts by anything shared by strangers
(its mutant takes the key from the proxy).

`FreeMessagesCounted` speaks of what is stored. A message deducted just before
midnight of the last day of a month is dated in the next one, so that a month
can hold more free messages, by the dates of its rows, than its own window has
counted. What holds is the sum: the free messages dated up to the end of a month
are at most those that the windows up to that month have counted.
`AuditIsPaid` says of each free message that a window no later than its date
paid for it.

Given what `stale_cancellation` shows, the other properties say how far the harm
goes. `AllowanceKept`: renewals, which have the same race, give no message away,
and each saved cancellation at most those of one cycle. `NoLostPayment`: each
run that is cut short loses at most one paid cycle of a bundle; only a bundle
with a saved cancellation is left out, since that may take any number of
renewals back. `NoFutureRenewal`: a cancellation is lost only to a run that had
read the bundle before it; once no run has, it stands.

`UnseenIsAhead` and `WalkIsComplete` exclude messages that share their date with
another one: the database may order these differently from page to page, so one
can be shown twice and the other never. `WalkIsComplete` also excludes a walk
whose last total was counted before its last rows were read: a message
stored between the two queries pushes the oldest one beyond the page, and the
client stops too early. Both can happen; neither has a promise against it.

Three more things the models show, for which no run is kept:

* A deduction begun before midnight of the last day of the month and one begun
  after it hold different windows and may lock the same two bundles in opposite
  orders. One is aborted and its client gets 500. `DeadlockNeedsTwoMonths` says
  that this is the only way.
* A question of blanks passes `@IsNotEmpty`, is charged and answered by the AI
  client, and then `ChatMessage.create` throws: it is paid, answered with
  500, and is not stored (`Create` in `ChatSend`).
* The README says "Admins can access any resource" (`README.md:40`), and
  `getOne` exempts admins from its check of the owner (`chat.controller.ts:84`).
  `ChatAccessPolicy`, which nothing calls, gives them "system-wide read access"
  (`src/chat/domain/policies/chat-access.policy.ts:6-7`).
  But the page it searches is `list` for the caller's own id, so whatever is
  found is the caller's: the check never refuses, nobody gets its 403, and an
  admin who asks for a message of somebody else gets 404. In `ChatHistory`, add
  `lookup # None /\ lookup.caller \in Admin /\ lookup.held => lookup.status # "404"`
  as an invariant to see it. `OnlyOwnHide` allows an admin to be shown any message
  and promises only authors theirs, so it holds of the code as it is and of
  one that does what the README says.

### Bounds

* *Requests.* Two deductions can race for a row, and a third sees what the two
  left behind or waits for the second while it waits for the first; a deadlock
  takes two. An allowance of one and bundles of one and two messages bring the
  limit of every counter within three requests. `quota_liveness` has an allowance
  of two: the first request of a month holds its window from the INSERT on, so a
  count can only be lost between a second and a third. The proofs below
  are for any number.
* *Months* `0..1`: what matters is whether two requests share a window, and
  whether a request is dated in the month it was charged to or in the next.
* *Ticks.* Two per day, so that a request falls at midnight or between; cycles
  of one and two days, so that bundles fall due at the same midnight or at
  different ones, and several times within `LastTick`. In the code a cycle is at
  least a month; `SubscriptionConstants` asks for a day at least, which is what
  the overdue and liveness properties need.
* *Guards.* Two requests race to create a row and a third finds it; the second
  session belongs to an admin, so that both roles meet `RolesGuard`. A limit of
  two is used up by two of the three requests. `Ttl = 0` and `LastTick = 1` let a
  row expire and a period end. The run has one handler: `metrics`, which only
  admins may reach. Handlers differ in the roles and the bucket and share no
  counter; the theorems are for any number of them.
* *History.* A limit of one makes as many pages as there are messages; three
  messages can be one seen, one to come and one that is stored in between.
  `LastTick = 2` gives them dates in every order, equal ones included. The
  author of the fourth message is an admin, and asks for messages as the reader does.
* *Calendar.* January 2024 to December 2101 has the leap years by four and by
  four hundred's exception, 2100. Thirteen renewals bring a monthly bundle past
  every month of a year.
* `MaxFailures = 1` run of the job that is cut short; the properties count the
  failures. `LastTick = 6` is three midnights.
* *Symmetry* is used for the requests of `quota_transaction`, `request_guards`
  and `shared_rate_limit` and the reader's messages of `chat_history`; never with
  liveness.
* `CHECK_DEADLOCK FALSE` in every run: requests are finitely many and clocks and
  renewals are bounded, so every behaviour comes to a stop.

### Fairness

* `QuotaTransaction`: weak fairness of each request's next statement and of
  `BreakDeadlock` for each: the event loop runs a continuation that is ready, and PostgreSQL's
  detector runs. Neither timeouts nor the fairness of locks are assumed. Weak
  fairness of a blocked statement is enough since finitely many requests stand
  in its way.
* `Subscriptions`: weak fairness of the job's steps and of the clock. Nobody has
  to cancel, create or chat. `JobStops` is never forced and is bounded, because
  a job that fails every night renews nothing.
* `ChatSend`: weak fairness of the timer, and of nothing else.

## 4. What is proved

All theorems hold for every value of the constants that satisfies the
assumptions `QuotaConstants`, `SelectionConstants`, `TransactionConstants`,
`SubscriptionConstants`, `NoneIsNoCopy`, `ChatConstants`, `SessionConstants`,
`NoneIsNoRow`, `GuardConstants`, `HistoryConstants` and `CalendarConstants`: they
say of what type the constants are, that allowances, tiers and limits are not
empty, that cycles last a day at least, that there are finitely many requests,
cancellations and messages, and that `None` is none of the things it stands in for.

* **BundleSelectionProofs.** `TypeCorrect`; `SelectionCorrect`: for lists of
  any length. The invariant itself is inductive; the argument is that
  `Outranks` is transitive and total up to ties on consumable rows (lemmas), so
  what one iteration discards is never the best again. `FirstWins` adds the
  order of the rows: what is held is replaced only by a row that outranks it,
  so by transitivity an equal row before it would have been held in its place.
* **AtomicQuotaProofs.** `CountCorrect`: the count of a window is the number of
  free grants. `OneGrantMore` and `NoOtherGrant` say what an outcome does to
  the set of grants.
* **QuotaTransactionProofs.** `InvariantHolds` is the core: `ReadsStayCurrent`
  is inductive. Its parts: a request past `lockWindow` holds its window's lock
  and `seen` is what is committed (`WindowLocked`); `view` is what the rows it
  has locked are now (`BundlesLocked`); what it is about to do follows the
  rules on both (`Decided`); the tables are legal (`TablesLegal`).
  `DecisionStillHolds`, `DecrementNeverMisses` and `DeadlockNeedsTwoMonths` are
  consequences and not inductive by themselves: the first needs to know that a
  locked row cannot have changed. The last one: in a cycle of one month nobody
  waits for a window, for its holder is past that point and waits for a bundle
  of the same user, held by someone who must hold the same window.
  `StuckOnlyInCycles` is the other half: if deductions are open and none can go
  on, some wait for each other in a cycle. Who waits does so for one that is
  open (no lock survives its transaction), and among finitely many that all
  wait some form a cycle: take the smallest set closed under waiting
  (`MinimalSet`); dropping one nobody in it waits for would leave a smaller
  one. That nobody is stuck on the rules needs the same lemma: a finite set of
  consumable rows has a best one (`BestBundleExists`), since `Outranks` is an
  order. `ScanGoesOn` is the invariant for it: the table has finitely many
  rows, and a scan never comes back to a row it has locked. `ServesOwnUser`:
  what a deduction takes is its own user's, in the month it was asked for,
  which is what `ChatSend` assumes in `Deduct`. `ImplementsAtomicQuota` maps
  the initial state and each statement to a step or a stutter of `AtomicQuota`,
  and `FreeGrantsExact` carries `CountCorrect` over.
* **SubscriptionsProofs.** `SoundnessHolds`: `SavesAreSound` is inductive. Its
  parts say of the copies in memory what the properties say of the table: legal
  (`CopiesLegal`), no further than paid (`CopiesPaid`), as far as paid
  (`JobAdvances`), and that what a pending renewal restores was bought on top
  of what the row can pay for now (`RenewalBought`); and no row, saved or not,
  has more messages than a new cycle (`NothingCarriedOver`). Without them a
  save could break any property: the table is only as good as the oldest copy
  of it. `RunsNeverThrow`, `CyclesArePaid`, `PaymentsAdvance`, `AllowanceHolds`
  follow. What the last two excuse is counted: a run that is cut short raises
  `failures`, a saved cancellation raises `GivenBack` by a cycle's messages
  (`SaveGivesBack`). `CancellationLasts` is an action property: the steps of
  requests and those of the job, taken one by one, leave a settled bundle
  settled. `NothingIsOverdue` needs a second invariant, `OnTime`, that measures
  how far rows lag behind the last midnight: outside the run no row lags by
  more than what is excused, but for those the run has still in hand, and the
  copies in memory by less than a day more. A renewal moves a row a cycle on, a
  midnight passes a day on, and a run that is cut short raises what is excused
  by a day. The lemma `Midnights` has the arithmetic with remainders.
* **ChatSendProofs.** `RepliesAreTrue`, `AuditHolds`, `ProgressHolds` and
  `TypeCorrect` from one inductive invariant that ties each label to the
  outcome and to the message row. `HandlersDeduct` maps each step to a step or
  a stutter of `AtomicQuota`, so that what is proved of it holds of the
  handlers; `FreeMessagesExact` uses that. A row does not say which window paid,
  so the argument goes through the outcome of its request: a free message dated
  in month `t` or before was granted in `t` or before (`FreeHasMonth`, and
  `Progress`, which has the clock in it), no two rows have one request, and the
  grants of the months up to `t` are numbered, window by window, into the pairs of
  a month and a place in its count (`GrantsNumbered`, `GrantsAreGiven`, by `CountCorrect`).
  `BundleMessagesExact` maps those of a bundle the same way
  (`StoredAreGranted`) and needs an invariant of its own, `BundlesBalance`:
  what is left of a finite bundle and what was granted of it make up what it
  began with, exactly.
* **RequestGuardsProofs.** `BindingHolds`: `BindingStands` is inductive. A row
  is created once and then only its `revoked` flag changes, upwards
  (`RevocationKeepsBindings`), so what a request has read of a binding is still
  so when it acts on it (`BoundTo`), and a request that comes after a
  revocation can find nothing but a revoked row (`StoppedIfLate`). `OneDevice`,
  `AdmittedBound` and `RevokedRefused` follow. They are proved of
  `SessionBinding` and carried over by `GuardsImplementSessions`
  (`SessionsHoldBehindGuards`). `BindingsLast` is about the steps: none rebinds
  a row, prolongs it or takes a revocation back. `LimitsHold` rests on
  two facts about the counter of an address: it is exactly the number of requests
  of its handler and period that it let through (`HitsExact`), which bounds those of
  one user among them (`AddressLimit`); and it was at the limit when a request was
  refused, by requests that stay let through (`RefusedAtLimit`). No request is
  counted by a user, since who is at the throttle has not been at the token guard.
  `HandlersGuarded` combines the
  binding with the label `gate`.
* **ChatHistoryProofs.** `NothingIsSteppedOver`: the rows newer than a message
  only become more, so the number of them bounds its place from below, and it
  can move to later pages only. What lies at or past the place of a page's
  first row and is not on the page has a page's length of rows before it. The
  lemmas are about the cardinality of what may come first under an order with
  ties. `WalksAreComplete` follows, with the total at the last page;
  `GetOneIsOwn` is about the first row alone (`PageOfOne`), for any caller: what
  hides a message from its author is a row of the author's own, as new or newer.
* **BillingCalendarProofs.** `OneRollover`: its two disjuncts are inductive,
  for a day up to the third exists in every month. `RenewalsAreNeverEarly`
  follows from it, in any year and for any number of renewals.
  `CyclesLastAsLong` adds the lengths in days, which the module counts in
  closed form (`DaysBefore`): from month to month the days grow by the length
  of the month (`MonthsFollow`), in twelve months by 365 or 366
  (`TwelveMonths`), and a rollover writes the same day differently
  (`RolloverKeepsDays`).

Only model-checked: the properties under fairness (`EveryDeductionEnds`,
`DueIsHandled`, `EveryRequestAnswered`), which are out of the prover's reach.
`StuckOnlyInCycles` is the part of the first that is not about fairness. Every
other property of a passing run is a theorem. The type invariants of
`QuotaTransaction` and `Subscriptions` and `Progress` of `ChatSend` have no run
property of their own: the first two are conjuncts of `ReadsStayCurrent` and
`SavesAreSound`, which the runs check, the third is a theorem (`ProgressHolds`).

Induction over data is out of the prover's reach too. Where a proof needed it,
an argument by a smallest counterexample took its place (`MinimalSet`), or a
definition in closed form (`DaysBefore`).

## 5. What is not modelled

* Texts, token counts, prices, identifiers, logging, the wording of errors.
* The formatting and parsing of `MonthKey`: months are numbers in their order.
* `getState`, `consumeFor`, `Quota.decrement`, `withAutoRenew`,
  `isDueForRenewal`, `findById` and the two access policies: nothing calls them.
* Several server instances, of which each would run the job; a run of the job
  that lasts past the next midnight. The repository's set-up is one process.
* The exception a filter raises when it writes to a response already sent: what
  follows is up to the framework. `Crash` may happen at any time anyway.
* Signatures, key sets and claims other than `sub`, `sid` and the role.
* The lists of bundles, health, metrics and request ids: they read, and nothing
  reads them.
* The interceptors of `humanizer/`, which are not in the repository; `ChatSend`
  takes from the README's table that they strip markup and null bytes, not white
  space.

Of two first requests of a session that race to create its row, the loser gets
500 even when it comes from the same device; it is safe to send it again. A row's
`expiresAt` is never moved, so a session ends `SESSION_TTL_SECONDS` after its
first request, however much it is used.

A 408 or 500 says nothing about the message: it may be charged, and it may be
stored. A client that retries pays again, since a request has no identity of its
own.

## 6. Plan

Done, in order of importance: the quota transaction and its refinement, the
rules under it, the bundles and the job, the request handler, the session
guards, the other guards around them, the history, the calendar; every safety
invariant and action property as a theorem.

Left, in this order:

1. The charges and saves of `Subscriptions` mapped to `AtomicQuota`'s `WriteRow`,
   so that the two views of a bundle row are one.
2. Two instances of the job at one midnight, once the repository says how many
   servers there are.

## 7. Running

    tlc -config QuotaTransaction.cfg MCQuotaTransaction.tla
    tlapm QuotaTransactionProofs.tla

`PROJECT.json` names the module and the configuration of every run, the source
lines behind every definition, and for each checked property a mutation of the
model (the operators commented "Plausible bug") under which it fails.
