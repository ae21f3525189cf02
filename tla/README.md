# A formal model of CatalystOps

CatalystOps is a Rails application (PostgreSQL, Sidekiq, Mercado Pago) with
which field-service companies run budgets and orders of service, and which sells
them a monthly subscription.  This directory holds TLA+ modules translated from
its source, TLC configurations that check them, and proofs for TLAPS.

All paths below are relative to the repository.

## 1. Inventory

| Component | State | Operations | Interacts with | What makes it correct |
|---|---|---|---|---|
| Subscription life cycle (`app/models/subscription.rb`) | rows of `subscriptions`: status, period end, scheduled cancellation, external ids | `activate_for!`, `activate_as_current!`, `cancel!`, `expire!`, schedule / resume / finalize a cancellation, scopes | called by web, webhooks and jobs; `after_commit` changes the company | an activation replaces what is in force; a paid plan in force was paid and ends; Starter is never billed |
| Settings and signup (`configurations_controller.rb`, `signups_controller.rb`) | as above, payment method | start a paid plan, cancel, resume, sign up | enqueues payment jobs, calls the gateway | Starter stays until the paid plan is paid |
| Payment commands and jobs (`app/commands/cmd/mercado_pago`, `app/jobs/create_user`) | the id saved after the POST | POST an invoice or a preapproval, PUT its cancellation | gateway, Sidekiq | an invoice belongs to the row it was made for |
| Daily jobs (`app/jobs/subscriptions`, `app/commands/cmd/subscriptions`) | none of their own: lists of plucked ids | cycle, notify, expire, finalize, reconcile, reprocess | gateway, rows | they act on the row as it is, not as it was; due things happen in the end |
| Webhook processor (`app/services/mercado_pago/webhook_processor.rb`) | none | payment, preapproval, authorized payment | gateway (GET), rows | a notice is applied to the right row, in any order |
| Webhook endpoint (`app/controllers/web_hook/mercado_pago_controller.rb`, `webhook_events`) | one row per event key, its status and lock | record, detect duplicates, process, answer | processor, gateway | effect once; acknowledged only after the effect |
| Company access (`app/models/company.rb`) | `active`, `plan` | `activate!`, `deactivate!` | driven by subscriptions | agrees with the subscriptions |
| Coupons and trials | coupons, redemptions | resolve, redeem | signup | limits hold under concurrent signups |
| Budgets (`budget.rb`, `budgets_controller.rb`, `budget_approvals_controller.rb`, `approve_and_create_order_service.rb`) | status, three time stamps, content, link to the order of service | send, approve, reject, edit | customer portal, orders of service | one order per budget; decisions do not overwrite each other; stamps tell the decision |
| Budget form (`budget_form.js`, parts of `application.js`) | rows of items, the total shown, pending timers | edit, add, remove, mask, recalculate | the order in which handlers of one event run | the total shown is that of the rows |
| Onboarding (`user_onboarding_progress.rb`, tour and welcome controllers) | completed steps, step seen last, dismissed, finished; the modal and the tours of a page | complete a step, show a stop, dismiss, resume | PATCHes nobody waits for, controllers of other pages | no step lost, the tour resumes where it was, the screen never hangs |
| Onboarding checklist (`onboarding_checklist_controller.js`) | steps shown, answers awaited | refresh, show | GETs that overlap and fail | catches up with the row |
| Calendar page (`calendar_controller.js`) | filter, selected ids, entries | query, load technicians, select | FullCalendar, server | entries agree with the filter; revealed in any case |
| Signup page (`signups.js`, `card_tokenization.js`, `payment_method_toggle.js`, `viacep.js`) | fields and errors, address, plan, method, card forms, token | type, leave a field, next, choose, submit | ViaCEP, SDK of Mercado Pago | errors are current; address of the CEP; a card is posted as a token |
| Orders of service, assignments | status, schedule, technicians | schedule, start, pause, finish, assign, overdue job | budgets, mobile API | transitions, no double booking |
| Support, users, plans, reports, audit, documents, other screens | their tables | forms, queries, rendering | – | mostly validation and formatting |

The hard behaviour is in the billing.  Five kinds of actors write the same rows: web
requests, webhook requests (several at a time), first-payment jobs, daily jobs, and
through them a gateway that has a state of its own.  There is no lock on a
subscription except in the reconciliation, and none on a company; jobs work on ids
they plucked earlier; handlers work on an answer they fetched earlier; the gateway
delivers late, twice, out of order or not at all; processes are restarted at every
deploy.  The budgets are decided by two people on copies of one row.  In the
browser, requests overlap, are not awaited or fail silently, and several scripts
listen to the same event.  The hazards, each at its line, are listed in
`PROJECT.json`.

## 2. Modules

| Module | Contents |
|---|---|
| `SubscriptionRow` | one row and the methods and scopes of `Subscription` as operators on it |
| `Billing` | one company, its rows, the gateway, web, webhooks, jobs, crashes and the calendar |
| `NoticeLedger` | abstract specification of the webhook endpoint: each notice takes effect once |
| `WebhookInbox` | the endpoint: concurrent requests, unique index, row lock, crashes |
| `BudgetApproval` | one budget, the requests of the manager and the customer, its order of service |
| `Onboarding` | a user's onboarding row, the requests that change it, the modal and the tour that send them |
| `OpenPage` | the one variable of the page modules: the page open in a tab |
| `ChecklistPage`, `CalendarPage`, `BudgetForm`, `SignupCompanyStep`, `SignupPlanStep` | the scripts of one page each |
| `BrowserTab` | composes the page modules: one page is open at a time, a page load ends it |
| `MCBilling`, `MCWebhookInbox`, `MCBudgetApproval`, `MCOnboarding`, `MCBrowserTab` | symmetry sets and constants for TLC |
| `Billing_proofs`, `BillingSafety_proofs`, `BillingAccess_proofs`, `WebhookInbox_proofs`, `BudgetApproval_proofs`, `Onboarding_proofs`, `BrowserTab_proofs` | the proofs |

A definition named `X_mutant` is a wrong variant of `X`, against which the property
it stands for is tried.

### Billing

*Rows.*  `sub[i]` is the i-th row the company created (ids in the order of
`created_at`, so "the newest" is the greatest).  Status, period end, the
cancellation flags, the warning mark and the two external ids are kept; prices,
names, texts and timestamps nobody compares are not.  `plan` names the
subscription that sells the company's plan.

*Gateway.*  A charge is an invoice (pix or boleto, which differ only in texts)
or a preapproval (card); it is pending, approved or revoked, and carries the
plan it charges and the date it was last paid.  Each change puts a notice in
`notices`.  A notice carries only the id: the status is what the gateway says
when the handler asks, which is why a late notice does not bring an old status
but two handlers may apply theirs in the wrong order.

*Granularity.*  A step runs from one external call, job hand-over or plucked
list to the next.  So POST and the saving of its answer are two steps
(`PostInvoice`, `persist_payment_reference`; `CardPost`, `CardApply`), GET and
its application too (`HookFetch`, `HookApply`; `ReconcileFetch`,
`ReconcileApply`), PUT and the save as well (`FinalizeLoad`,
`FinalizeCommit`), and every job is a pluck followed by one step per id.  A handler
whose Active Record object was loaded in an earlier step writes what that object
knows (`CardApply`, `FinalizeCommit`).

*Transactions.*  `activate_as_current!` updates its row and then cancels the other
active ones by `update_all`, in one transaction at READ COMMITTED, without a lock
on the company.  `activate_as_current` is its statements: the row is locked, and
`others` are the rows the `update_all` sees active, those committed by then.
`Commit` makes both visible; it waits for rows that another open transaction has
locked, and leaves alone what is no longer active.  `overtaken` is history: another
transaction has put a row in force in between, which this one cannot see.
`RollBack` is a deadlock or another error of the database, `CommitWithoutPlan` a
`company.update!(plan: ...)` that raises: the processor rescues it inside the
endpoint's transaction, which then commits the activation with the notice marked
failed.  Transactions that save a single row are one step, their commit.  A SELECT
and the UPDATE that follows it in the same handler, with no external call between,
are one step too: also where the UPDATE waits for a lock, in which case the step is
taken once the lock is free, with the row as it is then.

*Callbacks.*  `after_commit :sync_company_access` is a step of its own after the
commit (`sync_company_access`); it may raise (`SyncRaises`: `company.update!`
validates), die with its process (`LoseCallbacks`), or run in another order than the
commits.  The history `astray` says that since the last change of a status that found
none waiting one was lost, skipped by `update_columns`, or overlapped by another.

*Failures.*  `MaxFailures` bounds, together, the crashes of the web process
(open transactions are rolled back, unanswered notices come back, callbacks and the
answer to a card request are lost) and of
Sidekiq (what its threads held is gone; a payment job may be pushed back), lost
notices, errors of the database, saves of the company that raise, and calls the
gateway fails.

*Start.*  A company that signed up for Starter (active free row, access), or
for a paid plan (pending row, with its payment job in the queue or its card
request in flight).

### WebhookInbox

A request goes through `Deliver` (SELECT), `Insert` (INSERT or, on
`RecordNotUnique`, the row of another request), the duplicate check before the
lock, `Lock` (SELECT FOR UPDATE and reload), the duplicate check inside it,
`Process`, `Commit`, `RunCallback` and `Respond`.  What a transaction wrote is
visible from its commit, so `processing` is never seen by another request.  The
processor succeeds, fails, or fails after it has saved the subscription ("partial"):
it rescues the error inside the endpoint's transaction, which commits what was saved
with the status failed (`webhook_processor.rb:20`).  `applied[k]` counts complete
effects that are committed, `changed` has the keys whose new status of the
subscription is, `due` the requests whose callback is to come, `synced` the keys whose
callback ran, `acked` those answered 2xx.  The callback may raise
(`CallbackRaises`): the endpoint answers 422 (`mercado_pago_controller.rb:118`) with
the event already processed, so that the redelivery is a duplicate.  `Crash` rolls
back, frees the lock and loses the callback of its request; `lost` has the keys for
which one of the two happened.

### BudgetApproval

A request loads the budget (`Load`: `set_budget` and the checks made on the copy)
and saves it in a second step, writing the attributes that differ from the copy
and the time stamps (`Saved`); only the approval locks the row and reads it again.
The time stamps are kept by whether they are set, the form and its items as a
version.  A link, once mailed, is good in any status.  Removing the order of
service clears the link of the budget (`DestroyOrder`).

### Onboarding

`calls` holds the requests on their way: a PATCH of the modal or the tour, or a
controller elsewhere that marks a step.  A request loads the row (`LoadRow`) and
writes the attributes it changed (`SaveRow`), the hash of completed steps as a
whole; it may be lost (`Lose`).  Whoever awaits it goes on in either case
(`Continue`).  Two histories are kept apart: `overlapped`, two requests about steps
were on their way at once, and `lost`, one of them was lost.  A page may run two
tours: one the URL asks for, one started from the modal.  intro.js and Bootstrap are
taken to be loaded.

### Pages

The scripts of a page live from its load to the next navigation, which is always a
full page load (Turbo is not used); so a page is one record, and `BrowserTab` lets
the user open another page at any time.  Requests are answered, or fail, in any
order, except that FullCalendar drops the answers to all queries but the last. The
two parts of the signup wizard share no state and count as two pages, so that their
state spaces add up instead of multiplying.  The checklist shows what the row says:
the steps, and whether `finished_at` is set, which stays when an overlapping request
has overwritten a step; requests fail any number of times.  The calendar also opens
without FullCalendar, when `connect` returns at once.  In `BudgetForm` an action is
one event with all its listeners in the order in which they run: the total in the
capture phase first, the mask or the change of rows after it.  A save may be refused
at any time: the form is drawn again from what was posted (`SaveRefused`), where a
row that was removed is visible again with `_destroy` "true", and the script looks
for '1'.

## 3. Runs

Bounds of all billing runs: a period of 2 days, renewal invoiced 1 day before its
end, warning at once and expiry 1 day after it, and a calendar of 1 to 5 days,
long enough for a first period, its renewal, and the expiry of either.  The
calendar and the gateway's ids run out, so these runs do not check deadlock; the
inbox run does.

| Run | Instance | Checks |
|---|---|---|
| `billing_overdue` | 1 row, 2 invoices, cycle and expire jobs, 4 days | `PaidPlanWasPaid`, `OverdueEventuallyExpires` |
| `billing_cancellation` | 1 row, 1 invoice, cycle (whose POST fails), finalize and reconcile jobs, 4 days, 1 failure | `TypeOK`, `AccessAgrees`, `FinalizeKeepsPaidDays`, `DueCancellationTakesEffect`, `PaymentEventuallyApplied` |
| `billing_upgrade` | Starter and two attempts at a paid plan, 2 invoices, 2 webhook requests (symmetric), 1 day, no failures | `StarterNeverBilled`, `OnlyOverlapDoubles`, `StarterKeptUntilPaid` |
| `billing_card` | 2 rows, 2 charges, card and pix, free and paid signup, notify and finalize jobs, 3 days, 1 failure | `PaidPlanWasPaid`, `AccessNeedsActive`, `ActivationSupersedes`, `StarterKeptUntilPaid` |
| `inbox` | 2 notices, 2 requests, 1 crash | `TypeOK`, `AppliedOnce`, `AckedWasApplied`, `OneProcessor`, `SyncedOrLost`, `EventuallyAcked`, `ImplementsLedger` |
| `budget` | 2 requests (symmetric), 2 orders, 2 edits | `OneOrder`, `StampsAgree`, `ApprovalStands` |
| `onboarding` | 2 steps, one of them on a tour of 3 stops, 2 requests at a time, 2 steps marked or stops shown, 1 page load, 1 lost request | `FinishedWithLastStep`, `LastSeenIsLatest`, `StepsStick`, `ScreenNeverHangs` |
| `pages` | 2 steps, 2 overlapping refreshes, 1 overwritten step; 2 technicians, 3 orders; 2 rows, prices with and without a final zero, 4 timers; 2 CEPs, 3 lookups; 2 card forms; 1 page load | `CalendarAgrees`, `TotalReflectsItems`, `ErrorsAreCurrent`, `AddressUnlessOvertaken`, `CardPostTokenized`, `ChecklistCatchesUp`, `PageRevealed` |

Why this is enough.  Two webhook requests are the least that apply notices out
of order and race for a row; three rows the least with two rival upgrades beside
Starter; two charges the least with a renewal, or with one invoice per upgrade.
Two requests are the least of which one saves over the other's budget; two orders
the least with one removed and made again.  Two answers in flight are the least that
come in the wrong order; refreshes go on, so a later one repairs it.  Two rows of a form
are the least with one kept and one removed.  Symmetry is
used only in `billing_upgrade` and `budget`, which have no liveness property.  The
runs `onboarding` and `pages` do not check deadlock: a user who has closed the tour or
signed up need not do anything more.

Four runs look for a statement of the documentation and find it violated:

| Run | Statement | What happens |
|---|---|---|
| `billing_failed_upgrade` | access continues through Starter while an upgrade is pending (`docs/gestor/conta/como_fazer_upgrade_de_plano.md:22`) | the invoice of the upgrade lapses; `cancel!` on the pending row deactivates the company (`webhook_processor.rb:77`, `subscription.rb:308`) |
| `billing_stale_expire` | the job expires what is overdue by 10 days or more (`README.md:425`) | the row is plucked, then paid, then expired (`expire_overdue_subscriptions.rb:12`) |
| `billing_wrong_invoice` | a payment is applied to the right subscription and plan (`docs/dev/ai/integracoes_e_webhooks.md:38`) | a notice that comes before its id is saved lands on the newest row (`webhook_processor.rb:50`) |
| `billing_scheduled` | with a cancellation scheduled the subscription stays active until the date (`docs/gestor/conta/como_gerenciar_assinatura.md:21`) | the notice that a renewal invoice was created makes the row pending (`webhook_processor.rb:69`) |

What the passing runs depend on and a reader should know.

- *At most one active row* is not kept.  `docs/dev/ai/assinaturas.md:109` says of
  `activate_as_current!` that it cancels the other active subscriptions, and so it does
  with those it sees; two requests that activate two rows at once do not see each
  other's (`subscription.rb:73-84`), and both stay active.  The reconciliation calls
  `activate_for!`, which leaves the others alone (`reconcile_subscription.rb:98`).
  `OnlyOverlapDoubles` says that these two are all, and `ActivationSupersedes` that
  the next activation which is not overtaken repairs it.
- *`AccessAgrees`* is for a company with one row: with a pending upgrade beside Starter
  it fails, which is the first finding.  It is checked once the callbacks have run, and
  not after one was lost or raised, or two waited at once, until the next change of a
  status: in all of these the code leaves the access wrong (`subscription.rb:55`, `:308`).
- *`AccessNeedsActive`* is the half of it that holds with several rows, with the same
  exceptions and one more: when the answer to `POST /preapproval` is lost, the settings page
  cancels by `update_columns` a row that a notice may have activated meanwhile
  (`configurations_controller.rb:152`), and no callback closes the access.
- *`FinalizeKeepsPaidDays`* is a property of invoices.  With a card the job calls the
  gateway between its second look and its save; a resume or a debit in between is
  overwritten (`finalize_scheduled_cancellation.rb:18`).
- *A lost callback is not made up for*: `SyncedOrLost` says only that nothing else leaves a
  processed notice without it.

`ApprovalStands` lets a request that read the budget before its approval save over
it, and `StampsAgree` holds until that happens: rejection, sending and editing look
at the status in memory only (`budget.rb:87`, `budgets_controller.rb:57`, `:120`),
so an approved budget with an order of service can end up rejected or sent, with two
time stamps.  `StepsStick` excludes overlapping requests: the hash of completed
steps is written as a whole (`user_onboarding_progress.rb:21`); `LastSeenIsLatest`
excludes them and lost ones.  Some pages show something wrong that their property
excludes: the calendar keeps filtered entries under an empty filter when two
requests for the technicians overlap (`calendar_controller.js:56`, `:117`); the form
of a saved budget shows a tenth of each price that ends in a zero until a field is
touched, because the total is computed from `"150.0"` before the mask
(`budget_form.js:78`, `application.js:413`); a row that was removed comes back with
a refused save, is counted, and is destroyed by the next one (`budget_form.js:37`,
`_form.html.erb:57`); the calendar stays invisible when FullCalendar did not load
(`calendar_controller.js:24`); the address of an earlier CEP stays when the lookups
answer in the other order (`viacep.js:9`).  The checks that `signups.js:111` and
`:198` make to block the next button come after its `onclick`, and do not stop it:
`NextStep` always leaves the step.

### Fairness

`Billing`: weak fairness of the expire, finalize and reconcile jobs (cron entries
that run every day, `config/initializers/sidekiq_schedules.rb`), and of `Finish`:
statements that are executed are followed by their commit or rollback and their
callback.  Nothing is assumed of the webhook requests, of customers, of the
calendar, of the gateway's decisions or of failures.  `WebhookInbox`: every request
runs to its end; a notice that is not acknowledged is delivered again and again; a
request that waits for a lock gets it in the end; the processor does not fail for
ever on the same notice. `Onboarding`: requests run to their end, the timer of the
modal fires, answers are handled.  Pages: the interval of the checklist goes on
firing; of its requests, sent again and again, any number may fail but not all from
some point on (strong fairness of `ReadProgress` and `renderPayload`); the queries
of the calendar and the list of technicians are answered or fail, and may fail for
ever.  Nothing is assumed of the user.

## 4. Proofs

`WebhookInbox_proofs` proves, for any sets of keys and requests and any number of
crashes, the type invariant, the four safety invariants of the run `inbox`, and
that each step of the endpoint is a step of the ledger or a stutter.  The inductive
invariant says who holds which lock and what a request between `Lock` and `Commit`
knows: it holds the lock of its key, and the status it has read is still the
committed one.  The safety invariants are not inductive without it: from a state
with two requests in `processing` on one key, both would commit.  `SyncInv`, for
`SyncedOrLost`, says that the callback of a committed status is due to one request,
run, or lost, and only one of the three.

`Billing_proofs` proves `Spec => []TypeOK` for all values of the constants, one
lemma per group of actions.  It is not a formality: it says that no sequence of
activations pushes a date beyond one period after the calendar, that every id
saved in a row, list or request is one the gateway has given, and that a refused
or failed step leaves its variables in range.  Assumptions are the named
ASSUMEs of `SubscriptionRow` and `Billing`, evaluated by every run.

`BillingSafety_proofs` proves three properties of `Billing` for all values of the
constants.  They come from two inductive invariants, which hold in the runs as well:

- `StarterInv` for `StarterNeverBilled` and `StarterKeptUntilPaid`.  A job or a
  webhook works on an id it read earlier, so the properties say nothing of a
  later step by themselves.  The invariant says that every id held between two
  steps (queue, POSTed invoices, lists, card request, finalization,
  reconciliation) is that of a paid row (`HeldRowsPaid`), that only row 1 may be
  the Starter, and that the gateway knows nothing of a company without a paid
  row (`ChargedOnlyIfPaid`).  With the last two the fallback of the webhook on
  the newest row never meets the Starter (`TargetPaid`).
- `PaidInv` for `PaidPlanWasPaid`: every stored or fetched "approved" is about a
  charge that has a date of payment, and no date a notice or a reconciliation
  holds is in the future.

The proofs have one lemma per group of actions, and under it one step per action.

`BillingAccess_proofs` is about which rows are active and what the access makes of it,
for any number of rows, charges, requests and failures.  Every step is of one of a few
kinds (`StepMoves`): no row starts; a transaction commits; the reconciliation applies;
and for the access: nothing that concerns it, a save that leaves a callback, the
callback, or something goes astray.

- `SupersedeInv` for `OnlyOverlapDoubles` and `ActivationSupersedes`: a transaction that
  is open and not overtaken has on its list of others every row that is active, apart
  from its own.  Rows that end meanwhile do no harm, a row that starts is what
  `overtaken` records.  The two properties have no condition.
- `AccessInv` for `AccessAgrees` and `AccessNeedsActive`: unless something went astray at
  most one callback waits, and it will make the access agree.  The first needs
  `MaxSubs = 1`, with any jobs and cards; with two rows a failed upgrade is the
  counterexample.
- `InvoiceInv` for `FinalizeKeepsPaidDays`, which needs `"credit_card" \notin Methods`:
  no cancellation is scheduled for a day before the end of the period (`Scheduled`), no
  request waits for the gateway with an old copy of a row, and an activation that is
  open withdraws the cancellation.

`BudgetApproval_proofs` proves type correctness and the three properties of the run
`budget` for any number of requests, orders and edits.  The inductive invariant
adds that a request in its second step has passed the checks on its copy
(`RequestInv`): without it a rejection could come from a copy that was approved.
That no save touches the link, whatever the copy knows of it, is the lemma
`SavedLink`; on an unchanged row a save writes the copy as a whole (`SavedIsNew`).
`ApprovalStandsHolds` takes one step per operation: only a request whose copy was not
yet approved can change the status.

`Onboarding_proofs` proves `FinishedWithLastStep` and `StepsStick` for any set of
steps, any tour and any number of requests.  Neither says what a request on its way
holds, which decides the later save.  The inductive invariant does: a request that
will write the whole set of steps also writes `finished`, or loaded a row that had
it (`WritesOK`), and nothing unfinishes a row; until requests overlap at most one is
about a step, and it has loaded every step that is done (`OneAtATime`).  A tour shows
only stops it has (`PageOK`), so no request is about an unknown step.

`StepsStick` is excused by `overlapped` alone: whatever requests are lost, as long as no
two about steps overlap no step is undone.

The same module proves `LastSeenIsLatest`.  `SeenInv` says, until requests about
steps overlap or one is lost, what the requests on their way will do to the step
seen last: one that is sent, or will write it, is about the latest step, and another
that has loaded the row, a dismissal, does not write it.  Without the last part a
late dismissal could write back an old step.

`BrowserTab_proofs` proves the five safety invariants of the run `pages` for any data
and any number of rows, timers, lookups, card forms and page loads.  Each page has an
invariant of its own, and a step changes only the page that is open (`PageNext`); TLC
has checked them (`PageInv`) on the instance of the run.

- `CalendarInv`: if the library loaded, and while requests for the technicians do not
  overlap, there is at most one, and none once the list has come; the selection of the
  filter and the ids the script keeps are the same, and so are those of the query
  awaited.  An answer for technicians empties both at a time when they are already empty.
- `BudgetFormInv`: after the load event every price is masked, because rows are added
  masked and an edit masks; whoever changes rows leaves timers pending (`Scheduled`).
  With every price masked the page reads the prices it will save; in a form where no
  removed row came back the rows it counts are those a save keeps.
- `CompanyStepInv`: a field without the focus shows the error of its value, since a
  value changes only under the focus; and the last lookup on its way is the one asked
  last, also after the first one on the list was answered (`LookupAnswered`).
- `PlanStepInv`: with the SDK a card is chosen only with a paid plan, its inputs
  shown and at least one card form on the page.  `cardFormInstance` alone would not do:
  unmounting forgets a form that still hears the submit.

Only model-checked: the liveness properties `OverdueEventuallyExpires`,
`DueCancellationTakesEffect`, `PaymentEventuallyApplied`, `EventuallyAcked`,
`ScreenNeverHangs`, `ChecklistCatchesUp`, `PageRevealed` and the fairness part of
`ImplementsLedger`, which are outside the prover.  Every safety property of a
passing run is proved, `AccessAgrees` for one row and `FinalizeKeepsPaidDays` for
invoices, as in their runs.  The four statements that are violated, and at most one
active row, are false.

## 5. Not modelled

The components marked `not_modelled` in `PROJECT.json`, and within the billing:
coupons and trial periods, `upgrade_to_plan!` (no caller), prices, e-mails, audit
records, the signature check of the endpoint, and the 30-day window of the
reconciliation, which is longer than the calendar of the runs.  A gateway GET
that fails leaves the notice to be delivered again, which is a stutter here.

## 6. Plan

1. *Done:* `SubscriptionRow`, `Billing`, `NoticeLedger`, `WebhookInbox`,
   `BudgetApproval`, `Onboarding`, `BrowserTab` and its pages, their runs; proofs of
   all safety properties of the passing runs, and of the refinement of the ledger.
2. `WorkOrder`: status machine of the order of service, assignments, the job that
   marks overdue orders, web and mobile updates.
3. `SignupCoupons`: redemption limits under concurrent signups.
4. Theorems: that the notice which makes a renewed row pending, the wrong invoice and
   the stale expiry are the only steps behind their findings.
