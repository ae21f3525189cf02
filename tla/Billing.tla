------------------------------- MODULE Billing -------------------------------
(***************************************************************************)
(* The billing of ONE company: its rows in subscriptions, the company row, *)
(* the Mercado Pago gateway, the web requests that start, schedule and     *)
(* resume, the payment webhooks, and the daily Sidekiq jobs, all of them   *)
(* concurrent.                                                             *)
(*                                                                         *)
(* Granularity.  One step runs from an external call, a job hand-over or a *)
(* list of plucked ids to the next one, so a job works on ids that may be  *)
(* stale, and a handler on an answer that may be.  A transaction that      *)
(* writes one row is one step, its commit; activate_as_current!, which     *)
(* writes several and reads what others have committed (READ COMMITTED),   *)
(* is two, its statements and its commit.  The after_commit callback       *)
(* sync_company_access is a step of its own, after the commit.             *)
(***************************************************************************)
EXTENDS SubscriptionRow, FiniteSets

CONSTANTS MaxSubs,      \* rows the company may create
          MaxCharges,   \* payments and preapprovals the gateway may create
          Handlers,     \* concurrent webhook requests
          Methods,      \* payment methods on offer: "pix" (boleto alike), "credit_card"
          Plans,        \* plan at signup: "free" (Starter), "paid"
          Jobs,         \* daily jobs that are scheduled
          MaxDay,       \* horizon of the calendar
          MaxFailures   \* crashes, lost notices and gateway errors in all

ASSUME SizeAssumption == /\ MaxSubs \in Nat \ {0}
                         /\ MaxCharges \in Nat
                         /\ MaxDay \in Nat \ {0}
                         /\ MaxFailures \in Nat
ASSUME MethodAssumption == /\ Methods \subseteq {"pix", "credit_card"}
                           /\ Methods # {}
ASSUME PlanAssumption == Plans \subseteq {"free", "paid"}
ASSUME HandlerAssumption == Handlers \cap ({"card"} \cup Jobs) = {}
ASSUME JobAssumption ==
    Jobs \subseteq {"cycle", "notify", "expire", "finalize", "reconcile"}

Subs == 1 .. MaxSubs          \* ids in the order of created_at
Charges == 1 .. MaxCharges    \* ids in the order the gateway gives them
Days == 1 .. MaxDay

\* A row's dates stay inside the calendar plus one period.
Dates == 0 .. MaxDay + Period
Ids == Charges \cup {NoCharge}
Rows == Row(Dates, Ids)
NoSub == 0

VARIABLES
    sub,       \* the company's subscriptions
    access,    \* users.active of the company's users (and companies.active)
    method,    \* companies.payment_method
    plan,      \* companies.plan, named by the subscription that sells it
    charge,    \* the gateway's payments ("invoice") and preapprovals
    notices,   \* webhook notices the gateway has not delivered yet
    hook,      \* per webhook request: the notice and the status it fetched
    card,      \* the web request that waits for POST /preapproval
    queue,     \* subscriptions with an enqueued first-payment job
    activation,  \* per web request: an open transaction of activate_as_current!
    callback,  \* per process: an after_commit callback that has not run yet
    astray,    \* history: a callback was lost or skipped, or two waited at once
    posted,    \* invoices POSTed whose id is not saved yet
    list,      \* per job: the plucked ids it has still to process
    fin,       \* a finalization that waits for PUT /preapproval
    recon,     \* a reconciliation that waits for its row lock
    today,
    failures

company == <<access, method, plan>>
gateway == <<charge, notices>>
web == <<hook, card>>
transactions == <<activation, callback, astray>>
jobs == <<queue, posted, list, fin, recon>>
clock == <<today, failures>>
vars == <<sub, company, gateway, web, transactions, jobs, clock>>

ChargeStatuses == {"unused", "pending", "approved", "revoked"}
Charge == [kind : {"invoice", "preapproval"}, status : ChargeStatuses,
           plan : Subs \cup {NoSub},     \* whose price is charged
           paidOn : Days \cup {NoDay}]   \* date_approved / last debit
NoChargeYet == [kind |-> "invoice", status |-> "unused",
              plan |-> NoSub, paidOn |-> NoDay]

\* "created" and "updated" carry only the id; "debit" (the topic
\* subscription_authorized_payment) has the date of the debit.
NoticeOf(c, kind) == [charge |-> c, kind |-> kind, on |-> NoDay]
Notice == [charge : Charges, kind : {"created", "updated", "debit"},
           on : Days \cup {NoDay}]

NoNotice == NoticeOf(NoCharge, "created")
Idle == [notice |-> NoNotice, status |-> "unused"]
Fetched == [notice : Notice, status : ChargeStatuses]

Results == {"none", "approved", "pending", "refused", "error", "saved"}
CardRequest == [sub : Subs, from : {"signup", "settings"},
                result : Results, charge : Ids]
NoCard == [sub |-> NoSub, from |-> "signup", result |-> "none",
           charge |-> NoCharge]

\* Who writes subscriptions and runs the callbacks of what it has committed.
Requests == Handlers \cup {"card"}
Processes == Requests \cup Jobs

\* The row it writes, the other rows it saw active, and whether another commit
\* has made a row active since.
Activation == [sub : Subs, row : Rows, others : SUBSET Subs, overtaken : BOOLEAN]
NoActivation == [sub |-> NoSub, row |-> NoRow, others |-> {}, overtaken |-> FALSE]

Callbacks == {"none", "activate", "deactivate"}

Posted == [sub : Subs, charge : Charges, by : {"payment_job", "cycle"}]

NoFin == [sub |-> NoSub, row |-> NoRow]
Finalization == [sub : Subs, row : Rows]

Reconciliation == [sub : Subs, charge : Charges, status : ChargeStatuses,
                   paidOn : Days \cup {NoDay}]
NoRecon == [sub |-> NoSub, charge |-> NoCharge, status |-> "unused",
            paidOn |-> NoDay]

----------------------------------------------------------------------------
Exists(s) == sub[s].status # "none"
Active == {s \in Subs : sub[s].status = "active"}

IsNewest(s) == Exists(s) /\ \A t \in Subs : Exists(t) => t <= s
current_active_subscription(s) == s \in Active /\ \A t \in Active : t <= s

NextRow(s) == ~Exists(s) /\ \A t \in Subs : t < s => Exists(t)
NextCharge(c) == /\ charge[c].status = "unused"
                 /\ \A d \in Charges : d < c => charge[d].status # "unused"

\* Free signup: an active Starter row, company.activate!.  Paid signup: a
\* pending row; the payment job is enqueued or the card request is in flight.
Init ==
    \E signup \in Plans, m \in Methods :
        LET isFree == signup = "free"
        IN  /\ sub = [s \in Subs |->
                        IF s # 1 THEN NoRow
                        ELSE NewRow(isFree, IF isFree THEN "active" ELSE "pending")]
            /\ access = isFree
            /\ method = IF isFree THEN "pix" ELSE m
            /\ plan = 1
            /\ queue = IF ~isFree /\ m = "pix" THEN {1} ELSE {}
            /\ card = IF ~isFree /\ m = "credit_card"
                        THEN [NoCard EXCEPT !.sub = 1] ELSE NoCard
            /\ charge = [c \in Charges |-> NoChargeYet]
            /\ notices = {}
            /\ hook = [h \in Handlers |-> Idle]
            /\ activation = [q \in Requests |-> NoActivation]
            /\ callback = [p \in Processes |-> "none"]
            /\ astray = FALSE
            /\ posted = {}
            /\ list = [j \in Jobs |-> {}]
            /\ fin = NoFin
            /\ recon = NoRecon
            /\ today = 1
            /\ failures = 0

----------------------------------------------------------------------------
\* UPDATE takes the lock of its row until the commit; writers of the row wait.
Locked(s) == \E q \in Requests : activation[q].sub = s

AfterCommit_mutant(p, old, new) ==      \* only ever activates the company
    IF old.status = new.status \/ new.status # "active" THEN UNCHANGED <<callback, astray>>
    ELSE /\ callback' = [callback EXCEPT ![p] = "activate"]
         /\ astray' = \E other \in Processes : callback[other] # "none"

\* A save that changed the status, as the process has loaded it, leaves a callback
\* to be run by the same process.  Two that wait at once may run in either order.
AfterCommit(p, old, new) ==
    IF old.status = new.status THEN UNCHANGED <<callback, astray>>
    ELSE /\ callback' = [callback EXCEPT ![p] =
                            IF new.status = "active" THEN "activate" ELSE "deactivate"]
         /\ astray' = \E other \in Processes : callback[other] # "none"

UpdateRow(p, s, r) ==
    /\ ~Locked(s)
    /\ sub' = [sub EXCEPT ![s] = r]
    /\ AfterCommit(p, sub[s], r)

activate_as_current_mutant(q, s, activated) ==      \* spares a row of the free plan
    /\ ~Locked(s)
    /\ activation' = [activation EXCEPT ![q] =
            [sub |-> s, row |-> activated, others |-> {t \in Active \ {s} : ~sub[t].free},
             overtaken |-> FALSE]]
    /\ UNCHANGED <<callback, astray>>

\* The statements of activate_as_current!: the row is updated and locked, and the
\* update_all on the other active rows sees those that are committed by now.
activate_as_current(q, s, activated) ==
    /\ ~Locked(s)
    /\ activation' = [activation EXCEPT ![q] =
            [sub |-> s, row |-> activated, others |-> Active \ {s}, overtaken |-> FALSE]]
    /\ UNCHANGED <<callback, astray>>

Fails == failures < MaxFailures /\ failures' = failures + 1

Overtake(a) == IF a = NoActivation THEN a ELSE [a EXCEPT !.overtaken = TRUE]

SaveActivation_mutant(q) ==      \* leaves the other rows active
    /\ activation[q] # NoActivation
    /\ sub' = [sub EXCEPT ![activation[q].sub] = activation[q].row]
    /\ activation' = [o \in Requests |-> IF o = q THEN NoActivation
                                         ELSE Overtake(activation[o])]

\* What the commit makes visible.  update_all waits for rows under the lock of
\* another, and cancels those that are still active; it runs no callbacks.
SaveActivation(q) ==
    LET a == activation[q]
    IN  /\ a # NoActivation
        /\ \A s \in a.others : ~Locked(s)
        /\ sub' = [t \in Subs |->
                IF t = a.sub THEN a.row
                ELSE IF t \in a.others \cap Active THEN status_cancelled(sub[t])
                ELSE sub[t]]
        /\ activation' = [o \in Requests |-> IF o = q THEN NoActivation
                                             ELSE Overtake(activation[o])]

\* The request goes on with its callback.  A card request had loaded its row as
\* pending; the copy of a webhook is the row, locked since.
Commit(q) ==
    /\ SaveActivation(q)
    /\ plan' = activation[q].sub
    /\ AfterCommit(q, IF q = "card" THEN NewRow(FALSE, "pending") ELSE sub[activation[q].sub],
                   activation[q].row)
    /\ hook' = [h \in Handlers |-> IF h = q THEN Idle ELSE hook[h]]
    /\ card' = IF q = "card" THEN [card EXCEPT !.result = "saved"] ELSE card
    /\ UNCHANGED <<access, method, gateway, jobs, clock>>

\* company.update!(plan: ...) raises: the processor rescues it inside the endpoint's
\* transaction, which commits the rest and the failure of the notice; the callback
\* raises on the same company.
CommitWithoutPlan(h) ==
    /\ SaveActivation(h)
    /\ Fails
    /\ astray' = (astray \/ sub[activation[h].sub].status # activation[h].row.status)
    /\ hook' = [hook EXCEPT ![h] = Idle]
    /\ notices' = notices \cup {hook[h].notice}
    /\ UNCHANGED <<company, charge, callback, card, jobs, today>>

WaitsFor(q, o) == activation[o].sub \in activation[q].others

\* PostgreSQL aborts one of two that wait for each other; any other error of the
\* database, or of the company's save in a card request, is a failure.  The notice
\* is answered by an error and delivered again.
RollBack(q) ==
    /\ activation[q] # NoActivation
    /\ IF \E o \in Requests : WaitsFor(q, o) /\ WaitsFor(o, q)
         THEN UNCHANGED failures ELSE Fails
    /\ activation' = [activation EXCEPT ![q] = NoActivation]
    /\ hook' = [h \in Handlers |-> IF h = q THEN Idle ELSE hook[h]]
    /\ notices' = notices \cup {hook[h].notice : h \in Handlers \cap {q}}
    /\ card' = IF q = "card" THEN [card EXCEPT !.result = "error"] ELSE card
    /\ UNCHANGED <<sub, company, charge, callback, astray, jobs, today>>

\* company.activate! or deactivate!.  It ends a card request.
sync_company_access(p) ==
    /\ callback[p] # "none"
    /\ access' = (callback[p] = "activate")
    /\ callback' = [callback EXCEPT ![p] = "none"]
    /\ card' = IF p = "card" THEN NoCard ELSE card
    /\ UNCHANGED <<sub, method, plan, gateway, hook, activation, astray, jobs, clock>>

\* company.update! validates and may raise.  The notice is processed by then and is
\* not looked at again; the command of a card takes it for a failed payment.
SyncRaises(p) ==
    /\ callback[p] # "none"
    /\ Fails
    /\ callback' = [callback EXCEPT ![p] = "none"]
    /\ astray' = TRUE
    /\ IF p = "card" /\ card.from = "settings"
         THEN /\ ~Locked(card.sub)
              /\ sub' = [sub EXCEPT ![card.sub] = status_cancelled(@)]
         ELSE UNCHANGED sub
    /\ card' = IF p = "card" THEN NoCard ELSE card
    /\ UNCHANGED <<company, gateway, hook, activation, jobs, today>>

----------------------------------------------------------------------------
(* App::ConfigurationsController *)

create_pending_paid_subscription_mutant(s, m) ==   \* cancels every other row
    /\ sub' = [t \in Subs |->
                CASE t = s -> NewRow(FALSE, "pending")
                  [] t # s /\ Exists(t) -> status_cancelled(sub[t])
                  [] OTHER -> sub[t]]
    /\ method' = m

create_pending_paid_subscription(s, m) ==
    /\ sub' = [t \in Subs |->
                CASE t = s -> NewRow(FALSE, "pending")
                  [] t # s /\ sub[t].status = "pending" /\ ~sub[t].free ->
                        status_cancelled(sub[t])
                  [] OTHER -> sub[t]]
    /\ method' = m

start_paid_subscription(s, m) ==
    /\ \E a \in Subs : current_active_subscription(a) /\ sub[a].free
    /\ NextRow(s)
    /\ \A t \in Subs : sub[t].status = "pending" => ~Locked(t)
    /\ create_pending_paid_subscription(s, m)
    /\ \/ /\ m = "pix"
          /\ queue' = queue \cup {s}
          /\ UNCHANGED card
       \/ /\ m = "credit_card"
          /\ card = NoCard
          /\ card' = [NoCard EXCEPT !.sub = s, !.from = "settings"]
          /\ UNCHANGED queue
    /\ UNCHANGED <<access, plan, gateway, hook, transactions, posted, list, fin, recon, clock>>

cancel_subscription(s) ==
    /\ current_active_subscription(s)
    /\ may_schedule_cancellation(sub[s])
    /\ ~Locked(s)
    /\ sub' = [sub EXCEPT ![s] = schedule_cancellation(@, today)]
    /\ UNCHANGED <<company, gateway, web, transactions, jobs, clock>>

resume_subscription(s) ==
    /\ current_active_subscription(s)
    /\ may_resume_cancellation(sub[s])
    /\ ~Locked(s)
    /\ sub' = [sub EXCEPT ![s] = resume_cancellation(@)]
    /\ UNCHANGED <<company, gateway, web, transactions, jobs, clock>>

----------------------------------------------------------------------------
(* Cmd::MercadoPago::CreateCreditCardPayment, inside a web request *)

\* What the gateway does with POST /preapproval: the answer the command sees
\* and the preapproval made.  An "error" is anything the client raises on (a
\* non-2xx, a lost connection), whether the preapproval was made or not.
Outcomes == {<<"approved", "approved">>, <<"pending", "pending">>,
             <<"refused", "revoked">>, <<"error", "approved">>}

CardPost(result, made) ==
    /\ card # NoCard
    /\ card.result = "none"
    /\ IF result = "error" THEN Fails ELSE UNCHANGED failures
    /\ \E c \in Charges :
        /\ NextCharge(c)
        /\ card' = [card EXCEPT !.result = result, !.charge = c]
        /\ charge' = [charge EXCEPT ![c] =
                [kind |-> "preapproval", status |-> made, plan |-> card.sub,
                 paidOn |-> IF made = "approved" THEN today ELSE NoDay]]
        /\ notices' = notices \cup {NoticeOf(c, "created")}
    /\ UNCHANGED <<sub, company, hook, transactions, jobs, today>>

CardPostRejected ==
    /\ card # NoCard
    /\ card.result = "none"
    /\ Fails
    /\ card' = [card EXCEPT !.result = "error"]
    /\ UNCHANGED <<sub, company, gateway, hook, transactions, jobs, today>>

\* The Subscription object was loaded before the POST, as pending.  The id is saved
\* first, in a transaction of its own.  The settings page cancels the row by
\* update_columns when the command fails; the signup page only shows an alert.
CardApply ==
    LET s == card.sub
        saved == [sub[s] EXCEPT !.pre = card.charge]
        failed == IF card.result = "refused" THEN saved ELSE sub[s]
    IN  /\ card # NoCard
        /\ activation["card"] = NoActivation
        /\ ~Locked(s)
        /\ \/ /\ card.result = "approved"
              /\ sub' = [sub EXCEPT ![s] = saved]
              /\ activate_as_current("card", s,
                        [saved EXCEPT !.status = "active", !.end = today + Period])
              /\ UNCHANGED card
           \/ /\ card.result = "pending"
              /\ sub' = [sub EXCEPT ![s] = saved]
              /\ card' = NoCard
              /\ UNCHANGED transactions
           \/ /\ card.result \in {"refused", "error"}
              /\ sub' = [sub EXCEPT ![s] = IF card.from = "settings"
                                             THEN status_cancelled(failed) ELSE failed]
              /\ astray' = (astray \/ (card.from = "settings" /\ s \in Active))
              /\ card' = NoCard
              /\ UNCHANGED <<activation, callback>>
        /\ UNCHANGED <<company, gateway, hook, jobs, clock>>

----------------------------------------------------------------------------
(* Cmd::MercadoPago::CreatePixPayment / CreateBoletoPayment, inside a job *)

PostInvoice(s, p, job) ==
    \E c \in Charges :
        /\ NextCharge(c)
        /\ charge' = [charge EXCEPT ![c] = [kind |-> "invoice", status |-> "pending",
                                            plan |-> p, paidOn |-> NoDay]]
        /\ notices' = notices \cup {NoticeOf(c, "created")}
        /\ posted' = posted \cup {[sub |-> s, charge |-> c, by |-> job]}

\* CreateUser::PixPaymentJob: the subscription and its plan are job arguments.
PaymentJobPost(s) ==
    /\ s \in queue
    /\ PostInvoice(s, s, "payment_job")
    /\ queue' = queue \ {s}
    /\ UNCHANGED <<sub, company, web, transactions, list, fin, recon, clock>>

\* The error is logged and the job ends without a retry.
PaymentJobFails(s) ==
    /\ s \in queue
    /\ Fails
    /\ queue' = queue \ {s}
    /\ UNCHANGED <<sub, company, gateway, web, transactions, posted, list, fin, recon, today>>

persist_payment_reference(p) ==
    /\ p \in posted
    /\ ~Locked(p.sub)
    /\ sub' = [sub EXCEPT ![p.sub].pay = p.charge]
    /\ posted' = posted \ {p}
    /\ UNCHANGED <<company, gateway, web, transactions, queue, list, fin, recon, clock>>

----------------------------------------------------------------------------
(* The daily jobs: pluck the ids of a scope, then handle them one by one *)

Pluck(j, ids) ==
    /\ j \in Jobs
    /\ list[j] = {}
    /\ callback[j] = "none"
    /\ ids # {}
    /\ list' = [list EXCEPT ![j] = ids]
    /\ UNCHANGED <<sub, company, gateway, web, transactions, queue, posted, fin, recon, clock>>

\* A job goes on once the callback of its last row has run.
Done(j, s) ==
    /\ j \in Jobs
    /\ callback[j] = "none"
    /\ s \in list[j]
    /\ list' = [list EXCEPT ![j] = @ \ {s}]

CyclePluck ==
    Pluck("cycle", {s \in Subs : ready_to_cycle(sub[s], method, today)})

\* CycleSubscription reads only the company of the plucked row: the invoice is
\* for companies.plan, its id is saved in the NEWEST subscription.
CycleOne(s) ==
    /\ Done("cycle", s)
    /\ \A p \in posted : p.by # "cycle"
    /\ method = "pix"
    /\ \E t \in Subs : IsNewest(t) /\ PostInvoice(t, plan, "cycle")
    /\ UNCHANGED <<sub, company, web, transactions, queue, fin, recon, clock>>

\* Unknown method (the company has moved to a card) or a failed POST.
CycleRaises(s) ==
    /\ Done("cycle", s)
    /\ \A p \in posted : p.by # "cycle"
    /\ IF method = "pix" THEN Fails ELSE UNCHANGED failures
    /\ UNCHANGED <<sub, company, gateway, web, transactions, queue, posted, fin, recon, today>>

NotifyPluck ==
    Pluck("notify", {s \in Subs : overdue_for_notification(sub[s], today)})

NotifyOne(s) ==
    /\ Done("notify", s)
    /\ ~Locked(s)
    /\ sub' = [sub EXCEPT ![s].warned = TRUE]
    /\ UNCHANGED <<company, gateway, web, transactions, queue, posted, fin, recon, clock>>

ExpirePluck ==
    Pluck("expire", {s \in Subs : overdue_for_expiration(sub[s], today)})

\* The only thing the command checks again is that the row is not expired yet.
ExpireOne(s) ==
    /\ Done("expire", s)
    /\ IF sub[s].status = "expired"
         THEN UNCHANGED <<sub, callback, astray>>
         ELSE UpdateRow("expire", s, expire(sub[s]))
    /\ UNCHANGED <<company, gateway, web, activation, queue, posted, fin, recon, clock>>

FinalizePluck ==
    Pluck("finalize", {s \in Subs : scheduled_for_cancellation_due(sub[s], today)})

RevokeCharge(c) ==
    /\ charge' = [charge EXCEPT ![c].status = "revoked"]
    /\ notices' = notices \cup {NoticeOf(c, "updated")}

FinalizeAgrees_unchecked(s) == TRUE           \* mutant: trusts the plucked id
FinalizeAgrees_late(s) ==                     \* mutant: < for <=
    sub[s].cancelAt /\ IsSet(sub[s].cancelOn) /\ sub[s].cancelOn < today

\* The early return of the command, on the row as loaded.
FinalizeAgrees(s) == cancel_due(sub[s], today)

NeedsGateway(s) == method = "credit_card" /\ sub[s].pre # NoCharge

\* Loads the row; returns unless cancel_due?; a card subscription is first
\* cancelled in the gateway, which may fail.
FinalizeLoad(s) ==
    /\ Done("finalize", s)
    /\ fin = NoFin
    /\ \/ /\ ~FinalizeAgrees(s)
          /\ UNCHANGED <<sub, callback, astray, gateway, fin, failures>>
       \/ /\ FinalizeAgrees(s)
          /\ ~NeedsGateway(s)
          /\ UpdateRow("finalize", s, finalize_scheduled_cancellation(sub[s], sub[s]))
          /\ UNCHANGED <<gateway, fin, failures>>
       \/ /\ FinalizeAgrees(s)
          /\ NeedsGateway(s)
          /\ RevokeCharge(sub[s].pre)
          /\ fin' = [sub |-> s, row |-> sub[s]]
          /\ UNCHANGED <<sub, callback, astray, failures>>
       \/ /\ FinalizeAgrees(s)
          /\ NeedsGateway(s)
          /\ Fails
          /\ UNCHANGED <<sub, callback, astray, gateway, fin>>
    /\ UNCHANGED <<company, web, activation, queue, posted, recon, today>>

FinalizeCommit ==
    /\ fin # NoFin
    /\ ~Locked(fin.sub)
    /\ sub' = [sub EXCEPT ![fin.sub] = finalize_scheduled_cancellation(@, fin.row)]
    /\ AfterCommit("finalize", fin.row, finalize_scheduled_cancellation(fin.row, fin.row))
    /\ fin' = NoFin
    /\ UNCHANGED <<company, gateway, web, activation, queue, posted, list, recon, clock>>

----------------------------------------------------------------------------
(* ReconcileSubscriptionsJob and ReprocessPendingPaymentsJob *)

\* The id the reconciliation asks the gateway about.
GatewayId(s) == IF method = "credit_card" THEN sub[s].pre ELSE sub[s].pay

\* The window of 30 days on updated_at is longer than the horizon.
ReconcilePluck ==
    Pluck("reconcile", {s \in Subs : /\ ~sub[s].free
                                     /\ sub[s].status \in {"pending", "active"}
                                     /\ GatewayId(s) # NoCharge})

\* The ids come newest first.  A row without the id is registered as an error.
ReconcileFetch(s) ==
    LET c == GatewayId(s)
    IN  /\ recon = NoRecon
        /\ Done("reconcile", s)
        /\ \A t \in list["reconcile"] : t <= s
        /\ recon' = IF c = NoCharge THEN NoRecon
                    ELSE [sub |-> s, charge |-> c, status |-> charge[c].status,
                          paidOn |-> charge[c].paidOn]
        /\ UNCHANGED <<sub, company, gateway, web, transactions, queue, posted, fin, clock>>

\* with_lock reloads the row; the payment id it asked about is saved again.
\* activate_for! is called directly: no other row is cancelled, companies.plan
\* is left alone.
reconcile_saved(r) ==
    IF charge[recon.charge].kind = "invoice"
      THEN [r EXCEPT !.pay = recon.charge] ELSE r

apply_gateway_status_mutant(r) ==    \* the guard of "pending" on "approved" too
    CASE recon.status = "approved" /\ r.status \notin {"pending", "active"} ->
            activate_for(r, today)
      [] recon.status = "revoked" /\ r.status # "cancelled" -> cancel(r)
      [] OTHER -> r

apply_gateway_status(r) ==
    LET approvedAt == IF charge[recon.charge].kind = "invoice" /\ IsSet(recon.paidOn)
                        THEN recon.paidOn ELSE today
    IN  CASE recon.status = "approved" /\ r.status # "active" -> activate_for(r, approvedAt)
          [] recon.status = "revoked" /\ r.status # "cancelled" -> cancel(r)
          [] recon.status = "pending" /\ r.status \notin {"pending", "active"} -> to_pending(r)
          [] OTHER -> r

ReconcileApply ==
    /\ recon # NoRecon
    /\ UpdateRow("reconcile", recon.sub, apply_gateway_status(reconcile_saved(sub[recon.sub])))
    /\ activation' = IF Active' \subseteq Active THEN activation
                     ELSE [q \in Requests |-> Overtake(activation[q])]
    /\ recon' = NoRecon
    /\ UNCHANGED <<company, gateway, web, queue, posted, list, fin, clock>>

----------------------------------------------------------------------------
(* MercadoPago::WebhookProcessor *)

\* GET of the payment, preapproval or authorized payment the notice names.
HookFetch(h, n) ==
    /\ hook[h] = Idle
    /\ callback[h] = "none"
    /\ n \in notices
    /\ hook' = [hook EXCEPT ![h] = [notice |-> n,
                                    status |-> charge[n.charge].status]]
    /\ notices' = notices \ {n}
    /\ UNCHANGED <<sub, company, charge, card, transactions, jobs, clock>>

Refers(s, c) == IF charge[c].kind = "invoice" THEN sub[s].pay = c ELSE sub[s].pre = c

Target_mutant(s, n) ==      \* falls back on the subscription in force
    \/ Exists(s) /\ Refers(s, n.charge)
    \/ /\ n.kind # "debit"
       /\ \A t \in Subs : ~Refers(t, n.charge)
       /\ current_active_subscription(s)

\* find_by the external id (any row, if several have it), else the newest
\* subscription of the company in external_reference.  A debit has no fallback.
Target(s, n) ==
    \/ Exists(s) /\ Refers(s, n.charge)
    \/ /\ n.kind # "debit"
       /\ \A t \in Subs : ~Refers(t, n.charge)
       /\ IsNewest(s)

hook_saved(r, c) == IF charge[c].kind = "invoice" THEN [r EXCEPT !.pay = c]
                                                  ELSE [r EXCEPT !.pre = c]

\* process_payment, process_preapproval and process_authorized_payment.
HookApply(h, s) ==
    LET n == hook[h].notice
        st == hook[h].status
        r == hook_saved(sub[s], n.charge)
    IN  /\ hook[h] # Idle
        /\ activation[h] = NoActivation
        /\ Target(s, n)
        /\ \/ /\ n.kind = "debit"
              /\ activate_as_current(h, s, activate_for(sub[s], n.on))
              /\ UNCHANGED <<sub, hook>>
           \/ /\ n.kind # "debit"
              /\ st = "approved"
              /\ activate_as_current(h, s, activate_for(r, today))
              /\ UNCHANGED <<sub, hook>>
           \/ /\ n.kind # "debit"
              /\ st \in {"pending", "revoked"}
              /\ UpdateRow(h, s, IF st = "pending" THEN to_pending(r) ELSE cancel(r))
              /\ hook' = [hook EXCEPT ![h] = Idle]
              /\ UNCHANGED activation
        /\ UNCHANGED <<company, gateway, card, jobs, clock>>

\* No subscription: the answer is 422 and the gateway will deliver again.
HookRejects(h) ==
    /\ hook[h] # Idle
    /\ activation[h] = NoActivation
    /\ \A s \in Subs : ~Target(s, hook[h].notice)
    /\ hook' = [hook EXCEPT ![h] = Idle]
    /\ notices' = notices \cup {hook[h].notice}
    /\ UNCHANGED <<sub, company, charge, card, transactions, jobs, clock>>

----------------------------------------------------------------------------
(* The gateway, the processes and the calendar *)

\* The customer pays an invoice, the bank authorizes a preapproval.
Settle(c) ==
    /\ charge[c].status = "pending"
    /\ charge' = [charge EXCEPT ![c] = [@ EXCEPT !.status = "approved", !.paidOn = today]]
    /\ notices' = notices \cup {NoticeOf(c, "updated")}
    /\ UNCHANGED <<sub, company, web, transactions, jobs, clock>>

\* An invoice lapses or is refunded, a preapproval is paused or cancelled.
Revoke(c) ==
    /\ charge[c].status \in {"pending", "approved"}
    /\ RevokeCharge(c)
    /\ UNCHANGED <<sub, company, web, transactions, jobs, clock>>

\* The recurring debit of an authorized preapproval.
Debit(c) ==
    /\ charge[c].kind = "preapproval"
    /\ charge[c].status = "approved"
    /\ charge[c].paidOn + Period <= today
    /\ charge' = [charge EXCEPT ![c].paidOn = today]
    /\ notices' = notices \cup {[charge |-> c, kind |-> "debit", on |-> today]}
    /\ UNCHANGED <<sub, company, web, transactions, jobs, clock>>

\* The gateway gives up after its redeliveries.
LoseNotice(n) ==
    /\ n \in notices
    /\ Fails
    /\ notices' = notices \ {n}
    /\ UNCHANGED <<sub, company, charge, web, transactions, jobs, today>>

\* Callbacks of a process that dies are lost: what they follow is committed.
LoseCallbacks(processes) ==
    /\ callback' = [p \in Processes |-> IF p \in processes THEN "none" ELSE callback[p]]
    /\ astray' = (astray \/ \E p \in processes : callback[p] # "none")

\* A web process dies: open transactions are rolled back, unanswered notices are
\* delivered again, the card request is gone with its answer.
PumaCrash ==
    /\ \/ card # NoCard
       \/ \E h \in Handlers : hook[h] # Idle \/ callback[h] # "none"
    /\ Fails
    /\ notices' = notices \cup {hook[h].notice : h \in {g \in Handlers : hook[g] # Idle}}
    /\ hook' = [h \in Handlers |-> Idle]
    /\ card' = NoCard
    /\ activation' = [q \in Requests |-> NoActivation]
    /\ LoseCallbacks(Requests)
    /\ UNCHANGED <<sub, company, charge, jobs, today>>

\* Sidekiq dies: what its threads held is gone.  A payment job it was running
\* is pushed back on a clean shutdown only.
SidekiqCrash ==
    /\ Fails
    /\ \E redo \in SUBSET {p.sub : p \in {q \in posted : q.by = "payment_job"}} :
        queue' = queue \cup redo
    /\ posted' = {}
    /\ list' = [j \in Jobs |-> {}]
    /\ fin' = NoFin
    /\ recon' = NoRecon
    /\ LoseCallbacks(Jobs)
    /\ UNCHANGED <<sub, company, gateway, web, activation, today>>

Tick ==
    /\ today < MaxDay
    /\ today' = today + 1
    /\ UNCHANGED <<sub, company, gateway, web, transactions, jobs, failures>>

----------------------------------------------------------------------------
Web ==
    \/ \E s \in Subs, m \in Methods : start_paid_subscription(s, m)
    \/ \E s \in Subs : cancel_subscription(s) \/ resume_subscription(s)
    \/ \E outcome \in Outcomes : CardPost(outcome[1], outcome[2])
    \/ CardPostRejected
    \/ CardApply

Webhook ==
    \E h \in Handlers : \/ \E n \in notices : HookFetch(h, n)
                        \/ \E s \in Subs : HookApply(h, s)
                        \/ HookRejects(h)

\* What a process does next once its statements are executed.
Finish ==
    \/ \E q \in Requests : Commit(q) \/ RollBack(q)
    \/ \E h \in Handlers : CommitWithoutPlan(h)
    \/ \E p \in Processes : sync_company_access(p) \/ SyncRaises(p)

PaymentJob ==
    \/ \E s \in Subs : PaymentJobPost(s) \/ PaymentJobFails(s)
    \/ \E p \in posted : persist_payment_reference(p)

Cycle == CyclePluck \/ \E s \in Subs : CycleOne(s) \/ CycleRaises(s)
Notify == NotifyPluck \/ \E s \in Subs : NotifyOne(s)
Expire == ExpirePluck \/ \E s \in Subs : ExpireOne(s)
Finalize == FinalizePluck \/ (\E s \in Subs : FinalizeLoad(s)) \/ FinalizeCommit
Reconcile == ReconcilePluck \/ (\E s \in Subs : ReconcileFetch(s)) \/ ReconcileApply

Gateway ==
    \/ \E c \in Charges : Settle(c) \/ Revoke(c) \/ Debit(c)
    \/ \E n \in notices : LoseNotice(n)

Next ==
    \/ Web \/ Webhook \/ Finish \/ PaymentJob
    \/ Cycle \/ Notify \/ Expire \/ Finalize \/ Reconcile
    \/ Gateway \/ PumaCrash \/ SidekiqCrash \/ Tick

Spec == Init /\ [][Next]_vars

\* Sidekiq runs every scheduled job each day, and statements that are executed are
\* followed by their commit and callback.  Nobody else need move: not the gateway,
\* not the webhook requests, not the calendar.
Fairness ==
    /\ WF_<<activation, callback>>(Finish)
    /\ WF_list(Expire)
    /\ WF_<<list, fin>>(Finalize)
    /\ WF_<<list, recon>>(Reconcile)

FairSpec == Spec /\ Fairness

----------------------------------------------------------------------------
(* Properties *)

\* The type of every variable.
TypeOK ==
    /\ sub \in [Subs -> Rows]
    /\ access \in BOOLEAN
    /\ method \in {"pix", "credit_card"}
    /\ plan \in Subs
    /\ charge \in [Charges -> Charge]
    /\ notices \subseteq Notice
    /\ hook \in [Handlers -> Fetched \cup {Idle}]
    /\ card \in CardRequest \cup {NoCard}
    /\ activation \in [Requests -> Activation \cup {NoActivation}]
    /\ callback \in [Processes -> Callbacks]
    /\ astray \in BOOLEAN
    /\ queue \subseteq Subs
    /\ posted \subseteq Posted
    /\ list \in [Jobs -> SUBSET Subs]
    /\ fin \in Finalization \cup {NoFin}
    /\ recon \in Reconciliation \cup {NoRecon}
    /\ today \in Days
    /\ failures \in 0 .. MaxFailures

\* Whatever notice, job or retry arrives, the Starter row is never charged,
\* dated, warned about or scheduled: no fallback lands on it.
StarterNeverBilled ==
    \A s \in Subs : sub[s].free =>
        /\ sub[s].pay = NoCharge /\ sub[s].pre = NoCharge
        /\ ~IsSet(sub[s].end) /\ ~sub[s].warned /\ ~sub[s].cancelAt

\* A paid plan is in force only in a company that has paid at least once, and
\* never for longer than one period from now, however many notices of the same
\* payment are applied.
PaidPlanWasPaid ==
    \A s \in Active : ~sub[s].free =>
        /\ \E c \in Charges : IsSet(charge[c].paidOn)
        /\ IsSet(sub[s].end) /\ sub[s].end <= today + Period

\* docs/dev/ai/assinaturas.md:109: activate_as_current! activates the new
\* subscription and cancels the other active ones.  (Not kept by the code.)
OneActive == Cardinality(Active) <= 1

\* A second active row comes only of the reconciliation, which activates a row and
\* leaves the others alone, or of an activation that committed after another whose
\* row it could not see.
OnlyOverlapDoubles ==
    [][OneActive /\ ~OneActive' =>
            \/ ReconcileApply
            \/ \E q \in Requests : SaveActivation(q) /\ activation[q].overtaken]_vars

\* An activation that was not overtaken leaves its row as the only active one, also
\* when there were several: the cancellation of the others misses none.
ActivationSupersedes ==
    [][\A q \in Requests : SaveActivation(q) /\ ~activation[q].overtaken
            => Active' = {activation[q].sub}]_vars

\* No callback waits, and since the last change of a status that found none waiting
\* none was lost, skipped (update_columns) or overlapped by another.
Settled == ~astray /\ \A p \in Processes : callback[p] = "none"

\* Once the callbacks have run, the users' access (what every request asks) agrees with
\* "has an active subscription" (what the web asks as well).
AccessAgrees == Settled => (access <=> Active # {})

\* With several rows one half of it: nobody keeps the access without an active
\* subscription, whatever is cancelled without a callback by update_all.
AccessNeedsActive == Settled => (access => Active # {})

\* The active Starter ends only in the step that puts a paid plan in its place.
StarterKeptUntilPaid ==
    [][\A s \in Active : sub[s].free /\ sub[s].status # sub'[s].status =>
            \E t \in Subs : ~sub[t]'.free /\ sub[t]'.status = "active"]_vars

\* A row in force that the finalization ends has used up the days it was paid for,
\* whatever was renewed, resumed and scheduled again since its id was plucked.  (With
\* invoices.  With a card the days bought during the PUT are lost: FinalizeCommit.)
FinalizeKeepsPaidDays ==
    [][\A s \in Active : Finalize /\ sub[s].status # sub'[s].status
            => sub[s].end <= today]_vars

\* Each unpaid subscription ends: nobody keeps an overdue plan forever.
OverdueEventuallyExpires ==
    \A s \in Subs : overdue_for_expiration(sub[s], today)
        ~> ~overdue_for_expiration(sub[s], today)

\* A cancellation that has come due is carried out or withdrawn.
DueCancellationTakesEffect ==
    \A s \in Subs : scheduled_for_cancellation_due(sub[s], today)
        ~> ~scheduled_for_cancellation_due(sub[s], today)

\* A payment that its subscription knows of takes effect even when its
\* notices are lost: the reconciliation finds it.
PaymentEventuallyApplied ==
    \A s \in Subs, c \in Charges :
        LET Waiting == /\ sub[s].status = "pending"
                       /\ sub[s].pay = c
                       /\ charge[c].status = "approved"
        IN  Waiting ~> ~Waiting

(* Properties the documentation states and the code does not keep *)

\* docs/gestor/conta/como_fazer_upgrade_de_plano.md:22: until the payment is
\* confirmed the access continues through the Starter plan.
StarterGivesAccess == \A s \in Active : sub[s].free => access

\* README.md:425: the job expires subscriptions overdue by ten days or more.
ExpireOnlyOverdue ==
    [][\A s \in Subs : sub'[s].status = "expired" /\ sub[s].status # "expired"
            => overdue_for_expiration(sub[s], today)]_vars

\* docs/dev/ai/integracoes_e_webhooks.md:38: a payment belongs to the right
\* subscription and plan: an invoice is saved in the row whose plan it charges.
InvoiceOfOwnPlan ==
    \A s \in Subs : sub[s].pay # NoCharge => charge[sub[s].pay].plan = s

\* docs/gestor/conta/como_gerenciar_assinatura.md:21: with a cancellation
\* scheduled the subscription stays active until the date; here, as long as no
\* payment of the company was refused or refunded.
ScheduledStaysActive ==
    [][\A s \in Active :
            /\ sub[s].cancelAt /\ today < sub[s].cancelOn
            /\ \A c \in Charges : charge[c].status # "revoked"
            => sub'[s].status = "active"]_vars

=============================================================================
