--------------------------- MODULE Billing_proofs ---------------------------
(***************************************************************************)
(* For any number of subscriptions, charges, webhook requests and days:    *)
(* the types of Billing's variables.                                       *)
(***************************************************************************)
EXTENDS Billing, TLAPS

(* The methods of subscription.rb map rows to rows *)

\* The dates and ids a method writes are in range.
LEMMA RangesGood == /\ NoDay \in Dates
                    /\ NoCharge \in Ids
                    /\ Charges \subseteq Ids
                    /\ Days \subseteq Dates
                    /\ \A d \in Days \cup {NoDay} : d + Period \in Dates
  BY SizeAssumption, PeriodAssumption DEF Dates, Ids, Days, Charges, NoDay, NoCharge

\* create! makes a row in range, whichever plan and status it starts with.
LEMMA NewRowGood == ASSUME NEW free \in BOOLEAN, NEW st \in Statuses
                    PROVE NewRow(free, st) \in Rows
  BY RangesGood DEF Rows, Row, NewRow

\* No update leaves the range of the row it updates.
LEMMA UpdatesGood ==
    ASSUME NEW r \in Rows
    PROVE  /\ cancel(r) \in Rows
           /\ expire(r) \in Rows
           /\ to_pending(r) \in Rows
           /\ status_cancelled(r) \in Rows
           /\ resume_cancellation(r) \in Rows
           /\ [r EXCEPT !.warned = TRUE] \in Rows
           /\ \A loaded \in Rows : finalize_scheduled_cancellation(r, loaded) \in Rows
           /\ \A c \in Charges : [r EXCEPT !.pay = c] \in Rows
           /\ \A c \in Ids : [r EXCEPT !.pre = c] \in Rows
<1> USE RangesGood DEF Rows, Row, Statuses
<1>1. cancel(r) \in Rows /\ expire(r) \in Rows
  BY DEF cancel, expire
<1>2. to_pending(r) \in Rows /\ status_cancelled(r) \in Rows
  BY DEF to_pending, status_cancelled
<1>3. resume_cancellation(r) \in Rows /\ [r EXCEPT !.warned = TRUE] \in Rows
  BY DEF resume_cancellation
<1>4. ASSUME NEW loaded \in Rows
      PROVE finalize_scheduled_cancellation(r, loaded) \in Rows
  BY DEF finalize_scheduled_cancellation
<1>5. ASSUME NEW c \in Charges PROVE [r EXCEPT !.pay = c] \in Rows
  OBVIOUS
<1>6. ASSUME NEW c \in Ids PROVE [r EXCEPT !.pre = c] \in Rows
  OBVIOUS
<1> QED
  BY <1>1, <1>2, <1>3, <1>4, <1>5, <1>6

\* Dates written are at most one period after a day of the calendar.
LEMMA DatesGood ==
    ASSUME NEW r \in Rows, NEW day \in Days \cup {NoDay}
    PROVE  /\ activate_for(r, day) \in Rows
           /\ day \in Days => schedule_cancellation(r, day) \in Rows
           /\ [r EXCEPT !.status = "active", !.end = day + Period] \in Rows
<1> USE RangesGood DEF Rows, Row, Statuses
<1>1. activate_for(r, day) \in Rows
  BY DEF activate_for
<1>2. day \in Days => schedule_cancellation(r, day) \in Rows
  BY DEF schedule_cancellation
<1>3. [r EXCEPT !.status = "active", !.end = day + Period] \in Rows
  OBVIOUS
<1> QED
  BY <1>1, <1>2, <1>3

----------------------------------------------------------------------------
(* What the shared parts of the actions keep *)

\* Who runs callbacks is a process, and who activates is one of them.
LEMMA WhoRuns == /\ Requests \subseteq Processes
                 /\ Handlers \subseteq Requests
                 /\ "card" \in Requests
  BY DEF Processes, Requests

\* A save leaves at most one of the callbacks.
LEMMA AfterCommitType ==
    ASSUME TypeOK, NEW p, NEW old, NEW new, AfterCommit(p, old, new)
    PROVE  callback' \in [Processes -> Callbacks] /\ astray' \in BOOLEAN
<1>1. callback' \in [Processes -> Callbacks]
  BY DEF AfterCommit, TypeOK, Callbacks
<1>2. astray' \in BOOLEAN
  BY DEF AfterCommit, TypeOK
<1> QED
  BY <1>1, <1>2

\* Saving one row keeps the table and the callbacks well typed.
LEMMA UpdateRowType ==
    ASSUME TypeOK, NEW p, NEW s \in Subs, NEW r \in Rows, UpdateRow(p, s, r)
    PROVE  /\ sub' \in [Subs -> Rows]
           /\ callback' \in [Processes -> Callbacks]
           /\ astray' \in BOOLEAN
<1>1. sub' \in [Subs -> Rows]
  BY DEF UpdateRow, TypeOK
<1> QED
  BY <1>1, AfterCommitType DEF UpdateRow

\* The statements of activate_as_current! open a transaction on a row.
LEMMA ActivateType ==
    ASSUME TypeOK, NEW q \in Requests, NEW s \in Subs, NEW r \in Rows,
           activate_as_current(q, s, r)
    PROVE  activation' \in [Requests -> Activation \cup {NoActivation}]
<1>1. [sub |-> s, row |-> r, others |-> Active \ {s}, overtaken |-> FALSE] \in Activation
  BY DEF Activation, Active
<1> QED
  BY <1>1 DEF activate_as_current, TypeOK

\* Being overtaken changes nothing else of a transaction.
LEMMA OvertakeType ==
    ASSUME NEW a \in Activation \cup {NoActivation}
    PROVE  Overtake(a) \in Activation \cup {NoActivation}
  BY DEF Overtake, Activation

\* An open transaction writes rows that exist.
LEMMA OpenActivation ==
    ASSUME TypeOK, NEW q \in Requests, activation[q] # NoActivation
    PROVE  /\ activation[q] \in Activation
           /\ activation[q].sub \in Subs
           /\ activation[q].row \in Rows
<1>1. activation[q] \in Activation
  BY DEF TypeOK
<1> QED
  BY <1>1 DEF Activation

\* Its commit keeps the table and the transactions that are left well typed.
LEMMA SaveActivationType ==
    ASSUME TypeOK, NEW q \in Requests, SaveActivation(q)
    PROVE  /\ sub' \in [Subs -> Rows]
           /\ activation' \in [Requests -> Activation \cup {NoActivation}]
<1>1. activation[q] # NoActivation
  BY DEF SaveActivation
<1>2. activation[q].row \in Rows
  BY <1>1, OpenActivation
<1>3. \A t \in Subs : status_cancelled(sub[t]) \in Rows
  BY UpdatesGood DEF TypeOK
<1>4. sub' \in [Subs -> Rows]
  BY <1>2, <1>3 DEF SaveActivation, TypeOK
<1>5. \A o \in Requests : activation[o] \in Activation \cup {NoActivation}
  BY DEF TypeOK
<1>6. \A o \in Requests : Overtake(activation[o]) \in Activation \cup {NoActivation}
  BY <1>5, OvertakeType
<1>7. activation' = [o \in Requests |-> IF o = q THEN NoActivation
                                        ELSE Overtake(activation[o])]
  BY DEF SaveActivation
<1>8. activation' \in [Requests -> Activation \cup {NoActivation}]
  BY <1>6, <1>7
<1> QED
  BY <1>4, <1>8

\* A process that dies leaves no callback of its own.
LEMMA LoseCallbacksType ==
    ASSUME TypeOK, NEW lost, LoseCallbacks(lost)
    PROVE  callback' \in [Processes -> Callbacks] /\ astray' \in BOOLEAN
<1>1. callback' \in [Processes -> Callbacks]
  BY DEF LoseCallbacks, TypeOK, Callbacks
<1>2. astray' \in BOOLEAN
  BY DEF LoseCallbacks, TypeOK
<1> QED
  BY <1>1, <1>2

\* The failure budget is never exceeded.
LEMMA FailsType == TypeOK /\ Fails => failures' \in 0 .. MaxFailures
  BY SizeAssumption DEF TypeOK, Fails

\* Every notice and every new charge has its type.
LEMMA NoticeType ==
    ASSUME NEW c \in Charges, NEW kind \in {"created", "updated"}
    PROVE  NoticeOf(c, kind) \in Notice
  BY DEF NoticeOf, Notice

\* A revoked charge keeps its type and its notice is one.
LEMMA RevokeType ==
    ASSUME TypeOK, NEW c \in Charges, RevokeCharge(c)
    PROVE  charge' \in [Charges -> Charge] /\ notices' \subseteq Notice
<1>1. charge' \in [Charges -> Charge]
  BY DEF TypeOK, RevokeCharge, Charge, ChargeStatuses
<1>2. notices' \subseteq Notice
  BY NoticeType DEF TypeOK, RevokeCharge
<1> QED
  BY <1>1, <1>2

\* An invoice that is POSTed adds a charge, its notice and the request.
LEMMA PostInvoiceType ==
    ASSUME TypeOK, NEW s \in Subs, NEW p \in Subs,
           NEW job \in {"payment_job", "cycle"}, PostInvoice(s, p, job)
    PROVE  /\ charge' \in [Charges -> Charge]
           /\ notices' \subseteq Notice
           /\ posted' \subseteq Posted
<1>1. PICK c \in Charges :
        /\ charge' = [charge EXCEPT ![c] = [kind |-> "invoice", status |-> "pending",
                                            plan |-> p, paidOn |-> NoDay]]
        /\ notices' = notices \cup {NoticeOf(c, "created")}
        /\ posted' = posted \cup {[sub |-> s, charge |-> c, by |-> job]}
  BY DEF PostInvoice
<1>2. charge' \in [Charges -> Charge]
  BY <1>1 DEF TypeOK, Charge, ChargeStatuses
<1>3. notices' \subseteq Notice
  BY <1>1, NoticeType DEF TypeOK
<1>4. posted' \subseteq Posted
  BY <1>1 DEF TypeOK, Posted
<1> QED
  BY <1>2, <1>3, <1>4

\* A job's list stays a set of ids, plucked or crossed off.
LEMMA ListType ==
    ASSUME TypeOK, NEW j, NEW s \in Subs, NEW ids \in SUBSET Subs
    PROVE  /\ Done(j, s) => list' \in [Jobs -> SUBSET Subs]
           /\ Pluck(j, ids) => list' \in [Jobs -> SUBSET Subs]
  BY DEF TypeOK, Done, Pluck

----------------------------------------------------------------------------
(* Type correctness *)

LEMMA BillingTypeInit == Init => TypeOK
<1> SUFFICES ASSUME Init PROVE TypeOK
  OBVIOUS
<1>1. PICK signup \in Plans, m \in Methods :
        /\ sub = [s \in Subs |-> IF s # 1 THEN NoRow
                    ELSE NewRow(signup = "free",
                                IF signup = "free" THEN "active" ELSE "pending")]
        /\ access = (signup = "free")
        /\ method = IF signup = "free" THEN "pix" ELSE m
        /\ plan = 1
        /\ queue = IF signup # "free" /\ m = "pix" THEN {1} ELSE {}
        /\ card = IF signup # "free" /\ m = "credit_card"
                    THEN [NoCard EXCEPT !.sub = 1] ELSE NoCard
  BY DEF Init
<1>2. 1 \in Subs /\ 1 \in Days
  BY SizeAssumption DEF Subs, Days
<1>3. sub \in [Subs -> Rows]
  <2>1. NoRow \in Rows
    BY NewRowGood DEF NoRow, Statuses
  <2>2. NewRow(signup = "free", IF signup = "free" THEN "active" ELSE "pending") \in Rows
    BY NewRowGood DEF Statuses
  <2> QED
    BY <1>1, <2>1, <2>2
<1>4. method \in {"pix", "credit_card"} /\ access \in BOOLEAN /\ plan \in Subs
  BY <1>1, <1>2, MethodAssumption
<1>5. card \in CardRequest \cup {NoCard} /\ queue \subseteq Subs
  BY <1>1, <1>2, RangesGood DEF NoCard, CardRequest, Results
<1>6. /\ charge \in [Charges -> Charge]
      /\ notices \subseteq Notice
      /\ hook \in [Handlers -> Fetched \cup {Idle}]
      /\ posted \subseteq Posted
      /\ list \in [Jobs -> SUBSET Subs]
      /\ fin \in Finalization \cup {NoFin}
      /\ recon \in Reconciliation \cup {NoRecon}
  BY DEF Init, NoChargeYet, Charge, ChargeStatuses
<1>7. /\ activation \in [Requests -> Activation \cup {NoActivation}]
      /\ callback \in [Processes -> Callbacks]
      /\ astray \in BOOLEAN
  BY DEF Init, Callbacks
<1>8. today \in Days /\ failures \in 0 .. MaxFailures
  BY <1>2, SizeAssumption DEF Init
<1> QED
  BY <1>3, <1>4, <1>5, <1>6, <1>7, <1>8 DEF TypeOK

\* The requests of the web application.
LEMMA WebType == TypeOK /\ Web => TypeOK'
<1> SUFFICES ASSUME TypeOK, Web PROVE TypeOK'
  OBVIOUS
<1> USE DEF TypeOK, company, gateway, web, transactions, jobs, clock
<1>1. ASSUME NEW s \in Subs, NEW m \in Methods, start_paid_subscription(s, m)
      PROVE TypeOK'
  <2>1. sub' \in [Subs -> Rows]
    BY <1>1, NewRowGood, UpdatesGood
       DEF start_paid_subscription, create_pending_paid_subscription, Statuses
  <2>2. method' \in {"pix", "credit_card"}
    BY <1>1, MethodAssumption
       DEF start_paid_subscription, create_pending_paid_subscription
  <2>3. queue' \subseteq Subs /\ card' \in CardRequest \cup {NoCard}
    BY <1>1, RangesGood DEF start_paid_subscription, NoCard, CardRequest, Results
  <2> QED
    BY <1>1, <2>1, <2>2, <2>3 DEF start_paid_subscription
<1>2. ASSUME NEW s \in Subs, cancel_subscription(s) PROVE TypeOK'
  <2>1. schedule_cancellation(sub[s], today) \in Rows
    BY DatesGood
  <2>2. sub' \in [Subs -> Rows]
    BY <1>2, <2>1 DEF cancel_subscription
  <2> QED
    BY <1>2, <2>2 DEF cancel_subscription
<1>3. ASSUME NEW s \in Subs, resume_subscription(s) PROVE TypeOK'
  <2>1. sub' \in [Subs -> Rows]
    BY <1>3, UpdatesGood DEF resume_subscription
  <2> QED
    BY <1>3, <2>1 DEF resume_subscription
<1>4. ASSUME NEW outcome \in Outcomes, CardPost(outcome[1], outcome[2])
      PROVE TypeOK'
  <2>1. outcome[1] \in Results /\ outcome[2] \in ChargeStatuses
    BY DEF Outcomes, Results, ChargeStatuses
  <2>2. PICK c \in Charges :
          /\ card' = [card EXCEPT !.result = outcome[1], !.charge = c]
          /\ charge' = [charge EXCEPT ![c] =
                [kind |-> "preapproval", status |-> outcome[2], plan |-> card.sub,
                 paidOn |-> IF outcome[2] = "approved" THEN today ELSE NoDay]]
          /\ notices' = notices \cup {NoticeOf(c, "created")}
    BY <1>4 DEF CardPost
  <2>3. card \in CardRequest
    BY <1>4 DEF CardPost
  <2>4. card' \in CardRequest
    BY <2>1, <2>2, <2>3, RangesGood DEF CardRequest
  <2>5. charge' \in [Charges -> Charge]
    BY <2>1, <2>2, <2>3 DEF CardRequest, Charge
  <2>6. notices' \subseteq Notice
    BY <2>2, NoticeType
  <2>7. failures' \in 0 .. MaxFailures
    BY <1>4, FailsType DEF CardPost
  <2> QED
    BY <1>4, <2>4, <2>5, <2>6, <2>7 DEF CardPost
<1>5. CASE CardPostRejected
  <2>1. card' \in CardRequest
    BY <1>5 DEF CardPostRejected, CardRequest, Results
  <2>2. failures' \in 0 .. MaxFailures
    BY <1>5, FailsType DEF CardPostRejected
  <2> QED
    BY <1>5, <2>1, <2>2 DEF CardPostRejected
<1>6. CASE CardApply
  <2>1. card \in CardRequest
    BY <1>6 DEF CardApply, NoCard
  <2> DEFINE saved == [sub[card.sub] EXCEPT !.pre = card.charge]
             activated == [saved EXCEPT !.status = "active", !.end = today + Period]
             failed == IF card.result = "refused" THEN saved ELSE sub[card.sub]
  <2>2. card.sub \in Subs /\ saved \in Rows
    BY <2>1, UpdatesGood DEF CardRequest
  <2>3. activated \in Rows
    BY <2>2, DatesGood
  <2>4. failed \in Rows /\ status_cancelled(failed) \in Rows
    BY <2>2, UpdatesGood
  <2>5. CASE card.result = "approved"
    <3>1. activate_as_current("card", card.sub, activated)
      BY <1>6, <2>5 DEF CardApply
    <3>2. activation' \in [Requests -> Activation \cup {NoActivation}]
      BY <2>2, <2>3, <3>1, WhoRuns, ActivateType
    <3>3. sub' \in [Subs -> Rows]
      BY <1>6, <2>2, <2>5 DEF CardApply
    <3>4. callback' = callback /\ astray' = astray
      BY <3>1 DEF activate_as_current
    <3>5. card' = card
      BY <1>6, <2>5 DEF CardApply
    <3> QED
      BY <1>6, <3>2, <3>3, <3>4, <3>5 DEF CardApply
  <2>6. CASE card.result # "approved"
    <3>1. sub' \in [Subs -> Rows]
      BY <1>6, <2>2, <2>4, <2>6 DEF CardApply
    <3>2. /\ activation' = activation
          /\ callback' = callback
          /\ astray' \in BOOLEAN
          /\ card' = NoCard
      BY <1>6, <2>6 DEF CardApply
    <3> QED
      BY <1>6, <3>1, <3>2 DEF CardApply
  <2> QED
    BY <2>5, <2>6
<1> QED
  BY <1>1, <1>2, <1>3, <1>4, <1>5, <1>6 DEF Web

\* The webhook requests.
LEMMA WebhookType == TypeOK /\ Webhook => TypeOK'
<1> SUFFICES ASSUME TypeOK, Webhook PROVE TypeOK'
  OBVIOUS
<1> USE DEF TypeOK, company, gateway, web, transactions, jobs, clock
<1>1. ASSUME NEW h \in Handlers, NEW n \in notices, HookFetch(h, n) PROVE TypeOK'
  <2>1. n \in Notice /\ charge[n.charge].status \in ChargeStatuses
    BY DEF Notice, Charge
  <2>2. [notice |-> n, status |-> charge[n.charge].status] \in Fetched
    BY <2>1 DEF Fetched
  <2>3. hook' \in [Handlers -> Fetched \cup {Idle}]
    BY <1>1, <2>2 DEF HookFetch
  <2> QED
    BY <1>1, <2>3 DEF HookFetch
<1>2. ASSUME NEW h \in Handlers, NEW s \in Subs, HookApply(h, s) PROVE TypeOK'
  <2> DEFINE n == hook[h].notice
             r == hook_saved(sub[s], n.charge)
  <2>1. hook[h] \in Fetched
    BY <1>2 DEF HookApply
  <2>2. n \in Notice
    BY <2>1 DEF Fetched
  <2>3. n.charge \in Charges /\ n.on \in Days \cup {NoDay}
    BY <2>2 DEF Notice
  <2>4. r \in Rows
    BY <2>3, UpdatesGood, RangesGood DEF hook_saved
  <2>5. hook' \in [Handlers -> Fetched \cup {Idle}]
    <3>1. hook' = hook \/ hook' = [hook EXCEPT ![h] = Idle]
      BY <1>2 DEF HookApply
    <3> QED
      BY <3>1
  <2>6. /\ activate_for(sub[s], n.on) \in Rows
        /\ activate_for(r, today) \in Rows
        /\ to_pending(r) \in Rows
        /\ cancel(r) \in Rows
    BY <2>3, <2>4, DatesGood, UpdatesGood
  <2>7. CASE hook' = hook /\ sub' = sub /\ \E row \in Rows : activate_as_current(h, s, row)
    <3>1. activation' \in [Requests -> Activation \cup {NoActivation}]
      BY <2>7, WhoRuns, ActivateType
    <3>2. callback' = callback /\ astray' = astray
      BY <2>7 DEF activate_as_current
    <3> QED
      BY <1>2, <2>7, <3>1, <3>2 DEF HookApply
  <2>8. CASE activation' = activation /\ \E row \in Rows : UpdateRow(h, s, row)
    <3>1. /\ sub' \in [Subs -> Rows]
          /\ callback' \in [Processes -> Callbacks]
          /\ astray' \in BOOLEAN
      BY <2>8, UpdateRowType
    <3> QED
      BY <1>2, <2>5, <2>8, <3>1 DEF HookApply
  <2> QED
    BY <1>2, <2>6, <2>7, <2>8 DEF HookApply
<1>3. ASSUME NEW h \in Handlers, HookRejects(h) PROVE TypeOK'
  <2>1. hook[h].notice \in Notice
    BY <1>3 DEF HookRejects, Fetched
  <2> QED
    BY <1>3, <2>1 DEF HookRejects
<1> QED
  BY <1>1, <1>2, <1>3 DEF Webhook

\* A transaction is open, or a callback waits, only in a request that is handled.
OpenRequests ==
    /\ activation["card"] # NoActivation => card.result = "approved"
    /\ callback["card"] # "none" => card.result = "saved"
    /\ \A h \in Handlers : activation[h] # NoActivation => hook[h] # Idle

\* What follows the statements of a request or a job.
LEMMA FinishType == TypeOK /\ OpenRequests /\ Finish => TypeOK'
<1> SUFFICES ASSUME TypeOK, OpenRequests, Finish PROVE TypeOK'
  OBVIOUS
<1> USE DEF TypeOK, company, gateway, web, transactions, jobs, clock
<1>1. ASSUME NEW q \in Requests, Commit(q) PROVE TypeOK'
  <2>1. SaveActivation(q)
    BY <1>1 DEF Commit
  <2>2. /\ sub' \in [Subs -> Rows]
        /\ activation' \in [Requests -> Activation \cup {NoActivation}]
    BY <2>1, SaveActivationType
  <2>3. plan' \in Subs
    <3>1. activation[q] # NoActivation
      BY <2>1 DEF SaveActivation
    <3>2. activation[q].sub \in Subs
      BY <3>1, OpenActivation
    <3> QED
      BY <1>1, <3>2 DEF Commit
  <2>4. callback' \in [Processes -> Callbacks] /\ astray' \in BOOLEAN
    BY <1>1, AfterCommitType DEF Commit
  <2>5. hook' \in [Handlers -> Fetched \cup {Idle}]
    BY <1>1 DEF Commit
  <2>6. card' \in CardRequest \cup {NoCard}
    <3>1. q = "card" => card \in CardRequest
      BY <2>1 DEF SaveActivation, OpenRequests, NoCard
    <3>2. q = "card" => [card EXCEPT !.result = "saved"] \in CardRequest
      BY <3>1 DEF CardRequest, Results
    <3> QED
      BY <1>1, <3>2 DEF Commit
  <2> QED
    BY <1>1, <2>2, <2>3, <2>4, <2>5, <2>6 DEF Commit
<1>2. ASSUME NEW h \in Handlers, CommitWithoutPlan(h) PROVE TypeOK'
  <2>1. SaveActivation(h)
    BY <1>2 DEF CommitWithoutPlan
  <2>2. /\ sub' \in [Subs -> Rows]
        /\ activation' \in [Requests -> Activation \cup {NoActivation}]
    BY <2>1, WhoRuns, SaveActivationType
  <2>3. hook[h] \in Fetched
    BY <2>1 DEF SaveActivation, OpenRequests
  <2>4. notices' \subseteq Notice
    BY <1>2, <2>3 DEF CommitWithoutPlan, Fetched
  <2>5. failures' \in 0 .. MaxFailures
    BY <1>2, FailsType DEF CommitWithoutPlan
  <2>6. astray' \in BOOLEAN
    BY <1>2 DEF CommitWithoutPlan
  <2>7. hook' \in [Handlers -> Fetched \cup {Idle}]
    BY <1>2 DEF CommitWithoutPlan
  <2> QED
    BY <1>2, <2>2, <2>4, <2>5, <2>6, <2>7 DEF CommitWithoutPlan
<1>3. ASSUME NEW q \in Requests, RollBack(q) PROVE TypeOK'
  <2>1. \A h \in Handlers \cap {q} : hook[h] \in Fetched
    BY <1>3 DEF RollBack, OpenRequests
  <2>2. notices' \subseteq Notice
    BY <1>3, <2>1 DEF RollBack, Fetched
  <2>3. q = "card" => card \in CardRequest
    BY <1>3 DEF RollBack, OpenRequests, NoCard
  <2>4. q = "card" => [card EXCEPT !.result = "error"] \in CardRequest
    BY <2>3 DEF CardRequest, Results
  <2>5. card' \in CardRequest \cup {NoCard}
    BY <1>3, <2>4 DEF RollBack
  <2>6. failures' \in 0 .. MaxFailures
    BY <1>3, FailsType DEF RollBack
  <2>7. hook' \in [Handlers -> Fetched \cup {Idle}]
    BY <1>3 DEF RollBack
  <2>8. activation' \in [Requests -> Activation \cup {NoActivation}]
    BY <1>3 DEF RollBack
  <2> QED
    BY <1>3, <2>2, <2>5, <2>6, <2>7, <2>8 DEF RollBack
<1>4. ASSUME NEW p \in Processes, sync_company_access(p) PROVE TypeOK'
  <2>1. callback' \in [Processes -> Callbacks]
    BY <1>4 DEF sync_company_access, Callbacks
  <2> QED
    BY <1>4, <2>1 DEF sync_company_access
<1>5. ASSUME NEW p \in Processes, SyncRaises(p) PROVE TypeOK'
  <2>1. callback' \in [Processes -> Callbacks]
    BY <1>5 DEF SyncRaises, Callbacks
  <2>2. sub' \in [Subs -> Rows]
    <3>1. CASE card = NoCard
      BY <1>5, <3>1 DEF SyncRaises, NoCard
    <3>2. CASE card \in CardRequest
      <4>1. status_cancelled(sub[card.sub]) \in Rows
        BY <3>2, UpdatesGood DEF CardRequest
      <4> QED
        BY <1>5, <4>1 DEF SyncRaises
    <3> QED
      BY <3>1, <3>2
  <2>3. card' \in CardRequest \cup {NoCard}
    BY <1>5 DEF SyncRaises
  <2>4. failures' \in 0 .. MaxFailures
    BY <1>5, FailsType DEF SyncRaises
  <2> QED
    BY <1>5, <2>1, <2>2, <2>3, <2>4 DEF SyncRaises
<1> QED
  BY <1>1, <1>2, <1>3, <1>4, <1>5 DEF Finish

\* The first-payment job and the cycle job.
LEMMA PaymentType == TypeOK /\ (PaymentJob \/ Cycle) => TypeOK'
<1> SUFFICES ASSUME TypeOK, PaymentJob \/ Cycle PROVE TypeOK'
  OBVIOUS
<1> USE DEF TypeOK, company, gateway, web, transactions, jobs, clock
<1>1. ASSUME NEW s \in Subs, PaymentJobPost(s) PROVE TypeOK'
  BY <1>1, PostInvoiceType DEF PaymentJobPost
<1>2. ASSUME NEW s \in Subs, PaymentJobFails(s) PROVE TypeOK'
  BY <1>2, FailsType DEF PaymentJobFails
<1>3. ASSUME NEW p \in posted, persist_payment_reference(p) PROVE TypeOK'
  <2>1. p.sub \in Subs /\ p.charge \in Charges
    BY DEF Posted
  <2>2. [sub[p.sub] EXCEPT !.pay = p.charge] \in Rows
    BY <2>1, UpdatesGood
  <2>3. sub' = [sub EXCEPT ![p.sub] = [sub[p.sub] EXCEPT !.pay = p.charge]]
    BY <1>3 DEF persist_payment_reference
  <2> QED
    BY <1>3, <2>1, <2>2, <2>3 DEF persist_payment_reference
<1>4. CASE CyclePluck
  BY <1>4 DEF CyclePluck, Pluck
<1>5. ASSUME NEW s \in Subs, CycleOne(s) PROVE TypeOK'
  BY <1>5, PostInvoiceType DEF CycleOne, Done
<1>6. ASSUME NEW s \in Subs, CycleRaises(s) PROVE TypeOK'
  <2>1. failures' \in 0 .. MaxFailures
    BY <1>6, FailsType DEF CycleRaises
  <2> QED
    BY <1>6, <2>1 DEF CycleRaises, Done
<1> QED
  BY <1>1, <1>2, <1>3, <1>4, <1>5, <1>6 DEF PaymentJob, Cycle

\* The jobs that warn, expire and finalize.
LEMMA LifecycleType == TypeOK /\ (Notify \/ Expire \/ Finalize) => TypeOK'
<1> SUFFICES ASSUME TypeOK, Notify \/ Expire \/ Finalize PROVE TypeOK'
  OBVIOUS
<1> USE DEF TypeOK, company, gateway, web, transactions, jobs, clock
<1>1. CASE NotifyPluck \/ ExpirePluck \/ FinalizePluck
  BY <1>1 DEF NotifyPluck, ExpirePluck, FinalizePluck, Pluck
<1>2. ASSUME NEW s \in Subs, NotifyOne(s) PROVE TypeOK'
  <2>1. sub' = [sub EXCEPT ![s] = [sub[s] EXCEPT !.warned = TRUE]]
    BY <1>2 DEF NotifyOne
  <2> QED
    BY <1>2, <2>1, UpdatesGood DEF NotifyOne, Done
<1>3. ASSUME NEW s \in Subs, ExpireOne(s) PROVE TypeOK'
  <2>1. /\ sub' \in [Subs -> Rows]
        /\ callback' \in [Processes -> Callbacks]
        /\ astray' \in BOOLEAN
    BY <1>3, UpdatesGood, UpdateRowType DEF ExpireOne
  <2> QED
    BY <1>3, <2>1 DEF ExpireOne, Done
<1>4. ASSUME NEW s \in Subs, FinalizeLoad(s) PROVE TypeOK'
  <2>1. /\ sub' \in [Subs -> Rows]
        /\ callback' \in [Processes -> Callbacks]
        /\ astray' \in BOOLEAN
    BY <1>4, UpdatesGood, UpdateRowType DEF FinalizeLoad
  <2>2. charge' \in [Charges -> Charge] /\ notices' \subseteq Notice
    <3>1. NeedsGateway(s) => sub[s].pre \in Charges
      BY DEF NeedsGateway, Rows, Row, Ids
    <3> QED
      BY <1>4, <3>1, RevokeType DEF FinalizeLoad
  <2>3. fin' \in Finalization \cup {NoFin}
    BY <1>4 DEF FinalizeLoad, Finalization
  <2>4. failures' \in 0 .. MaxFailures
    BY <1>4, FailsType DEF FinalizeLoad
  <2> QED
    BY <1>4, <2>1, <2>2, <2>3, <2>4 DEF FinalizeLoad, Done
<1>5. CASE FinalizeCommit
  <2>1. fin \in Finalization
    BY <1>5 DEF FinalizeCommit
  <2>2. fin.sub \in Subs /\ fin.row \in Rows
    BY <2>1 DEF Finalization
  <2>3. /\ sub' \in [Subs -> Rows]
        /\ callback' \in [Processes -> Callbacks]
        /\ astray' \in BOOLEAN
    BY <1>5, <2>2, UpdatesGood, AfterCommitType DEF FinalizeCommit
  <2> QED
    BY <1>5, <2>3 DEF FinalizeCommit
<1> QED
  BY <1>1, <1>2, <1>3, <1>4, <1>5 DEF Notify, Expire, Finalize

\* The reconciliation.
LEMMA ReconcileType == TypeOK /\ Reconcile => TypeOK'
<1> SUFFICES ASSUME TypeOK, Reconcile PROVE TypeOK'
  OBVIOUS
<1> USE DEF TypeOK, company, gateway, web, transactions, jobs, clock
<1>1. CASE ReconcilePluck
  BY <1>1 DEF ReconcilePluck, Pluck
<1>2. ASSUME NEW s \in Subs, ReconcileFetch(s) PROVE TypeOK'
  <2> DEFINE c == GatewayId(s)
  <2>1. c \in Ids
    BY DEF GatewayId, Rows, Row
  <2>2. c # NoCharge => c \in Charges
    BY <2>1 DEF Ids
  <2>3. recon' \in Reconciliation \cup {NoRecon}
    BY <1>2, <2>2 DEF ReconcileFetch, Reconciliation, Charge
  <2> QED
    BY <1>2, <2>3 DEF ReconcileFetch, Done
<1>3. CASE ReconcileApply
  <2>1. recon \in Reconciliation
    BY <1>3 DEF ReconcileApply
  <2>2. /\ recon.sub \in Subs /\ recon.charge \in Charges
        /\ recon.paidOn \in Days \cup {NoDay}
    BY <2>1 DEF Reconciliation
  <2>3. reconcile_saved(sub[recon.sub]) \in Rows
    BY <2>2, UpdatesGood DEF reconcile_saved
  <2>4. apply_gateway_status(reconcile_saved(sub[recon.sub])) \in Rows
    BY <2>2, <2>3, UpdatesGood, DatesGood DEF apply_gateway_status
  <2>5. /\ sub' \in [Subs -> Rows]
        /\ callback' \in [Processes -> Callbacks]
        /\ astray' \in BOOLEAN
    BY <1>3, <2>2, <2>4, UpdateRowType DEF ReconcileApply
  <2>6. \A q \in Requests : Overtake(activation[q]) \in Activation \cup {NoActivation}
    BY OvertakeType
  <2>7. activation' \in [Requests -> Activation \cup {NoActivation}]
    BY <1>3, <2>6 DEF ReconcileApply
  <2> QED
    BY <1>3, <2>5, <2>7 DEF ReconcileApply
<1> QED
  BY <1>1, <1>2, <1>3 DEF Reconcile

\* The gateway, the crashes and the calendar.
LEMMA EnvironmentType ==
    TypeOK /\ (Gateway \/ PumaCrash \/ SidekiqCrash \/ Tick) => TypeOK'
<1> SUFFICES ASSUME TypeOK, Gateway \/ PumaCrash \/ SidekiqCrash \/ Tick
             PROVE TypeOK'
  OBVIOUS
<1> USE DEF TypeOK, company, gateway, web, transactions, jobs, clock
<1>1. ASSUME NEW c \in Charges, Settle(c) PROVE TypeOK'
  <2>1. charge' \in [Charges -> Charge]
    BY <1>1 DEF Settle, Charge, ChargeStatuses
  <2> QED
    BY <1>1, <2>1, NoticeType DEF Settle
<1>2. ASSUME NEW c \in Charges, Revoke(c) PROVE TypeOK'
  BY <1>2, RevokeType DEF Revoke
<1>3. ASSUME NEW c \in Charges, Debit(c) PROVE TypeOK'
  <2>1. charge' \in [Charges -> Charge]
    BY <1>3 DEF Debit, Charge
  <2>2. notices' \subseteq Notice
    BY <1>3 DEF Debit, Notice
  <2> QED
    BY <1>3, <2>1, <2>2 DEF Debit
<1>4. ASSUME NEW n \in notices, LoseNotice(n) PROVE TypeOK'
  BY <1>4, FailsType DEF LoseNotice
<1>5. CASE PumaCrash
  <2>1. \A h \in Handlers : hook[h] # Idle => hook[h].notice \in Notice
    BY DEF Fetched
  <2> QED
    BY <1>5, <2>1, FailsType, LoseCallbacksType DEF PumaCrash
<1>6. CASE SidekiqCrash
  <2>1. queue' \subseteq Subs
    BY <1>6 DEF SidekiqCrash, Posted
  <2> QED
    BY <1>6, <2>1, FailsType, LoseCallbacksType DEF SidekiqCrash
<1>7. CASE Tick
  BY <1>7, SizeAssumption DEF Tick, Days
<1> QED
  BY <1>1, <1>2, <1>3, <1>4, <1>5, <1>6, <1>7 DEF Gateway

----------------------------------------------------------------------------
(* Open requests are handled *)

\* A save of a job or of a webhook leaves the card's callback alone.
LEMMA OtherCallback ==
    ASSUME TypeOK, NEW p, p # "card", NEW old, NEW new, AfterCommit(p, old, new)
    PROVE  callback'["card"] = callback["card"]
  BY WhoRuns DEF AfterCommit, TypeOK

LEMMA Names == /\ \A h \in Handlers : h # "card"
               /\ \A j \in Jobs : j # "card"
  BY HandlerAssumption, JobAssumption

LEMMA OpenRequestsInit == Init => OpenRequests
  BY WhoRuns DEF Init, OpenRequests

\* Web and webhook requests.
LEMMA OpenRequestsRequest ==
    ASSUME TypeOK, OpenRequests, Web \/ Webhook
    PROVE  OpenRequests'
<1> USE WhoRuns DEF TypeOK, company, gateway, web, transactions, jobs, clock
<1>1. ASSUME NEW s \in Subs, NEW m \in Methods, start_paid_subscription(s, m)
      PROVE OpenRequests'
  BY <1>1 DEF start_paid_subscription, OpenRequests, NoCard
<1>2. ASSUME NEW s \in Subs, cancel_subscription(s) \/ resume_subscription(s)
      PROVE OpenRequests'
  BY <1>2 DEF cancel_subscription, resume_subscription, OpenRequests
<1>3. ASSUME NEW outcome \in Outcomes, CardPost(outcome[1], outcome[2])
      PROVE OpenRequests'
  BY <1>3 DEF CardPost, OpenRequests
<1>4. CASE CardPostRejected
  BY <1>4 DEF CardPostRejected, OpenRequests
<1>5. CASE CardApply
  <2>1. CASE card.result = "approved"
    <3>1. card' = card /\ hook' = hook
      BY <1>5, <2>1 DEF CardApply
    <3>2. /\ callback' = callback
          /\ \A h \in Handlers : activation'[h] = activation[h]
      BY <1>5, <2>1, Names DEF CardApply, activate_as_current
    <3> QED
      BY <2>1, <3>1, <3>2 DEF OpenRequests
  <2>2. CASE card.result # "approved"
    <3>1. /\ callback' = callback /\ activation' = activation /\ hook' = hook
          /\ card.result # "saved"
      BY <1>5, <2>2 DEF CardApply
    <3> QED
      BY <2>2, <3>1 DEF OpenRequests
  <2> QED
    BY <2>1, <2>2
<1>6. ASSUME NEW h \in Handlers, NEW n \in notices, HookFetch(h, n)
      PROVE OpenRequests'
  <2>1. n.charge # NoCharge
    BY DEF Notice, Charges, NoCharge
  <2>2. hook'[h] # Idle
    BY <1>6, <2>1 DEF HookFetch, Idle, NoNotice, NoticeOf
  <2>3. \A g \in Handlers \ {h} : hook'[g] = hook[g]
    BY <1>6 DEF HookFetch
  <2> QED
    BY <1>6, <2>2, <2>3 DEF HookFetch, OpenRequests
<1>7. ASSUME NEW h \in Handlers, NEW s \in Subs, HookApply(h, s) PROVE OpenRequests'
  <2>1. card' = card /\ hook[h] # Idle /\ activation[h] = NoActivation
    BY <1>7 DEF HookApply
  <2>2. CASE hook' = hook /\ \E r : activate_as_current(h, s, r)
    <3>1. /\ callback' = callback
          /\ \A q \in Requests \ {h} : activation'[q] = activation[q]
      BY <2>2 DEF activate_as_current
    <3>2. activation'["card"] = activation["card"]
      BY <3>1, Names
    <3> QED
      BY <2>1, <2>2, <3>1, <3>2 DEF OpenRequests
  <2>3. CASE hook' = [hook EXCEPT ![h] = Idle] /\ activation' = activation
             /\ \E r : UpdateRow(h, s, r)
    <3>1. callback'["card"] = callback["card"]
      BY <2>3, Names, OtherCallback DEF UpdateRow
    <3>2. \A g \in Handlers \ {h} : hook'[g] = hook[g]
      BY <2>3
    <3> QED
      BY <2>1, <2>3, <3>1, <3>2 DEF OpenRequests
  <2> QED
    BY <1>7, <2>2, <2>3 DEF HookApply
<1>8. ASSUME NEW h \in Handlers, HookRejects(h) PROVE OpenRequests'
  <2>1. \A g \in Handlers \ {h} : hook'[g] = hook[g]
    BY <1>8 DEF HookRejects
  <2> QED
    BY <1>8, <2>1 DEF HookRejects, OpenRequests
<1> QED
  BY <1>1, <1>2, <1>3, <1>4, <1>5, <1>6, <1>7, <1>8 DEF Web, Webhook

\* An activation that closes, or is overtaken, was open.
LEMMA ClosingOpens ==
    ASSUME NEW q \in Requests, SaveActivation(q)
    PROVE  /\ activation[q] # NoActivation
           /\ activation'[q] = NoActivation
           /\ \A o \in Requests : activation'[o] # NoActivation => activation[o] # NoActivation
  BY DEF SaveActivation, Overtake

\* Commits, rollbacks and callbacks.
LEMMA OpenRequestsFinish ==
    ASSUME TypeOK, OpenRequests, Finish
    PROVE  OpenRequests'
<1> USE WhoRuns, Names DEF company, gateway, web, transactions, jobs, clock
<1>1. ASSUME NEW q \in Requests, Commit(q) PROVE OpenRequests'
  <2>1. SaveActivation(q)
    BY <1>1 DEF Commit
  <2>2. \A h \in Handlers : activation'[h] # NoActivation => hook'[h] # Idle
    BY <1>1, <2>1, ClosingOpens DEF Commit, OpenRequests
  <2>3. CASE q = "card"
    <3>1. card \in CardRequest
      BY <2>1, <2>3 DEF SaveActivation, OpenRequests, TypeOK, NoCard
    <3>2. card'.result = "saved"
      BY <1>1, <2>3, <3>1 DEF Commit, CardRequest
    <3> QED
      BY <2>1, <2>2, <2>3, <3>2, ClosingOpens DEF OpenRequests
  <2>4. CASE q # "card"
    <3>1. card' = card
      BY <1>1, <2>4 DEF Commit
    <3>2. callback'["card"] = callback["card"]
      BY <1>1, <2>4, OtherCallback DEF Commit
    <3> QED
      BY <2>1, <2>2, <3>1, <3>2, ClosingOpens DEF OpenRequests
  <2> QED
    BY <2>3, <2>4
<1>2. ASSUME NEW h \in Handlers, CommitWithoutPlan(h) PROVE OpenRequests'
  <2>1. SaveActivation(h) /\ card' = card /\ callback' = callback
    BY <1>2 DEF CommitWithoutPlan
  <2>2. \A g \in Handlers \ {h} : hook'[g] = hook[g]
    BY <1>2 DEF CommitWithoutPlan, TypeOK
  <2> QED
    BY <2>1, <2>2, ClosingOpens DEF OpenRequests
<1>3. ASSUME NEW q \in Requests, RollBack(q) PROVE OpenRequests'
  <2>1. /\ callback' = callback
        /\ activation' = [activation EXCEPT ![q] = NoActivation]
        /\ hook' = [h \in Handlers |-> IF h = q THEN Idle ELSE hook[h]]
        /\ activation[q] # NoActivation
    BY <1>3 DEF RollBack
  <2>2. activation'[q] = NoActivation
    BY <2>1 DEF TypeOK
  <2>3. \A o \in Requests \ {q} : activation'[o] = activation[o]
    BY <2>1 DEF TypeOK
  <2>4. \A h \in Handlers : activation'[h] # NoActivation => hook'[h] # Idle
    BY <2>1, <2>2, <2>3 DEF OpenRequests
  <2>5. CASE q = "card"
    <3>1. callback["card"] = "none"
      BY <2>1, <2>5 DEF OpenRequests
    <3> QED
      BY <2>1, <2>2, <2>4, <2>5, <3>1 DEF OpenRequests
  <2>6. CASE q # "card"
    <3>1. card' = card
      BY <1>3, <2>6 DEF RollBack
    <3> QED
      BY <2>1, <2>3, <2>4, <2>6, <3>1 DEF OpenRequests
  <2> QED
    BY <2>5, <2>6
<1>4. ASSUME NEW p \in Processes,
             callback' = [callback EXCEPT ![p] = "none"],
             card' = IF p = "card" THEN NoCard ELSE card,
             callback[p] # "none", hook' = hook, activation' = activation
      PROVE OpenRequests'
  <2>1. callback'[p] = "none"
    BY <1>4 DEF TypeOK
  <2>2. p # "card" => callback'["card"] = callback["card"]
    BY <1>4 DEF TypeOK
  <2>3. p = "card" => activation["card"] = NoActivation
    BY <1>4 DEF OpenRequests
  <2> QED
    BY <1>4, <2>1, <2>2, <2>3 DEF OpenRequests
<1>5. ASSUME NEW p \in Processes, sync_company_access(p) \/ SyncRaises(p) PROVE OpenRequests'
  BY <1>4, <1>5 DEF sync_company_access, SyncRaises
<1> QED
  BY <1>1, <1>2, <1>3, <1>5 DEF Finish

\* The jobs save rows as themselves.
LEMMA OpenRequestsJobs ==
    ASSUME TypeOK, OpenRequests,
           PaymentJob \/ Cycle \/ Notify \/ Expire \/ Finalize \/ Reconcile
    PROVE  OpenRequests'
<1> USE WhoRuns, Names DEF company, gateway, web, transactions, jobs, clock
<1>1. ASSUME UNCHANGED <<web, transactions>> PROVE OpenRequests'
  BY <1>1 DEF OpenRequests
<1>2. ASSUME UNCHANGED <<web, activation>>, NEW p \in {"expire", "finalize", "reconcile"},
             callback' = callback \/ \E old, new : AfterCommit(p, old, new)
      PROVE OpenRequests'
  <2>1. callback'["card"] = callback["card"]
    BY <1>2, OtherCallback
  <2> QED
    BY <1>2, <2>1 DEF OpenRequests
<1>3. CASE PaymentJob \/ Cycle
  BY <1>1, <1>3 DEF PaymentJob, Cycle, PaymentJobPost, PaymentJobFails,
     persist_payment_reference, CyclePluck, Pluck, CycleOne, CycleRaises
<1>4. CASE Notify
  BY <1>1, <1>4 DEF Notify, NotifyPluck, Pluck, NotifyOne
<1>5. CASE Expire
  <2>1. CASE ExpirePluck
    BY <1>1, <2>1 DEF ExpirePluck, Pluck
  <2>2. ASSUME NEW s \in Subs, ExpireOne(s) PROVE OpenRequests'
    BY <1>2, <2>2 DEF ExpireOne, UpdateRow
  <2> QED
    BY <1>5, <2>1, <2>2 DEF Expire
<1>6. CASE Finalize
  <2>1. CASE FinalizePluck
    BY <1>1, <2>1 DEF FinalizePluck, Pluck
  <2>2. ASSUME NEW s \in Subs, FinalizeLoad(s) PROVE OpenRequests'
    BY <1>2, <2>2 DEF FinalizeLoad, UpdateRow
  <2>3. CASE FinalizeCommit
    BY <1>2, <2>3 DEF FinalizeCommit
  <2> QED
    BY <1>6, <2>1, <2>2, <2>3 DEF Finalize
<1>7. CASE Reconcile
  <2>1. CASE ReconcilePluck
    BY <1>1, <2>1 DEF ReconcilePluck, Pluck
  <2>2. ASSUME NEW s \in Subs, ReconcileFetch(s) PROVE OpenRequests'
    BY <1>1, <2>2 DEF ReconcileFetch
  <2>3. CASE ReconcileApply
    <3>1. callback'["card"] = callback["card"]
      BY <2>3, OtherCallback DEF ReconcileApply, UpdateRow
    <3>2. \A q \in Requests : activation'[q] # NoActivation => activation[q] # NoActivation
      BY <2>3 DEF ReconcileApply, Overtake
    <3> QED
      BY <2>3, <3>1, <3>2 DEF ReconcileApply, OpenRequests
  <2> QED
    BY <1>7, <2>1, <2>2, <2>3 DEF Reconcile
<1> QED
  BY <1>3, <1>4, <1>5, <1>6, <1>7

\* Crashes close what was open.
LEMMA OpenRequestsEnvironment ==
    ASSUME TypeOK, OpenRequests, Gateway \/ PumaCrash \/ SidekiqCrash \/ Tick
    PROVE  OpenRequests'
<1> USE WhoRuns, Names DEF company, gateway, web, transactions, jobs, clock
<1>1. CASE Gateway \/ Tick
  BY <1>1 DEF Gateway, Tick, Settle, Revoke, Debit, LoseNotice, OpenRequests
<1>2. CASE PumaCrash
  BY <1>2 DEF PumaCrash, LoseCallbacks, OpenRequests
<1>3. CASE SidekiqCrash
  <2>1. callback'["card"] = callback["card"]
    BY <1>3 DEF SidekiqCrash, LoseCallbacks
  <2> QED
    BY <1>3, <2>1 DEF SidekiqCrash, OpenRequests
<1> QED
  BY <1>1, <1>2, <1>3

----------------------------------------------------------------------------
TypeInv == TypeOK /\ OpenRequests

LEMMA TypeInvInit == Init => TypeInv
  BY BillingTypeInit, OpenRequestsInit DEF TypeInv

\* Every step keeps the types.
LEMMA TypeStep == TypeInv /\ [Next]_vars => TypeInv'
<1> SUFFICES ASSUME TypeOK, OpenRequests, [Next]_vars PROVE TypeOK' /\ OpenRequests'
  BY DEF TypeInv
<1>1. CASE UNCHANGED vars
  BY <1>1 DEF TypeOK, OpenRequests, vars, company, gateway, web, transactions, jobs, clock
<1>2. CASE Next
  <2>1. TypeOK'
    BY <1>2, WebType, WebhookType, FinishType, PaymentType, LifecycleType,
       ReconcileType, EnvironmentType DEF Next
  <2>2. OpenRequests'
    BY <1>2, OpenRequestsRequest, OpenRequestsFinish, OpenRequestsJobs,
       OpenRequestsEnvironment DEF Next
  <2> QED
    BY <2>1, <2>2
<1> QED
  BY <1>1, <1>2

LEMMA TypeInvHolds == Spec => []TypeInv
  BY TypeInvInit, TypeStep, PTL DEF Spec

\* Every reachable state of the billing of a company is well typed; a date
\* written is never more than one period after the calendar.
THEOREM BillingTypeCorrect == Spec => []TypeOK
<1>1. TypeInv => TypeOK
  BY DEF TypeInv
<1> QED
  BY <1>1, TypeInvHolds, PTL
=============================================================================
