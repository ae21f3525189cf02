------------------------- MODULE BillingSafety_proofs -------------------------
(***************************************************************************)
(* For any number of subscriptions, charges, webhook requests and days:    *)
(* the Starter row is never billed and gives way only to a paid plan, and  *)
(* a paid plan in force was paid for and ends within a period.             *)
(***************************************************************************)
EXTENDS Billing_proofs

(* The invariant behind StarterNeverBilled *)

\* A row that a job or a request may work on: it exists and is not the Starter.
Paid(s) == Exists(s) /\ ~sub[s].free

\* Only the row of the signup is the Starter.
StarterIsFirst == \A s \in Subs : sub[s].free => s = 1

\* An open activation puts a paid row in force.
ActivatesPaid(a) == Paid(a.sub) /\ ~a.row.free /\ a.row.status = "active"

\* Every id that is held between two steps is the id of a paid row.
HeldRowsPaid ==
    /\ \A s \in queue : Paid(s)
    /\ \A p \in posted : Paid(p.sub)
    /\ \A j \in Jobs : \A s \in list[j] : Paid(s)
    /\ card # NoCard => Paid(card.sub)
    /\ fin # NoFin => Paid(fin.sub)
    /\ recon # NoRecon => Paid(recon.sub)
    /\ \A q \in Requests : activation[q] # NoActivation => ActivatesPaid(activation[q])

\* Until the company has a paid row the gateway knows nothing of it, so the
\* newest row, on which an unknown payment falls back, is not the Starter.
GatewayKnowsNothing ==
    /\ \A c \in Charges : charge[c].status = "unused"
    /\ notices = {}
    /\ \A h \in Handlers : hook[h] = Idle

ChargedOnlyIfPaid == GatewayKnowsNothing \/ \E t \in Subs : Paid(t)

StarterInv ==
    /\ TypeOK /\ OpenRequests
    /\ StarterIsFirst /\ HeldRowsPaid /\ ChargedOnlyIfPaid /\ StarterNeverBilled

(* The invariant behind PaidPlanWasPaid *)

SomePaid == \E c \in Charges : IsSet(charge[c].paidOn)

\* Payments have a date, and no date is in the future.
ChargesDated ==
    \A c \in Charges :
        /\ charge[c].status = "approved" => IsSet(charge[c].paidOn)
        /\ charge[c].status = "unused" => ~IsSet(charge[c].paidOn)
        /\ charge[c].paidOn <= today

\* A notice of a debit is one of a payment, on a day that has come.
DebitDated(n) == n.on <= today /\ (n.kind = "debit" => SomePaid)

\* A paid row that a payment puts in force.
DatedRow(r) == ~r.free => SomePaid /\ IsSet(r.end) /\ r.end <= today + Period

\* Whoever holds the answer "approved" holds it about a payment.
ApprovalsPaid ==
    /\ \A n \in notices : DebitDated(n)
    /\ \A h \in Handlers : /\ DebitDated(hook[h].notice)
                           /\ hook[h].status = "approved" => SomePaid
    /\ card.result = "approved" => SomePaid
    /\ recon.status = "approved" => SomePaid
    /\ recon.paidOn <= today
    /\ \A q \in Requests : activation[q] # NoActivation => DatedRow(activation[q].row)

PaidInv == TypeOK /\ OpenRequests /\ ChargesDated /\ ApprovalsPaid /\ PaidPlanWasPaid

\* What every step does to the rows: a paid row stays one, no row becomes the
\* Starter, and the Starter stays unbilled.
RowsKept ==
    \A s \in Subs :
        /\ Paid(s) => Paid(s)'
        /\ sub'[s].free =>
             /\ sub[s].free
             /\ sub'[s].pay = NoCharge /\ sub'[s].pre = NoCharge
             /\ ~IsSet(sub'[s].end) /\ ~sub'[s].warned /\ ~sub'[s].cancelAt

\* The step of StarterKeptUntilPaid.
StarterStays ==
    \A s \in Active : sub[s].free /\ sub[s].status # sub'[s].status =>
        \E t \in Subs : ~sub[t]'.free /\ sub[t]'.status = "active"

StarterStep == RowsKept /\ StarterStays /\ HeldRowsPaid' /\ ChargedOnlyIfPaid'

----------------------------------------------------------------------------
(* The Starter *)

\* A step that leaves the rows alone, or saves one paid row.
LEMMA RowsUnchanged == ASSUME StarterInv, UNCHANGED sub PROVE RowsKept /\ StarterStays
  BY DEF StarterInv, StarterNeverBilled, RowsKept, StarterStays, Paid, Exists, Active

LEMMA PaidRowSaved ==
    ASSUME StarterInv, NEW s \in Subs, Paid(s),
           NEW r \in Rows, ~r.free, r.status # "none", sub' = [sub EXCEPT ![s] = r]
    PROVE  RowsKept /\ StarterStays
<1>1. /\ sub'[s] = r
      /\ \A t \in Subs : t # s => sub'[t] = sub[t]
  BY DEF StarterInv, TypeOK
<1>2. RowsKept
  BY <1>1 DEF StarterInv, StarterNeverBilled, RowsKept, Paid, Exists
<1>3. StarterStays
  BY <1>1 DEF StarterStays, Paid, Active
<1> QED
  BY <1>2, <1>3

\* activate_as_current! cancels the Starter for a paid plan that is in force.
LEMMA PaidRowActivated ==
    ASSUME StarterInv, NEW q \in Requests, SaveActivation(q)
    PROVE  RowsKept /\ StarterStays /\ activation[q].sub \in Subs /\ Paid(activation[q].sub)
<1> DEFINE s == activation[q].sub
           r == activation[q].row
<1>1. activation[q] # NoActivation
  BY DEF SaveActivation
<1>2. s \in Subs /\ r \in Rows
  BY <1>1, OpenActivation DEF StarterInv
<1>3. ActivatesPaid(activation[q])
  BY <1>1 DEF StarterInv, HeldRowsPaid
<1>4. Paid(s) /\ ~r.free /\ r.status = "active"
  BY <1>3 DEF ActivatesPaid
<1>5. sub'[s] = r
  BY <1>2 DEF SaveActivation
<1>6. \A t \in Subs : t # s => sub'[t] \in {sub[t], status_cancelled(sub[t])}
  BY DEF SaveActivation
<1> HIDE DEF s, r
<1>7. \A t \in Subs : t # s =>
        /\ sub'[t].free = sub[t].free /\ sub'[t].pay = sub[t].pay
        /\ sub'[t].pre = sub[t].pre /\ sub'[t].end = sub[t].end
        /\ sub'[t].warned = sub[t].warned /\ sub'[t].cancelAt = sub[t].cancelAt
        /\ (sub[t].status # "none" => sub'[t].status # "none")
  BY <1>6 DEF StarterInv, TypeOK, Rows, Row, status_cancelled
<1>8. RowsKept
  BY <1>4, <1>5, <1>7 DEF StarterInv, StarterNeverBilled, RowsKept, Paid, Exists
<1>9. StarterStays
  BY <1>2, <1>4, <1>5 DEF StarterStays
<1> QED
  BY <1>2, <1>4, <1>8, <1>9 DEF s

\* An activation that is opened on a paid row puts it in force.
LEMMA ActivationOpened ==
    ASSUME TypeOK, NEW q \in Requests, NEW s \in Subs, NEW r, ~r.free, r.status = "active",
           activate_as_current(q, s, r)
    PROVE  /\ activation'[q].sub = s
           /\ ~activation'[q].row.free
           /\ activation'[q].row.status = "active"
           /\ \A o \in Requests : o # q => activation'[o] = activation[o]
  BY DEF activate_as_current, TypeOK

\* What is held after a step was held before or names a paid row.
LEMMA HeldKept ==
    ASSUME StarterInv, RowsKept, TypeOK',
           \A s \in queue' : s \in queue \/ Paid(s)',
           \A p \in posted' : p \in posted \/ Paid(p.sub)',
           \A j \in Jobs : \A s \in list'[j] : s \in list[j] \/ Paid(s)',
           card' # NoCard => card' = card \/ Paid(card.sub)',
           fin' \in {fin, NoFin} \/ Paid(fin.sub)',
           recon' \in {recon, NoRecon} \/ Paid(recon.sub)',
           \A q \in Requests :
                \/ activation'[q] \in {activation[q], Overtake(activation[q]), NoActivation}
                \/ ActivatesPaid(activation[q])'
    PROVE  HeldRowsPaid'
<1> USE DEF StarterInv, HeldRowsPaid, RowsKept
<1>1. \A s \in queue' : Paid(s)'
  BY DEF TypeOK
<1>2. \A p \in posted' : Paid(p.sub)'
  BY DEF TypeOK, Posted
<1>3. \A j \in Jobs : \A s \in list'[j] : Paid(s)'
  BY DEF TypeOK
<1>4. card' # NoCard => Paid(card.sub)'
  <2>1. ASSUME card' = card, card # NoCard PROVE Paid(card.sub)'
    <3>1. card.sub \in Subs
      BY <2>1 DEF TypeOK, CardRequest
    <3>2. Paid(card.sub)
      BY <2>1
    <3> QED
      BY <2>1, <3>1, <3>2 DEF Paid, Exists
  <2> QED
    BY <2>1
<1>5. fin' # NoFin => Paid(fin.sub)'
  <2>1. ASSUME fin' = fin, fin # NoFin PROVE Paid(fin.sub)'
    <3>1. fin.sub \in Subs
      BY <2>1 DEF TypeOK, Finalization
    <3>2. Paid(fin.sub)
      BY <2>1
    <3> QED
      BY <2>1, <3>1, <3>2 DEF Paid, Exists
  <2> QED
    BY <2>1
<1>6. recon' # NoRecon => Paid(recon.sub)'
  <2>1. ASSUME recon' = recon, recon # NoRecon PROVE Paid(recon.sub)'
    <3>1. recon.sub \in Subs
      BY <2>1 DEF TypeOK, Reconciliation
    <3>2. Paid(recon.sub)
      BY <2>1
    <3> QED
      BY <2>1, <3>1, <3>2 DEF Paid, Exists
  <2> QED
    BY <2>1
<1>7. \A q \in Requests : activation'[q] # NoActivation => ActivatesPaid(activation[q])'
  <2> SUFFICES ASSUME NEW q \in Requests, activation'[q] # NoActivation
               PROVE  ActivatesPaid(activation[q])'
    OBVIOUS
  <2>1. ASSUME activation'[q] \in {activation[q], Overtake(activation[q])}
        PROVE  ActivatesPaid(activation[q])'
    <3>1. activation[q] # NoActivation
      BY <2>1 DEF Overtake
    <3>2. activation[q] \in Activation
      BY <3>1 DEF TypeOK
    <3>3. /\ activation'[q].sub = activation[q].sub
          /\ activation'[q].row = activation[q].row
      BY <2>1, <3>2 DEF Overtake, Activation
    <3>4. ActivatesPaid(activation[q])
      BY <3>1
    <3>5. activation[q].sub \in Subs
      BY <3>2 DEF Activation
    <3> QED
      BY <3>3, <3>4, <3>5 DEF ActivatesPaid, Paid, Exists
  <2> QED
    BY <2>1
<1> QED
  BY <1>1, <1>2, <1>3, <1>4, <1>5, <1>6, <1>7

\* The gateway may know of a company as soon as one of its rows is paid.
LEMMA ChargedKept ==
    ASSUME StarterInv, RowsKept,
           (\E t \in Subs : Paid(t)) \/ UNCHANGED <<charge, notices, hook>>
    PROVE  ChargedOnlyIfPaid'
  BY DEF StarterInv, RowsKept, ChargedOnlyIfPaid, GatewayKnowsNothing

\* No notice falls back on the Starter.
LEMMA TargetPaid ==
    ASSUME StarterInv, NEW h \in Handlers, hook[h] # Idle,
           NEW s \in Subs, Target(s, hook[h].notice)
    PROVE  Paid(s)
<1>1. hook[h].notice.charge \in Charges
  BY DEF StarterInv, TypeOK, Fetched, Notice
<1>2. PICK t \in Subs : Paid(t)
  BY DEF StarterInv, ChargedOnlyIfPaid, GatewayKnowsNothing
<1>3. Exists(s)
  BY DEF Target, IsNewest
<1>4. CASE Refers(s, hook[h].notice.charge)
  <2>1. sub[s].pay # NoCharge \/ sub[s].pre # NoCharge
    BY <1>1, <1>4 DEF Refers, Charges, NoCharge
  <2> QED
    BY <1>3, <2>1 DEF StarterInv, StarterNeverBilled, Paid
<1>5. CASE IsNewest(s)
  <2>1. t <= s
    BY <1>2, <1>5 DEF IsNewest, Paid
  <2>2. ASSUME sub[s].free PROVE FALSE
    <3>1. s = 1
      BY <2>2 DEF StarterInv, StarterIsFirst
    <3>2. t = 1
      BY <2>1, <3>1 DEF Subs
    <3> QED
      BY <1>2, <2>2, <3>1, <3>2 DEF Paid
  <2> QED
    BY <1>3, <2>2 DEF StarterInv, TypeOK, Rows, Row, Paid
<1> QED
  BY <1>4, <1>5 DEF Target

\* The requests of the web application.
LEMMA WebStarter == StarterInv /\ Web => StarterStep
<1> SUFFICES ASSUME StarterInv, Web PROVE StarterStep
  OBVIOUS
<1> USE DEF company, gateway, web, transactions, jobs, clock
<1>1. TypeOK /\ TypeOK'
  BY WebType DEF StarterInv
<1>2. card # NoCard => card.sub \in Subs /\ Paid(card.sub)
  BY <1>1 DEF StarterInv, HeldRowsPaid, TypeOK, CardRequest
<1>3. ASSUME NEW s \in Subs, NEW m \in Methods, start_paid_subscription(s, m)
      PROVE  StarterStep
  <2>1. ~Exists(s) /\ sub'[s] = NewRow(FALSE, "pending")
    BY <1>3 DEF start_paid_subscription, create_pending_paid_subscription, NextRow
  <2>2. \A t \in Subs : t # s =>
          sub'[t] = IF sub[t].status = "pending" /\ ~sub[t].free
                      THEN status_cancelled(sub[t]) ELSE sub[t]
    BY <1>3 DEF start_paid_subscription, create_pending_paid_subscription
  <2>3. \A t \in Subs : t # s =>
          /\ sub'[t].free = sub[t].free /\ sub'[t].pay = sub[t].pay
          /\ sub'[t].pre = sub[t].pre /\ sub'[t].end = sub[t].end
          /\ sub'[t].warned = sub[t].warned /\ sub'[t].cancelAt = sub[t].cancelAt
          /\ (sub[t].status # "none" => sub'[t].status # "none")
          /\ (sub[t].free => sub'[t].status = sub[t].status)
    BY <1>1, <2>2 DEF TypeOK, Rows, Row, status_cancelled
  <2>4. RowsKept
    BY <2>1, <2>3 DEF StarterInv, StarterNeverBilled, RowsKept, Paid, Exists, NewRow
  <2>5. StarterStays
    BY <2>1, <2>3 DEF StarterStays, Active, Exists
  <2>6. Paid(s)'
    BY <2>1 DEF Paid, Exists, NewRow
  <2>7. HeldRowsPaid'
    <3>1. /\ queue' \subseteq queue \cup {s}
          /\ card' = card \/ card'.sub = s
      BY <1>3 DEF start_paid_subscription, NoCard
    <3> QED
      BY <1>1, <1>3, <2>4, <2>6, <3>1, HeldKept DEF start_paid_subscription
  <2>8. ChargedOnlyIfPaid'
    BY <1>3, <2>4, ChargedKept DEF start_paid_subscription
  <2> QED
    BY <2>4, <2>5, <2>7, <2>8 DEF StarterStep
<1>4. ASSUME NEW s \in Subs, cancel_subscription(s) PROVE StarterStep
  <2> DEFINE r == schedule_cancellation(sub[s], today)
  <2>1. Paid(s)
    BY <1>4 DEF cancel_subscription, may_schedule_cancellation, Paid, Exists
  <2>2. r \in Rows
    BY <1>1, DatesGood DEF TypeOK
  <2>3. ~r.free /\ r.status # "none"
    BY <1>1, <2>1 DEF schedule_cancellation, Paid, Exists, TypeOK, Rows, Row
  <2>4. RowsKept /\ StarterStays
    BY <1>4, <2>1, <2>2, <2>3, PaidRowSaved DEF cancel_subscription
  <2> QED
    BY <1>1, <1>4, <2>4, HeldKept, ChargedKept DEF cancel_subscription, StarterStep
<1>5. ASSUME NEW s \in Subs, resume_subscription(s) PROVE StarterStep
  <2> DEFINE r == resume_cancellation(sub[s])
  <2>1. Paid(s)
    BY <1>5 DEF resume_subscription, may_resume_cancellation,
           StarterInv, StarterNeverBilled, Paid, Exists
  <2>2. r \in Rows
    BY <1>1, UpdatesGood DEF TypeOK
  <2>3. ~r.free /\ r.status # "none"
    BY <1>1, <2>1 DEF resume_cancellation, Paid, Exists, TypeOK, Rows, Row
  <2>4. RowsKept /\ StarterStays
    BY <1>5, <2>1, <2>2, <2>3, PaidRowSaved DEF resume_subscription
  <2> QED
    BY <1>1, <1>5, <2>4, HeldKept, ChargedKept DEF resume_subscription, StarterStep
<1>6. ASSUME NEW outcome \in Outcomes, CardPost(outcome[1], outcome[2])
      PROVE  StarterStep
  <2>1. card # NoCard /\ card'.sub = card.sub /\ UNCHANGED sub
    BY <1>1, <1>6 DEF CardPost, TypeOK, CardRequest
  <2>2. RowsKept /\ StarterStays
    BY <2>1, RowsUnchanged
  <2>3. Paid(card.sub)'
    BY <1>2, <2>1 DEF Paid, Exists
  <2>4. HeldRowsPaid'
    BY <1>1, <1>6, <2>2, <2>3, HeldKept DEF CardPost
  <2>5. ChargedOnlyIfPaid'
    BY <1>2, <2>1, <2>2, ChargedKept
  <2> QED
    BY <2>2, <2>4, <2>5 DEF StarterStep
<1>7. CASE CardPostRejected
  <2>1. card # NoCard /\ card'.sub = card.sub /\ UNCHANGED sub
    BY <1>1, <1>7 DEF CardPostRejected, TypeOK, CardRequest
  <2>2. RowsKept /\ StarterStays
    BY <2>1, RowsUnchanged
  <2>3. Paid(card.sub)'
    BY <1>2, <2>1 DEF Paid, Exists
  <2>4. HeldRowsPaid'
    BY <1>1, <1>7, <2>2, <2>3, HeldKept DEF CardPostRejected
  <2>5. ChargedOnlyIfPaid'
    BY <1>2, <2>1, <2>2, ChargedKept
  <2> QED
    BY <2>2, <2>4, <2>5 DEF StarterStep
<1>8. CASE CardApply
  <2> DEFINE saved == [sub[card.sub] EXCEPT !.pre = card.charge]
             activated == [saved EXCEPT !.status = "active", !.end = today + Period]
             failed == IF card.result = "refused" THEN saved ELSE sub[card.sub]
             left == IF card.from = "settings" THEN status_cancelled(failed) ELSE failed
  <2>1. card # NoCard
    BY <1>8 DEF CardApply, NoCard
  <2>2. card \in CardRequest
    BY <1>1, <2>1 DEF TypeOK
  <2>3. saved \in Rows /\ ~saved.free /\ saved.status # "none"
    BY <1>1, <1>2, <2>1, <2>2, UpdatesGood
       DEF TypeOK, CardRequest, Paid, Exists, Rows, Row
  <2>4. activated \in Rows /\ ~activated.free /\ activated.status = "active"
    <3>1. activated \in Rows
      BY <1>1, <2>3, DatesGood DEF TypeOK
    <3> QED
      BY <2>3, <3>1 DEF Rows, Row
  <2>5. failed \in Rows /\ ~failed.free /\ failed.status # "none"
    BY <1>1, <1>2, <2>1, <2>3 DEF TypeOK, Paid, Exists
  <2>6. left \in Rows /\ ~left.free /\ left.status # "none"
    <3>1. status_cancelled(failed) \in Rows
      BY <2>5, UpdatesGood
    <3>2. ~status_cancelled(failed).free /\ status_cancelled(failed).status # "none"
      BY <2>5 DEF status_cancelled, Rows, Row
    <3> HIDE DEF failed
    <3> QED
      BY <2>5, <3>1, <3>2
  <2>7. RowsKept /\ StarterStays
    <3>1. CASE card.result = "approved"
      <4>1. sub' = [sub EXCEPT ![card.sub] = saved]
        BY <1>8, <3>1 DEF CardApply
      <4> HIDE DEF saved
      <4> QED
        BY <1>2, <2>1, <2>3, <4>1, PaidRowSaved
    <3>2. CASE card.result = "pending"
      <4>1. sub' = [sub EXCEPT ![card.sub] = saved]
        BY <1>8, <3>2 DEF CardApply
      <4> HIDE DEF saved
      <4> QED
        BY <1>2, <2>1, <2>3, <4>1, PaidRowSaved
    <3>3. CASE card.result \in {"refused", "error"}
      <4>1. sub' = [sub EXCEPT ![card.sub] = left]
        BY <1>8, <3>3 DEF CardApply
      <4> HIDE DEF left
      <4> QED
        BY <1>2, <2>1, <2>6, <4>1, PaidRowSaved
    <3> QED
      BY <1>8, <3>1, <3>2, <3>3 DEF CardApply
  <2>8. /\ card' \in {card, NoCard}
        /\ UNCHANGED <<queue, posted, list, fin, recon, charge, notices, hook>>
    BY <1>8 DEF CardApply
  <2>9. \A q \in Requests : activation'[q] = activation[q] \/ ActivatesPaid(activation[q])'
    <3>1. CASE card.result = "approved"
      <4>1. activate_as_current("card", card.sub, activated)
        BY <1>8, <3>1 DEF CardApply
      <4>2. card' = card /\ Paid(card.sub)'
        <5>1. card' = card
          BY <1>8, <3>1 DEF CardApply
        <5> QED
          BY <1>2, <2>1, <2>7, <5>1 DEF RowsKept, Paid, Exists
      <4>3. card.sub \in Subs /\ "card" \in Requests
        BY <1>2, <2>1, WhoRuns
      <4>4. ~activated.free /\ activated.status = "active"
        BY <2>4
      <4> HIDE DEF activated
      <4>5. /\ activation'["card"].sub = card.sub
            /\ ~activation'["card"].row.free
            /\ activation'["card"].row.status = "active"
            /\ \A o \in Requests : o # "card" => activation'[o] = activation[o]
        BY <1>1, <4>1, <4>3, <4>4, ActivationOpened
      <4> QED
        BY <4>2, <4>5 DEF ActivatesPaid, Paid, Exists
    <3>2. CASE card.result # "approved"
      BY <1>8, <3>2 DEF CardApply
    <3> QED
      BY <3>1, <3>2
  <2> QED
    BY <1>1, <2>7, <2>8, <2>9, HeldKept, ChargedKept DEF StarterStep
<1> QED
  BY <1>3, <1>4, <1>5, <1>6, <1>7, <1>8 DEF Web

\* The webhook requests.
LEMMA WebhookStarter == StarterInv /\ Webhook => StarterStep
<1> SUFFICES ASSUME StarterInv, Webhook PROVE StarterStep
  OBVIOUS
<1> USE DEF company, gateway, web, transactions, jobs, clock
<1>1. TypeOK /\ TypeOK'
  BY WebhookType DEF StarterInv
<1>2. ASSUME NEW h \in Handlers, NEW n \in notices, HookFetch(h, n)
      PROVE  StarterStep
  <2>1. RowsKept /\ StarterStays
    BY <1>2, RowsUnchanged DEF HookFetch
  <2>2. \E t \in Subs : Paid(t)
    BY DEF StarterInv, ChargedOnlyIfPaid, GatewayKnowsNothing
  <2> QED
    BY <1>1, <1>2, <2>1, <2>2, HeldKept, ChargedKept DEF HookFetch, StarterStep
<1>3. ASSUME NEW h \in Handlers, NEW s \in Subs, HookApply(h, s) PROVE StarterStep
  <2> DEFINE n == hook[h].notice
             r == hook_saved(sub[s], n.charge)
  <2>1. Paid(s)
    BY <1>3, TargetPaid DEF HookApply
  <2>2. n.charge \in Charges /\ n.on \in Days \cup {NoDay}
    BY <1>1, <1>3 DEF HookApply, TypeOK, Fetched, Notice
  <2>3. sub[s] \in Rows /\ ~sub[s].free
    BY <1>1, <2>1 DEF TypeOK, Paid
  <2>4. r \in Rows /\ ~r.free
    <3>1. r \in Rows
      BY <2>2, <2>3, UpdatesGood, RangesGood DEF hook_saved
    <3> QED
      BY <2>3, <3>1 DEF hook_saved, Rows, Row
  <2> HIDE DEF r
  <2>5. /\ activate_for(sub[s], n.on) \in Rows
        /\ activate_for(r, today) \in Rows
        /\ to_pending(r) \in Rows
        /\ cancel(r) \in Rows
    BY <1>1, <2>2, <2>3, <2>4, DatesGood, UpdatesGood DEF TypeOK
  <2>6. /\ ~activate_for(sub[s], n.on).free /\ activate_for(sub[s], n.on).status = "active"
        /\ ~activate_for(r, today).free /\ activate_for(r, today).status = "active"
        /\ ~to_pending(r).free /\ to_pending(r).status # "none"
        /\ ~cancel(r).free /\ cancel(r).status # "none"
    BY <2>3, <2>4 DEF activate_for, to_pending, cancel, Rows, Row
  <2>7. \/ UNCHANGED sub /\ activate_as_current(h, s, activate_for(sub[s], n.on))
        \/ UNCHANGED sub /\ activate_as_current(h, s, activate_for(r, today))
        \/ UNCHANGED activation /\ sub' = [sub EXCEPT ![s] = to_pending(r)]
        \/ UNCHANGED activation /\ sub' = [sub EXCEPT ![s] = cancel(r)]
    BY <1>3 DEF HookApply, UpdateRow, r
  <2>8. RowsKept /\ StarterStays
    BY <2>1, <2>5, <2>6, <2>7, PaidRowSaved, RowsUnchanged
  <2>9. Paid(s)'
    BY <2>1, <2>8 DEF RowsKept
  <2>10. \A q \in Requests : activation'[q] = activation[q] \/ ActivatesPaid(activation[q])'
    <3>1. ASSUME NEW row, ~row.free, row.status = "active", activate_as_current(h, s, row)
          PROVE  \A q \in Requests :
                    activation'[q] = activation[q] \/ ActivatesPaid(activation[q])'
      <4>1. /\ activation'[h].sub = s
            /\ ~activation'[h].row.free
            /\ activation'[h].row.status = "active"
            /\ \A o \in Requests : o # h => activation'[o] = activation[o]
        BY <1>1, <3>1, WhoRuns, ActivationOpened
      <4> QED
        BY <2>9, <4>1 DEF ActivatesPaid, Paid, Exists
    <3> QED
      BY <2>6, <2>7, <3>1
  <2> QED
    BY <1>1, <1>3, <2>1, <2>8, <2>10, HeldKept, ChargedKept DEF HookApply, StarterStep
<1>4. ASSUME NEW h \in Handlers, HookRejects(h) PROVE StarterStep
  <2>1. RowsKept /\ StarterStays
    BY <1>4, RowsUnchanged DEF HookRejects
  <2>2. \E t \in Subs : Paid(t)
    BY <1>4 DEF HookRejects, StarterInv, ChargedOnlyIfPaid, GatewayKnowsNothing
  <2> QED
    BY <1>1, <1>4, <2>1, <2>2, HeldKept, ChargedKept DEF HookRejects, StarterStep
<1> QED
  BY <1>2, <1>3, <1>4 DEF Webhook

\* Commits, rollbacks and callbacks.
LEMMA FinishStarter == StarterInv /\ Finish => StarterStep
<1> SUFFICES ASSUME StarterInv, Finish PROVE StarterStep
  OBVIOUS
<1> USE DEF company, gateway, web, transactions, jobs, clock
<1>1. TypeOK /\ TypeOK'
  BY FinishType DEF StarterInv
<1>2. card # NoCard => card.sub \in Subs /\ Paid(card.sub)
  BY <1>1 DEF StarterInv, HeldRowsPaid, TypeOK, CardRequest
<1>3. ASSUME NEW q \in Requests, SaveActivation(q),
             UNCHANGED jobs, card' # NoCard => card' = card \/ Paid(card.sub)'
      PROVE  StarterStep
  <2>1. RowsKept /\ StarterStays /\ \E t \in Subs : Paid(t)
    BY <1>3, PaidRowActivated
  <2>2. \A o \in Requests : activation'[o] \in {Overtake(activation[o]), NoActivation}
    BY <1>3 DEF SaveActivation
  <2>3. HeldRowsPaid'
    BY <1>1, <1>3, <2>1, <2>2, HeldKept
  <2> QED
    BY <2>1, <2>3, ChargedKept DEF StarterStep
<1>4. ASSUME NEW q \in Requests, Commit(q) PROVE StarterStep
  <2>1. SaveActivation(q) /\ UNCHANGED jobs
    BY <1>4 DEF Commit
  <2>2. ASSUME card' # NoCard, card' # card PROVE Paid(card.sub)'
    <3>1. q = "card" /\ card' = [card EXCEPT !.result = "saved"]
      BY <1>4, <2>2 DEF Commit
    <3>2. activation["card"] # NoActivation
      BY <2>1, <3>1 DEF SaveActivation
    <3>3. card # NoCard
      BY <3>2 DEF StarterInv, OpenRequests, NoCard
    <3>4. card \in CardRequest
      BY <1>1, <3>3 DEF TypeOK
    <3>5. card'.sub = card.sub
      BY <3>1, <3>4 DEF CardRequest
    <3>6. RowsKept
      BY <2>1, PaidRowActivated
    <3> QED
      BY <1>2, <3>3, <3>5, <3>6 DEF RowsKept, Paid, Exists
  <2> QED
    BY <1>3, <2>1, <2>2
<1>5. ASSUME NEW h \in Handlers, CommitWithoutPlan(h) PROVE StarterStep
  BY <1>3, <1>5, WhoRuns DEF CommitWithoutPlan
<1>6. ASSUME NEW q \in Requests, RollBack(q) PROVE StarterStep
  <2>1. RowsKept /\ StarterStays
    BY <1>6, RowsUnchanged DEF RollBack
  <2>2. activation[q] # NoActivation
    BY <1>6 DEF RollBack
  <2>3. Paid(activation[q].sub) /\ activation[q].sub \in Subs
    BY <1>1, <2>2, OpenActivation DEF StarterInv, HeldRowsPaid, ActivatesPaid
  <2>4. ASSUME card' # NoCard, card' # card PROVE Paid(card.sub)'
    <3>1. q = "card" /\ card' = [card EXCEPT !.result = "error"]
      BY <1>6, <2>4 DEF RollBack
    <3>2. card # NoCard
      BY <2>2, <3>1 DEF StarterInv, OpenRequests, NoCard
    <3>3. card \in CardRequest
      BY <1>1, <3>2 DEF TypeOK
    <3>4. card'.sub = card.sub
      BY <3>1, <3>3 DEF CardRequest
    <3> QED
      BY <1>2, <2>1, <3>2, <3>4 DEF RowsKept, Paid, Exists
  <2>5. \A o \in Requests : activation'[o] \in {activation[o], NoActivation}
    BY <1>1, <1>6 DEF RollBack, TypeOK
  <2>6. UNCHANGED jobs
    BY <1>6 DEF RollBack
  <2>7. HeldRowsPaid'
    BY <1>1, <2>1, <2>4, <2>5, <2>6, HeldKept
  <2> QED
    BY <2>1, <2>3, <2>7, ChargedKept DEF StarterStep
<1>7. ASSUME NEW p \in Processes, sync_company_access(p) PROVE StarterStep
  <2>1. RowsKept /\ StarterStays
    BY <1>7, RowsUnchanged DEF sync_company_access
  <2> QED
    BY <1>1, <1>7, <2>1, HeldKept, ChargedKept DEF sync_company_access, StarterStep
<1>8. ASSUME NEW p \in Processes, SyncRaises(p) PROVE StarterStep
  <2>1. RowsKept /\ StarterStays
    <3>1. CASE UNCHANGED sub
      BY <3>1, RowsUnchanged
    <3>2. CASE card.from = "settings" /\ sub' = [sub EXCEPT ![card.sub] = status_cancelled(@)]
      <4>1. card # NoCard
        BY <3>2 DEF NoCard
      <4>2. status_cancelled(sub[card.sub]) \in Rows
        BY <1>1, <1>2, <4>1, UpdatesGood DEF TypeOK
      <4>3. /\ ~status_cancelled(sub[card.sub]).free
            /\ status_cancelled(sub[card.sub]).status # "none"
        BY <1>1, <1>2, <4>1 DEF status_cancelled, Paid, TypeOK, Rows, Row
      <4> QED
        BY <1>2, <3>2, <4>1, <4>2, <4>3, PaidRowSaved
    <3> QED
      BY <1>8, <3>1, <3>2 DEF SyncRaises
  <2>2. UNCHANGED <<charge, notices, hook, activation, jobs>> /\ card' \in {card, NoCard}
    BY <1>8 DEF SyncRaises
  <2> QED
    BY <1>1, <2>1, <2>2, HeldKept, ChargedKept DEF StarterStep
<1> QED
  BY <1>4, <1>5, <1>6, <1>7, <1>8 DEF Finish

\* The first-payment job and the cycle job.
LEMMA PaymentStarter == StarterInv /\ (PaymentJob \/ Cycle) => StarterStep
<1> SUFFICES ASSUME StarterInv, PaymentJob \/ Cycle PROVE StarterStep
  OBVIOUS
<1> USE DEF company, gateway, web, transactions, jobs, clock
<1>1. TypeOK /\ TypeOK'
  BY PaymentType DEF StarterInv
<1>2. ASSUME NEW s \in Subs, PaymentJobPost(s) PROVE StarterStep
  <2>1. RowsKept /\ StarterStays
    BY <1>2, RowsUnchanged DEF PaymentJobPost
  <2>2. Paid(s) /\ Paid(s)'
    BY <1>2, <2>1 DEF PaymentJobPost, StarterInv, HeldRowsPaid, RowsKept
  <2>3. \A p \in posted' : p \in posted \/ p.sub = s
    BY <1>2 DEF PaymentJobPost, PostInvoice
  <2>4. HeldRowsPaid'
    BY <1>1, <1>2, <2>1, <2>2, <2>3, HeldKept DEF PaymentJobPost
  <2> QED
    BY <2>1, <2>2, <2>4, ChargedKept DEF StarterStep
<1>3. ASSUME NEW s \in Subs, PaymentJobFails(s) PROVE StarterStep
  <2>1. RowsKept /\ StarterStays
    BY <1>3, RowsUnchanged DEF PaymentJobFails
  <2> QED
    BY <1>1, <1>3, <2>1, HeldKept, ChargedKept DEF PaymentJobFails, StarterStep
<1>4. ASSUME NEW p \in posted, persist_payment_reference(p) PROVE StarterStep
  <2> DEFINE r == [sub[p.sub] EXCEPT !.pay = p.charge]
  <2>1. p.sub \in Subs /\ p.charge \in Charges
    BY <1>1 DEF TypeOK, Posted
  <2>2. Paid(p.sub)
    BY DEF StarterInv, HeldRowsPaid
  <2>3. r \in Rows
    BY <1>1, <2>1, UpdatesGood DEF TypeOK
  <2>4. ~r.free /\ r.status # "none"
    BY <1>1, <2>1, <2>2 DEF Paid, Exists, TypeOK, Rows, Row
  <2>5. sub' = [sub EXCEPT ![p.sub] = r]
    BY <1>4 DEF persist_payment_reference
  <2>6. RowsKept /\ StarterStays
    <3> HIDE DEF r
    <3> QED
      BY <2>1, <2>2, <2>3, <2>4, <2>5, PaidRowSaved
  <2> QED
    BY <1>1, <1>4, <2>6, HeldKept, ChargedKept DEF persist_payment_reference, StarterStep
<1>5. CASE CyclePluck
  <2>1. RowsKept /\ StarterStays
    BY <1>5, RowsUnchanged DEF CyclePluck, Pluck
  <2>2. \A j \in Jobs : \A s \in list'[j] : s \in list[j] \/ Paid(s)'
    BY <1>1, <1>5 DEF CyclePluck, Pluck, ready_to_cycle, TypeOK, Paid, Exists
  <2>3. HeldRowsPaid'
    BY <1>1, <1>5, <2>1, <2>2, HeldKept DEF CyclePluck, Pluck
  <2> QED
    BY <1>5, <2>1, <2>3, ChargedKept DEF CyclePluck, Pluck, StarterStep
<1>6. ASSUME NEW s \in Subs, CycleOne(s) PROVE StarterStep
  <2>1. RowsKept /\ StarterStays
    BY <1>6, RowsUnchanged DEF CycleOne
  <2>2. Paid(s) /\ s \in Subs
    BY <1>6 DEF CycleOne, Done, StarterInv, HeldRowsPaid
  <2>3. PICK t \in Subs : IsNewest(t) /\ PostInvoice(t, plan, "cycle")
    BY <1>6 DEF CycleOne
  <2>4. Paid(t)
    <3>1. s <= t /\ Exists(t)
      BY <2>2, <2>3 DEF IsNewest, Paid
    <3>2. ASSUME sub[t].free PROVE FALSE
      <4>1. t = 1
        BY <3>2 DEF StarterInv, StarterIsFirst
      <4>2. s = 1
        BY <3>1, <4>1 DEF Subs
      <4> QED
        BY <2>2, <3>2, <4>1, <4>2 DEF Paid
    <3> QED
      BY <1>1, <3>1, <3>2 DEF TypeOK, Rows, Row, Paid
  <2>5. Paid(t)'
    BY <2>1, <2>4 DEF RowsKept
  <2>6. \A p \in posted' : p \in posted \/ p.sub = t
    BY <2>3 DEF PostInvoice
  <2>7. \A j \in Jobs : list'[j] \subseteq list[j]
    BY <1>1, <1>6 DEF CycleOne, Done, TypeOK
  <2>8. HeldRowsPaid'
    BY <1>1, <1>6, <2>1, <2>5, <2>6, <2>7, HeldKept DEF CycleOne
  <2> QED
    BY <2>1, <2>4, <2>8, ChargedKept DEF StarterStep
<1>7. ASSUME NEW s \in Subs, CycleRaises(s) PROVE StarterStep
  <2>1. RowsKept /\ StarterStays
    BY <1>7, RowsUnchanged DEF CycleRaises
  <2>2. \A j \in Jobs : list'[j] \subseteq list[j]
    BY <1>1, <1>7 DEF CycleRaises, Done, TypeOK
  <2> QED
    BY <1>1, <1>7, <2>1, <2>2, HeldKept, ChargedKept DEF CycleRaises, StarterStep
<1> QED
  BY <1>2, <1>3, <1>4, <1>5, <1>6, <1>7 DEF PaymentJob, Cycle

\* The jobs that warn, expire and finalize.
LEMMA LifecycleStarter == StarterInv /\ (Notify \/ Expire \/ Finalize) => StarterStep
<1> SUFFICES ASSUME StarterInv, Notify \/ Expire \/ Finalize PROVE StarterStep
  OBVIOUS
<1> USE DEF company, gateway, web, transactions, jobs, clock
<1>1. TypeOK /\ TypeOK'
  BY LifecycleType DEF StarterInv
<1>2. CASE NotifyPluck \/ ExpirePluck \/ FinalizePluck
  <2>1. RowsKept /\ StarterStays
    BY <1>2, RowsUnchanged DEF NotifyPluck, ExpirePluck, FinalizePluck, Pluck
  <2>2. ASSUME NEW s \in Subs,
               \/ overdue_for_notification(sub[s], today)
               \/ overdue_for_expiration(sub[s], today)
               \/ scheduled_for_cancellation_due(sub[s], today)
        PROVE  Paid(s)'
    <3>1. Paid(s)
      BY <1>1, <2>2 DEF overdue_for_notification, overdue_for_expiration, Overdue,
         scheduled_for_cancellation_due, cancel_due, StarterInv, StarterNeverBilled,
         TypeOK, Rows, Row, Paid, Exists
    <3> QED
      BY <2>1, <3>1 DEF RowsKept
  <2>3. \A j \in Jobs : \A s \in list'[j] : s \in list[j] \/ Paid(s)'
    BY <1>1, <1>2, <2>2 DEF NotifyPluck, ExpirePluck, FinalizePluck, Pluck, TypeOK
  <2>4. HeldRowsPaid'
    BY <1>1, <1>2, <2>1, <2>3, HeldKept DEF NotifyPluck, ExpirePluck, FinalizePluck, Pluck
  <2> QED
    BY <1>2, <2>1, <2>4, ChargedKept
       DEF NotifyPluck, ExpirePluck, FinalizePluck, Pluck, StarterStep
<1>3. ASSUME NEW j \in Jobs, NEW s \in Subs, Done(j, s)
      PROVE  Paid(s) /\ \A i \in Jobs : list'[i] \subseteq list[i]
  BY <1>1, <1>3 DEF Done, StarterInv, HeldRowsPaid, TypeOK
<1>4. ASSUME NEW s \in Subs, NotifyOne(s) PROVE StarterStep
  <2> DEFINE r == [sub[s] EXCEPT !.warned = TRUE]
  <2>1. Paid(s) /\ \A i \in Jobs : list'[i] \subseteq list[i]
    BY <1>3, <1>4 DEF NotifyOne, Done
  <2>2. r \in Rows
    BY <1>1, UpdatesGood DEF TypeOK
  <2>3. ~r.free /\ r.status # "none" /\ sub' = [sub EXCEPT ![s] = r]
    BY <1>1, <1>4, <2>1 DEF NotifyOne, Paid, Exists, TypeOK, Rows, Row
  <2>4. RowsKept /\ StarterStays
    <3> HIDE DEF r
    <3> QED
      BY <2>1, <2>2, <2>3, PaidRowSaved
  <2> QED
    BY <1>1, <1>4, <2>1, <2>4, HeldKept, ChargedKept DEF NotifyOne, StarterStep
<1>5. ASSUME NEW s \in Subs, ExpireOne(s) PROVE StarterStep
  <2>1. Paid(s) /\ \A i \in Jobs : list'[i] \subseteq list[i]
    BY <1>3, <1>5 DEF ExpireOne, Done
  <2>2. expire(sub[s]) \in Rows
    BY <1>1, UpdatesGood DEF TypeOK
  <2>3. ~expire(sub[s]).free /\ expire(sub[s]).status # "none"
    BY <1>1, <2>1 DEF expire, Paid, TypeOK, Rows, Row
  <2>4. RowsKept /\ StarterStays
    BY <1>5, <2>1, <2>2, <2>3, PaidRowSaved, RowsUnchanged DEF ExpireOne, UpdateRow
  <2> QED
    BY <1>1, <1>5, <2>1, <2>4, HeldKept, ChargedKept DEF ExpireOne, StarterStep
<1>6. ASSUME NEW s \in Subs, FinalizeLoad(s) PROVE StarterStep
  <2> DEFINE r == finalize_scheduled_cancellation(sub[s], sub[s])
  <2>1. Paid(s) /\ \A i \in Jobs : list'[i] \subseteq list[i]
    BY <1>3, <1>6 DEF FinalizeLoad, Done
  <2>2. r \in Rows
    BY <1>1, UpdatesGood DEF TypeOK
  <2>3. ~r.free /\ r.status # "none"
    BY <1>1, <2>1 DEF finalize_scheduled_cancellation, Paid, Exists, TypeOK, Rows, Row
  <2>4. UNCHANGED sub \/ sub' = [sub EXCEPT ![s] = r]
    BY <1>6 DEF FinalizeLoad, UpdateRow
  <2>5. RowsKept /\ StarterStays
    BY <2>1, <2>2, <2>3, <2>4, PaidRowSaved, RowsUnchanged
  <2>6. fin' = fin \/ fin'.sub = s
    BY <1>6 DEF FinalizeLoad
  <2>7. Paid(s)'
    BY <2>1, <2>5 DEF RowsKept
  <2>8. HeldRowsPaid'
    BY <1>1, <1>6, <2>1, <2>5, <2>6, <2>7, HeldKept DEF FinalizeLoad
  <2> QED
    BY <2>1, <2>5, <2>8, ChargedKept DEF StarterStep
<1>7. CASE FinalizeCommit
  <2> DEFINE r == finalize_scheduled_cancellation(sub[fin.sub], fin.row)
  <2>1. fin.sub \in Subs /\ fin.row \in Rows /\ Paid(fin.sub)
    BY <1>1, <1>7 DEF FinalizeCommit, TypeOK, Finalization, StarterInv, HeldRowsPaid
  <2>2. r \in Rows
    BY <1>1, <2>1, UpdatesGood DEF TypeOK
  <2>3. ~r.free /\ r.status # "none"
    BY <1>1, <2>1 DEF finalize_scheduled_cancellation, Paid, Exists, TypeOK, Rows, Row
  <2>4. sub' = [sub EXCEPT ![fin.sub] = r]
    BY <1>7 DEF FinalizeCommit
  <2>5. RowsKept /\ StarterStays
    BY <2>1, <2>2, <2>3, <2>4, PaidRowSaved
  <2> QED
    BY <1>1, <1>7, <2>5, HeldKept, ChargedKept DEF FinalizeCommit, StarterStep
<1> QED
  BY <1>2, <1>4, <1>5, <1>6, <1>7 DEF Notify, Expire, Finalize

\* The reconciliation.
LEMMA ReconcileStarter == StarterInv /\ Reconcile => StarterStep
<1> SUFFICES ASSUME StarterInv, Reconcile PROVE StarterStep
  OBVIOUS
<1> USE DEF company, gateway, web, transactions, jobs, clock
<1>1. TypeOK /\ TypeOK'
  BY ReconcileType DEF StarterInv
<1>2. CASE ReconcilePluck
  <2>1. RowsKept /\ StarterStays
    BY <1>2, RowsUnchanged DEF ReconcilePluck, Pluck
  <2>2. \A j \in Jobs : \A s \in list'[j] : s \in list[j] \/ Paid(s)'
    BY <1>1, <1>2 DEF ReconcilePluck, Pluck, TypeOK, Paid, Exists
  <2>3. HeldRowsPaid'
    BY <1>1, <1>2, <2>1, <2>2, HeldKept DEF ReconcilePluck, Pluck
  <2> QED
    BY <1>2, <2>1, <2>3, ChargedKept DEF ReconcilePluck, Pluck, StarterStep
<1>3. ASSUME NEW s \in Subs, ReconcileFetch(s) PROVE StarterStep
  <2>1. RowsKept /\ StarterStays
    BY <1>3, RowsUnchanged DEF ReconcileFetch
  <2>2. Paid(s)'
    BY <1>3, <2>1 DEF ReconcileFetch, Done, StarterInv, HeldRowsPaid, RowsKept
  <2>3. \A j \in Jobs : list'[j] \subseteq list[j]
    BY <1>1, <1>3 DEF ReconcileFetch, Done, TypeOK
  <2>4. recon' = NoRecon \/ recon'.sub = s
    BY <1>3 DEF ReconcileFetch
  <2>5. HeldRowsPaid'
    BY <1>1, <1>3, <2>1, <2>2, <2>3, <2>4, HeldKept DEF ReconcileFetch
  <2> QED
    BY <1>3, <2>1, <2>5, ChargedKept DEF ReconcileFetch, StarterStep
<1>4. CASE ReconcileApply
  <2> DEFINE saved == reconcile_saved(sub[recon.sub])
             r == apply_gateway_status(saved)
  <2>1. recon \in Reconciliation /\ Paid(recon.sub)
    BY <1>1, <1>4 DEF ReconcileApply, TypeOK, StarterInv, HeldRowsPaid
  <2>2. /\ recon.sub \in Subs /\ recon.charge \in Charges
        /\ recon.paidOn \in Days \cup {NoDay}
    BY <2>1 DEF Reconciliation
  <2>3. saved \in Rows
    BY <1>1, <2>2, UpdatesGood DEF reconcile_saved, TypeOK
  <2>4. ~saved.free /\ saved.status # "none"
    BY <1>1, <2>1, <2>2 DEF reconcile_saved, Paid, Exists, TypeOK, Rows, Row
  <2>5. r \in Rows
    <3> HIDE DEF saved
    <3> QED
      BY <1>1, <2>2, <2>3, UpdatesGood, DatesGood DEF apply_gateway_status, TypeOK
  <2>6. ~r.free /\ r.status # "none"
    <3> HIDE DEF saved
    <3>1. \A day : ~activate_for(saved, day).free /\ activate_for(saved, day).status = "active"
      BY <2>3, <2>4 DEF activate_for, Rows, Row
    <3>2. /\ ~cancel(saved).free /\ cancel(saved).status # "none"
          /\ ~to_pending(saved).free /\ to_pending(saved).status # "none"
      BY <2>3, <2>4 DEF cancel, to_pending, Rows, Row
    <3> QED
      BY <2>4, <3>1, <3>2 DEF apply_gateway_status
  <2>7. sub' = [sub EXCEPT ![recon.sub] = r]
    BY <1>4 DEF ReconcileApply, UpdateRow
  <2>8. RowsKept /\ StarterStays
    <3> HIDE DEF r
    <3> QED
      BY <2>1, <2>2, <2>5, <2>6, <2>7, PaidRowSaved
  <2>9. \A q \in Requests : activation'[q] \in {activation[q], Overtake(activation[q])}
    BY <1>4 DEF ReconcileApply
  <2> QED
    BY <1>1, <1>4, <2>8, <2>9, HeldKept, ChargedKept DEF ReconcileApply, StarterStep
<1> QED
  BY <1>2, <1>3, <1>4 DEF Reconcile

\* The gateway, the crashes and the calendar.
LEMMA EnvironmentStarter ==
    StarterInv /\ (Gateway \/ PumaCrash \/ SidekiqCrash \/ Tick) => StarterStep
<1> SUFFICES ASSUME StarterInv, Gateway \/ PumaCrash \/ SidekiqCrash \/ Tick
             PROVE StarterStep
  OBVIOUS
<1> USE DEF company, gateway, web, transactions, jobs, clock
<1>1. TypeOK /\ TypeOK'
  BY EnvironmentType DEF StarterInv
<1>2. UNCHANGED sub
  BY DEF Gateway, Settle, Revoke, Debit, LoseNotice, PumaCrash, SidekiqCrash, Tick
<1>3. RowsKept /\ StarterStays
  BY <1>2, RowsUnchanged
<1>4. HeldRowsPaid'
  <2>1. CASE Gateway \/ Tick \/ PumaCrash
    BY <1>1, <1>3, <2>1, HeldKept
       DEF Gateway, Settle, Revoke, Debit, LoseNotice, Tick, PumaCrash
  <2>2. CASE SidekiqCrash
    <3>1. \A s \in queue' : s \in queue \/ Paid(s)'
      BY <1>2, <2>2 DEF SidekiqCrash, StarterInv, HeldRowsPaid, Paid, Exists
    <3>2. posted' = {} /\ (\A j \in Jobs : list'[j] = {}) /\ card' = card
          /\ fin' = NoFin /\ recon' = NoRecon /\ activation' = activation
      BY <2>2 DEF SidekiqCrash
    <3> QED
      BY <1>1, <1>3, <3>1, <3>2, HeldKept
  <2> QED
    BY <2>1, <2>2
<1>5. ChargedOnlyIfPaid'
  <2>1. ASSUME GatewayKnowsNothing PROVE GatewayKnowsNothing'
    BY <2>1 DEF GatewayKnowsNothing, Gateway, Settle, Revoke, Debit, LoseNotice,
       PumaCrash, SidekiqCrash, Tick
  <2> QED
    BY <1>3, <2>1, ChargedKept DEF StarterInv, ChargedOnlyIfPaid
<1> QED
  BY <1>3, <1>4, <1>5 DEF StarterStep

\* Initially there is the row of the signup and nothing else.
LEMMA StarterInit == Init => StarterInv
<1> SUFFICES ASSUME Init PROVE StarterInv
  OBVIOUS
<1>1. TypeOK /\ OpenRequests
  BY BillingTypeInit, OpenRequestsInit
<1>2. PICK signup \in Plans, m \in Methods :
        /\ sub = [s \in Subs |-> IF s # 1 THEN NoRow
                    ELSE NewRow(signup = "free",
                                IF signup = "free" THEN "active" ELSE "pending")]
        /\ queue = IF signup # "free" /\ m = "pix" THEN {1} ELSE {}
        /\ card = IF signup # "free" /\ m = "credit_card"
                    THEN [NoCard EXCEPT !.sub = 1] ELSE NoCard
  BY DEF Init
<1>3. 1 \in Subs
  BY SizeAssumption DEF Subs
<1>4. signup # "free" => Paid(1)
  BY <1>2, <1>3 DEF Paid, Exists, NewRow
<1>5. StarterIsFirst /\ StarterNeverBilled
  BY <1>2 DEF StarterIsFirst, StarterNeverBilled, NewRow, NoRow, IsSet
<1>6. HeldRowsPaid
  <2>1. /\ posted = {} /\ fin = NoFin /\ recon = NoRecon
        /\ \A j \in Jobs : list[j] = {}
        /\ \A q \in Requests : activation[q] = NoActivation
    BY DEF Init
  <2>2. \A s \in queue : Paid(s)
    BY <1>2, <1>4
  <2>3. card # NoCard => Paid(card.sub)
    BY <1>2, <1>4 DEF NoCard
  <2> QED
    BY <2>1, <2>2, <2>3 DEF HeldRowsPaid
<1>7. ChargedOnlyIfPaid
  BY DEF Init, NoChargeYet, ChargedOnlyIfPaid, GatewayKnowsNothing
<1> QED
  BY <1>1, <1>5, <1>6, <1>7 DEF StarterInv

\* Every step keeps the invariant, and the Starter in force unless a paid plan takes over.
LEMMA StarterNext == StarterInv /\ [Next]_vars => StarterInv' /\ StarterStays
<1> SUFFICES ASSUME StarterInv, [Next]_vars PROVE StarterInv' /\ StarterStays
  OBVIOUS
<1>1. StarterStep
  <2>1. ASSUME UNCHANGED vars PROVE StarterStep
    <3>1. RowsKept /\ StarterStays
      BY <2>1, RowsUnchanged DEF vars
    <3>2. HeldRowsPaid' /\ ChargedOnlyIfPaid'
      BY <2>1 DEF StarterInv, HeldRowsPaid, ActivatesPaid, ChargedOnlyIfPaid,
         GatewayKnowsNothing, Paid, Exists, vars, gateway, web, transactions, jobs
    <3> QED
      BY <3>1, <3>2 DEF StarterStep
  <2> QED
    BY <2>1, WebStarter, WebhookStarter, FinishStarter, PaymentStarter, LifecycleStarter,
       ReconcileStarter, EnvironmentStarter DEF Next
<1>2. TypeOK' /\ OpenRequests'
  BY TypeStep DEF StarterInv, TypeInv
<1>3. StarterIsFirst' /\ StarterNeverBilled'
  BY <1>1 DEF StarterStep, RowsKept, StarterInv, StarterIsFirst, StarterNeverBilled
<1> QED
  BY <1>1, <1>2, <1>3 DEF StarterStep, StarterInv

\* The Starter is never billed: no notice, job or retry reaches its row, whatever
\* ids they hold and however late they run.
THEOREM StarterNeverBilledHolds == Spec => []StarterNeverBilled
<1>1. StarterInv => StarterNeverBilled
  BY DEF StarterInv
<1> QED
  BY <1>1, StarterInit, StarterNext, PTL DEF Spec

\* The Starter in force ends only in the step that activates a paid plan.
THEOREM StarterKeptUntilPaidHolds == Spec => StarterKeptUntilPaid
<1>1. StarterInv /\ [Next]_vars =>
        [\A s \in Active : sub[s].free /\ sub[s].status # sub'[s].status =>
            \E t \in Subs : ~sub[t]'.free /\ sub[t]'.status = "active"]_vars
  BY StarterNext DEF StarterStays
<1> QED
  BY <1>1, StarterInit, StarterNext, PTL DEF Spec, StarterKeptUntilPaid

----------------------------------------------------------------------------
(* The paid plan *)

\* An active paid row was one before, or a payment has just dated it.
RowsDated ==
    \A s \in Subs : sub'[s].status = "active" /\ ~sub'[s].free =>
        \/ sub[s].status = "active" /\ ~sub[s].free /\ sub'[s].end = sub[s].end
        \/ SomePaid /\ IsSet(sub'[s].end) /\ sub'[s].end <= today + Period

\* No step forgets that a charge was paid.
ChargesKept == \A c \in Charges : IsSet(charge[c].paidOn) => IsSet(charge'[c].paidOn)

PaidStep ==
    RowsDated /\ ChargesKept /\ ChargesDated' /\ ApprovalsPaid' /\ today <= today'

\* A step that leaves the rows alone.
LEMMA RowsSame == ASSUME UNCHANGED sub PROVE RowsDated
  BY DEF RowsDated

\* A step that saves one row, active as before or by a payment.
LEMMA RowDated ==
    ASSUME TypeOK, NEW s \in Subs, NEW r \in Rows, sub' = [sub EXCEPT ![s] = r],
           r.status = "active" /\ ~r.free =>
             \/ sub[s].status = "active" /\ ~sub[s].free /\ r.end = sub[s].end
             \/ SomePaid /\ IsSet(r.end) /\ r.end <= today + Period
    PROVE  RowsDated
<1>1. sub'[s] = r /\ \A t \in Subs : t # s => sub'[t] = sub[t]
  BY DEF TypeOK
<1> QED
  BY <1>1 DEF RowsDated

\* activate_as_current! activates one row, by a payment, and no other.
LEMMA ActivationDated ==
    ASSUME PaidInv, NEW q \in Requests, SaveActivation(q)
    PROVE  RowsDated
<1>1. activation[q] # NoActivation
  BY DEF SaveActivation
<1>2. DatedRow(activation[q].row)
  BY <1>1 DEF PaidInv, ApprovalsPaid
<1>3. \A t \in Subs : \/ sub'[t] = activation[q].row
                      \/ sub'[t] = sub[t]
                      \/ sub'[t] = status_cancelled(sub[t])
  BY DEF SaveActivation
<1>4. \A t \in Subs : status_cancelled(sub[t]).status # "active"
  BY DEF PaidInv, TypeOK, Rows, Row, status_cancelled
<1> QED
  BY <1>2, <1>3, <1>4 DEF RowsDated, DatedRow

\* An activation that is opened for a dated row.
LEMMA DatedActivation ==
    ASSUME TypeOK, NEW q \in Requests, NEW s \in Subs, NEW r, DatedRow(r),
           activate_as_current(q, s, r)
    PROVE  \A o \in Requests : activation'[o] = activation[o] \/ DatedRow(activation'[o].row)
<1>1. /\ activation'[q].row = r
      /\ \A o \in Requests : o # q => activation'[o] = activation[o]
  BY DEF activate_as_current, TypeOK
<1> QED
  BY <1>1

\* activate_for! from a day that has come ends within a period from now.
LEMMA ActivateForDated ==
    ASSUME TypeOK, NEW r \in Rows, NEW day \in Days \cup {NoDay}, day <= today
    PROVE  ~activate_for(r, day).free =>
             /\ IsSet(activate_for(r, day).end)
             /\ activate_for(r, day).end <= today + Period
<1>1. /\ activate_for(r, day).free = r.free
      /\ activate_for(r, day).end = IF r.free THEN NoDay ELSE day + Period
  BY DEF activate_for, Rows, Row
<1>2. day + Period # 0 /\ day + Period <= today + Period
  BY SizeAssumption, PeriodAssumption DEF TypeOK, Days, NoDay
<1> QED
  BY <1>1, <1>2 DEF IsSet, NoDay

\* Charges that a step leaves alone stay dated.
LEMMA ChargesSame ==
    ASSUME PaidInv, UNCHANGED charge, TypeOK', today <= today'
    PROVE  ChargesKept /\ ChargesDated'
<1>1. \A c \in Charges : charge[c].paidOn <= today'
  BY RangesGood DEF PaidInv, TypeOK, ChargesDated, Charge, Days, NoDay
<1> QED
  BY <1>1 DEF PaidInv, ChargesKept, ChargesDated

\* A revoked charge keeps the date of its payment.
LEMMA ChargesRevoked ==
    ASSUME PaidInv, NEW c \in Charges, RevokeCharge(c), UNCHANGED today
    PROVE  ChargesKept /\ ChargesDated'
<1>1. /\ charge'[c].paidOn = charge[c].paidOn /\ charge'[c].status = "revoked"
      /\ \A d \in Charges : d # c => charge'[d] = charge[d]
  BY DEF PaidInv, TypeOK, Charge, RevokeCharge
<1> QED
  BY <1>1 DEF PaidInv, ChargesKept, ChargesDated

\* A new invoice has not been paid.
LEMMA ChargesPosted ==
    ASSUME PaidInv, NEW s, NEW p, NEW job, PostInvoice(s, p, job), UNCHANGED today
    PROVE  ChargesKept /\ ChargesDated'
<1>1. PICK c \in Charges :
        /\ charge[c].status = "unused"
        /\ charge' = [charge EXCEPT ![c] = [kind |-> "invoice", status |-> "pending",
                                            plan |-> p, paidOn |-> NoDay]]
  BY DEF PostInvoice, NextCharge
<1>2. /\ charge'[c].paidOn = NoDay /\ charge'[c].status = "pending"
      /\ \A d \in Charges : d # c => charge'[d] = charge[d]
  BY <1>1 DEF PaidInv, TypeOK
<1>3. NoDay <= today
  BY SizeAssumption DEF PaidInv, TypeOK, Days, NoDay
<1> QED
  BY <1>1, <1>2, <1>3 DEF PaidInv, ChargesKept, ChargesDated

\* What is held after a step was held before, or is about a payment.
LEMMA ApprovalsKept ==
    ASSUME PaidInv, TypeOK', ChargesKept, today <= today',
           \A n \in notices' : \/ n \in notices
                               \/ \E h \in Handlers : n = hook[h].notice
                               \/ n.on <= today' /\ n.kind # "debit"
                               \/ n.on <= today' /\ SomePaid',
           \A h \in Handlers : hook'[h] \in {hook[h], Idle} \/
                /\ hook'[h].notice \in notices
                /\ hook'[h].status = "approved" => SomePaid',
           card' = card \/ (card'.result = "approved" => SomePaid'),
           recon' = recon \/ /\ recon'.status = "approved" => SomePaid'
                             /\ recon'.paidOn <= today',
           \A q \in Requests :
                \/ activation'[q] \in {activation[q], Overtake(activation[q]), NoActivation}
                \/ DatedRow(activation'[q].row)
    PROVE  ApprovalsPaid'
<1>1. SomePaid => SomePaid'
  BY DEF ChargesKept, SomePaid
<1>2. \A d \in Days \cup {NoDay} : d <= today => d <= today'
  BY SizeAssumption DEF PaidInv, TypeOK, Days, NoDay
<1>3. ASSUME NEW n \in Notice, DebitDated(n) PROVE DebitDated(n)'
  BY <1>1, <1>2, <1>3 DEF DebitDated, Notice
<1>4. \A n \in notices : DebitDated(n)'
  BY <1>3 DEF PaidInv, ApprovalsPaid, TypeOK
<1>5. NoNotice.on <= today' /\ NoNotice.kind # "debit" /\ Idle.notice = NoNotice
      /\ Idle.status # "approved"
  BY SizeAssumption DEF TypeOK, Days, NoNotice, NoticeOf, NoDay, Idle
<1>6. \A h \in Handlers : hook[h].notice.on <= today'
                          /\ (hook[h].notice.kind = "debit" => SomePaid')
  <2> SUFFICES ASSUME NEW h \in Handlers
               PROVE  hook[h].notice.on <= today'
                      /\ (hook[h].notice.kind = "debit" => SomePaid')
    OBVIOUS
  <2>1. CASE hook[h] = Idle
    BY <1>5, <2>1
  <2>2. CASE hook[h] # Idle
    <3>1. hook[h].notice \in Notice
      BY <2>2 DEF PaidInv, TypeOK, Fetched
    <3>2. hook[h].notice.on \in Days \cup {NoDay}
      BY <3>1 DEF Notice
    <3> QED
      BY <1>1, <1>2, <3>2 DEF PaidInv, ApprovalsPaid, DebitDated
  <2> QED
    BY <2>1, <2>2
<1>7. \A n \in notices' : DebitDated(n)'
  BY <1>4, <1>6 DEF DebitDated
<1>8. \A h \in Handlers : hook'[h].notice.on <= today'
        /\ (hook'[h].notice.kind = "debit" => SomePaid')
        /\ (hook'[h].status = "approved" => SomePaid')
  BY <1>1, <1>4, <1>5, <1>6 DEF PaidInv, ApprovalsPaid, DebitDated
<1>9. card'.result = "approved" => SomePaid'
  BY <1>1 DEF PaidInv, ApprovalsPaid
<1>10. (recon'.status = "approved" => SomePaid') /\ recon'.paidOn <= today'
  <2>1. recon.paidOn \in Days \cup {NoDay}
    BY DEF PaidInv, TypeOK, Reconciliation, NoRecon
  <2> QED
    BY <1>1, <1>2, <2>1 DEF PaidInv, ApprovalsPaid
<1>11. \A d \in Dates : d <= today + Period => d <= today' + Period
  <2>1. today \in Nat /\ today' \in Nat /\ today <= today'
    BY DEF PaidInv, TypeOK, Days
  <2>2. Period \in Nat /\ \A d \in Dates : d \in Nat
    BY PeriodAssumption DEF Dates
  <2> QED
    BY <2>1, <2>2
<1>12. ASSUME NEW q \in Requests, activation'[q] # NoActivation
       PROVE  DatedRow(activation[q].row)'
  <2>1. DatedRow(activation'[q].row)
    <3>1. ASSUME activation'[q] \in {activation[q], Overtake(activation[q])}
          PROVE  DatedRow(activation'[q].row)
      <4>1. activation[q] # NoActivation
        BY <1>12, <3>1 DEF Overtake
      <4>2. activation'[q].row = activation[q].row
        BY <3>1, <4>1, OpenActivation DEF Overtake, Activation, PaidInv
      <4> QED
        BY <4>1, <4>2 DEF PaidInv, ApprovalsPaid
    <3> QED
      BY <1>12, <3>1
  <2>2. activation'[q].row.end \in Dates
    <3>1. activation'[q] \in Activation
      BY <1>12 DEF TypeOK
    <3> QED
      BY <3>1 DEF Activation, Rows, Row
  <2> QED
    BY <1>1, <1>11, <2>1, <2>2 DEF DatedRow
<1> QED
  BY <1>7, <1>8, <1>9, <1>10, <1>12 DEF ApprovalsPaid, DebitDated

\* The requests of the web application.
LEMMA WebPaid == PaidInv /\ Web => PaidStep
<1> SUFFICES ASSUME PaidInv, Web PROVE PaidStep
  OBVIOUS
<1> USE DEF company, gateway, web, transactions, jobs, clock
<1>1. TypeOK /\ TypeOK'
  BY WebType DEF PaidInv
<1>2. UNCHANGED today /\ today <= today'
  <2>1. UNCHANGED today
    BY DEF Web, start_paid_subscription, cancel_subscription, resume_subscription,
       CardPost, CardPostRejected, CardApply
  <2> QED
    BY <1>1, <2>1 DEF TypeOK, Days
<1>3. ASSUME NEW s \in Subs, NEW m \in Methods, start_paid_subscription(s, m)
      PROVE  PaidStep
  <2>1. sub'[s].status = "pending"
    BY <1>3 DEF start_paid_subscription, create_pending_paid_subscription, NewRow
  <2>2. \A t \in Subs : t # s => sub'[t] = sub[t] \/ sub'[t] = status_cancelled(sub[t])
    BY <1>3 DEF start_paid_subscription, create_pending_paid_subscription
  <2>3. \A t \in Subs : status_cancelled(sub[t]).status # "active"
    BY <1>1 DEF TypeOK, Rows, Row, status_cancelled
  <2>4. RowsDated
    BY <2>1, <2>2, <2>3 DEF RowsDated
  <2>5. ChargesKept /\ ChargesDated'
    BY <1>1, <1>2, <1>3, ChargesSame DEF start_paid_subscription
  <2>6. card' = card \/ card'.result # "approved"
    <3>1. card' = card \/ card' = [NoCard EXCEPT !.sub = s, !.from = "settings"]
      BY <1>3 DEF start_paid_subscription
    <3>2. [NoCard EXCEPT !.sub = s, !.from = "settings"].result = "none"
      BY DEF NoCard
    <3> QED
      BY <3>1, <3>2
  <2>7. ApprovalsPaid'
    BY <1>1, <1>2, <1>3, <2>5, <2>6, ApprovalsKept DEF start_paid_subscription
  <2> QED
    BY <1>2, <2>4, <2>5, <2>7 DEF PaidStep
<1>4. ASSUME NEW s \in Subs, cancel_subscription(s) \/ resume_subscription(s)
      PROVE  PaidStep
  <2>1. PICK r \in {schedule_cancellation(sub[s], today), resume_cancellation(sub[s])} :
          sub' = [sub EXCEPT ![s] = r]
    BY <1>4 DEF cancel_subscription, resume_subscription
  <2>2. /\ r \in Rows
        /\ r.status = sub[s].status /\ r.free = sub[s].free /\ r.end = sub[s].end
    <3>1. sub[s] \in Rows /\ r \in Rows
      BY <1>1, <2>1, DatesGood, UpdatesGood DEF TypeOK
    <3>2. r.status = sub[s].status /\ r.free = sub[s].free /\ r.end = sub[s].end
      BY <2>1, <3>1 DEF schedule_cancellation, resume_cancellation, Rows, Row
    <3> QED
      BY <3>1, <3>2
  <2>3. RowsDated
    BY <1>1, <2>1, <2>2, RowDated
  <2>4. UNCHANGED <<charge, notices, hook, card, recon, activation>>
    BY <1>4 DEF cancel_subscription, resume_subscription
  <2>5. ChargesKept /\ ChargesDated'
    BY <1>1, <1>2, <2>4, ChargesSame
  <2> QED
    BY <1>1, <1>2, <2>3, <2>4, <2>5, ApprovalsKept DEF PaidStep
<1>5. ASSUME NEW outcome \in Outcomes, CardPost(outcome[1], outcome[2])
      PROVE  PaidStep
  <2>1. outcome[1] = "approved" => outcome[2] = "approved"
    BY DEF Outcomes
  <2>2. PICK c \in Charges :
          /\ charge[c].status = "unused"
          /\ card' = [card EXCEPT !.result = outcome[1], !.charge = c]
          /\ charge' = [charge EXCEPT ![c] =
                [kind |-> "preapproval", status |-> outcome[2], plan |-> card.sub,
                 paidOn |-> IF outcome[2] = "approved" THEN today ELSE NoDay]]
          /\ notices' = notices \cup {NoticeOf(c, "created")}
    BY <1>5 DEF CardPost, NextCharge
  <2>3. /\ charge'[c].status = outcome[2]
        /\ charge'[c].paidOn = IF outcome[2] = "approved" THEN today ELSE NoDay
        /\ \A d \in Charges : d # c => charge'[d] = charge[d]
    BY <1>1, <2>2 DEF TypeOK
  <2>4. NoDay <= today /\ today # NoDay /\ today <= today
    BY <1>1, SizeAssumption DEF TypeOK, Days, NoDay
  <2>5. outcome[2] # "unused"
    BY DEF Outcomes
  <2>6. ChargesKept /\ ChargesDated'
    BY <1>2, <2>2, <2>3, <2>4, <2>5 DEF PaidInv, ChargesKept, ChargesDated, IsSet
  <2>7. card'.result = "approved" => SomePaid'
    <3>1. card \in CardRequest
      BY <1>1, <1>5 DEF CardPost, TypeOK
    <3>2. card'.result = outcome[1]
      BY <2>2, <3>1 DEF CardRequest
    <3> QED
      BY <2>1, <2>3, <2>4, <3>2 DEF SomePaid, IsSet
  <2>8. \A n \in notices' : n \in notices \/ (n.on <= today' /\ n.kind # "debit")
    BY <1>2, <2>2, <2>4 DEF NoticeOf
  <2>9. ApprovalsPaid'
    BY <1>1, <1>2, <1>5, <2>6, <2>7, <2>8, ApprovalsKept DEF CardPost
  <2> QED
    BY <1>2, <1>5, <2>6, <2>9, RowsSame DEF CardPost, PaidStep
<1>6. CASE CardPostRejected
  <2>1. ChargesKept /\ ChargesDated'
    BY <1>1, <1>2, <1>6, ChargesSame DEF CardPostRejected
  <2>2. card'.result # "approved"
    BY <1>1, <1>6 DEF CardPostRejected, TypeOK, CardRequest
  <2>3. ApprovalsPaid'
    BY <1>1, <1>2, <1>6, <2>1, <2>2, ApprovalsKept DEF CardPostRejected
  <2> QED
    BY <1>2, <1>6, <2>1, <2>3, RowsSame DEF CardPostRejected, PaidStep
<1>7. CASE CardApply
  <2> DEFINE saved == [sub[card.sub] EXCEPT !.pre = card.charge]
             activated == [saved EXCEPT !.status = "active", !.end = today + Period]
             failed == IF card.result = "refused" THEN saved ELSE sub[card.sub]
             left == IF card.from = "settings" THEN status_cancelled(failed) ELSE failed
  <2>1. card \in CardRequest
    BY <1>1, <1>7 DEF CardApply, NoCard, TypeOK
  <2>2. card.sub \in Subs /\ saved \in Rows
    BY <1>1, <2>1, UpdatesGood DEF CardRequest, TypeOK
  <2>3. saved.status = sub[card.sub].status /\ saved.free = sub[card.sub].free
        /\ saved.end = sub[card.sub].end
    BY <1>1, <2>2 DEF TypeOK, Rows, Row
  <2>4. RowsDated
    <3>1. CASE card.result = "approved"
      <4>1. sub' = [sub EXCEPT ![card.sub] = saved]
        BY <1>7, <3>1 DEF CardApply
      <4> HIDE DEF saved
      <4> QED
        BY <1>1, <2>2, <2>3, <4>1, RowDated
    <3>2. CASE card.result = "pending"
      <4>1. sub' = [sub EXCEPT ![card.sub] = saved]
        BY <1>7, <3>2 DEF CardApply
      <4> HIDE DEF saved
      <4> QED
        BY <1>1, <2>2, <2>3, <4>1, RowDated
    <3>3. CASE card.result \in {"refused", "error"}
      <4>1. sub' = [sub EXCEPT ![card.sub] = left]
        BY <1>7, <3>3 DEF CardApply
      <4>2. failed \in Rows /\ failed.status = sub[card.sub].status
            /\ failed.free = sub[card.sub].free /\ failed.end = sub[card.sub].end
        <5> HIDE DEF saved
        <5> QED
          BY <1>1, <2>2, <2>3 DEF TypeOK
      <4> HIDE DEF failed
      <4>3. status_cancelled(failed) \in Rows /\ status_cancelled(failed).status # "active"
        BY <4>2, UpdatesGood DEF status_cancelled, Rows, Row
      <4>4. left \in Rows /\ (left.status # "active" \/ left = failed)
        BY <4>2, <4>3
      <4> HIDE DEF left
      <4> QED
        BY <1>1, <2>2, <4>1, <4>2, <4>4, RowDated
    <3> QED
      BY <1>7, <3>1, <3>2, <3>3 DEF CardApply
  <2>5. UNCHANGED <<charge, notices, hook, recon>> /\ card' \in {card, NoCard}
    BY <1>7 DEF CardApply
  <2>6. ChargesKept /\ ChargesDated'
    BY <1>1, <1>2, <2>5, ChargesSame
  <2>7. NoCard.result # "approved"
    BY DEF NoCard
  <2>8. \A q \in Requests : activation'[q] = activation[q] \/ DatedRow(activation'[q].row)
    <3>1. CASE card.result = "approved"
      <4>1. activate_as_current("card", card.sub, activated)
        BY <1>7, <3>1 DEF CardApply
      <4>2. SomePaid
        BY <3>1 DEF PaidInv, ApprovalsPaid
      <4>3. activated.end = today + Period
        BY <2>2 DEF Rows, Row
      <4>4. IsSet(activated.end) /\ activated.end <= today + Period
        BY <1>1, <4>3, SizeAssumption, PeriodAssumption DEF IsSet, NoDay, TypeOK, Days
      <4> HIDE DEF activated
      <4>5. DatedRow(activated)
        BY <4>2, <4>4 DEF DatedRow
      <4> QED
        BY <1>1, <2>2, <4>1, <4>5, WhoRuns, DatedActivation
    <3>2. CASE card.result # "approved"
      BY <1>7, <3>2 DEF CardApply
    <3> QED
      BY <3>1, <3>2
  <2>9. ApprovalsPaid'
    BY <1>1, <1>2, <2>5, <2>6, <2>7, <2>8, ApprovalsKept
  <2> QED
    BY <1>2, <2>4, <2>6, <2>9 DEF PaidStep
<1> QED
  BY <1>3, <1>4, <1>5, <1>6, <1>7 DEF Web

\* The webhook requests.
LEMMA WebhookPaid == PaidInv /\ Webhook => PaidStep
<1> SUFFICES ASSUME PaidInv, Webhook PROVE PaidStep
  OBVIOUS
<1> USE DEF company, gateway, web, transactions, jobs, clock
<1>1. TypeOK /\ TypeOK'
  BY WebhookType DEF PaidInv
<1>2. UNCHANGED <<charge, today, card, recon>> /\ today <= today'
  BY <1>1 DEF Webhook, HookFetch, HookApply, HookRejects, TypeOK, Days
<1>3. ChargesKept /\ ChargesDated'
  BY <1>1, <1>2, ChargesSame
<1>4. ASSUME NEW h \in Handlers, NEW n \in notices, HookFetch(h, n) PROVE PaidStep
  <2>1. n.charge \in Charges
    BY <1>1 DEF TypeOK, Notice
  <2>2. charge[n.charge].status = "approved" => SomePaid'
    BY <1>2, <2>1 DEF PaidInv, ChargesDated, SomePaid
  <2>3. hook'[h] = [notice |-> n, status |-> charge[n.charge].status]
        /\ \A g \in Handlers : g # h => hook'[g] = hook[g]
    BY <1>1, <1>4 DEF HookFetch, TypeOK
  <2>4. \A g \in Handlers : hook'[g] = hook[g] \/
          /\ hook'[g].notice \in notices
          /\ hook'[g].status = "approved" => SomePaid'
    BY <2>2, <2>3
  <2>5. ApprovalsPaid'
    BY <1>1, <1>2, <1>3, <1>4, <2>4, ApprovalsKept DEF HookFetch
  <2> QED
    BY <1>2, <1>3, <1>4, <2>5, RowsSame DEF HookFetch, PaidStep
<1>5. ASSUME NEW h \in Handlers, NEW s \in Subs, HookApply(h, s) PROVE PaidStep
  <2> DEFINE n == hook[h].notice
             r == hook_saved(sub[s], n.charge)
  <2>1. n.charge \in Charges /\ n.on \in Days \cup {NoDay}
    BY <1>1, <1>5 DEF HookApply, TypeOK, Fetched, Notice
  <2>2. r \in Rows
    BY <1>1, <2>1, UpdatesGood, RangesGood DEF hook_saved, TypeOK
  <2>3. /\ n.on <= today /\ today <= today
        /\ n.kind = "debit" => SomePaid
        /\ hook[h].status = "approved" => SomePaid
    BY <1>1, <1>2 DEF PaidInv, ApprovalsPaid, DebitDated
  <2> HIDE DEF r
  <2>4. /\ activate_for(sub[s], n.on) \in Rows
        /\ activate_for(r, today) \in Rows
        /\ to_pending(r) \in Rows /\ to_pending(r).status # "active"
        /\ cancel(r) \in Rows /\ cancel(r).status # "active"
    <3>1. to_pending(r).status # "active" /\ cancel(r).status # "active"
      BY <2>2 DEF to_pending, cancel, Rows, Row
    <3> QED
      BY <1>1, <2>1, <2>2, <3>1, DatesGood, UpdatesGood DEF TypeOK
  <2>5. \/ /\ n.kind = "debit" /\ UNCHANGED sub
           /\ activate_as_current(h, s, activate_for(sub[s], n.on))
        \/ /\ hook[h].status = "approved" /\ UNCHANGED sub
           /\ activate_as_current(h, s, activate_for(r, today))
        \/ UNCHANGED activation /\ sub' = [sub EXCEPT ![s] = to_pending(r)]
        \/ UNCHANGED activation /\ sub' = [sub EXCEPT ![s] = cancel(r)]
    BY <1>5 DEF HookApply, UpdateRow, r
  <2>6. sub[s] \in Rows /\ today \in Days \cup {NoDay}
    BY <1>1 DEF TypeOK
  <2>7. RowsDated
    BY <1>1, <2>4, <2>5, RowDated, RowsSame
  <2>8. \A q \in Requests : activation'[q] = activation[q] \/ DatedRow(activation'[q].row)
    <3>1. ASSUME n.kind = "debit", activate_as_current(h, s, activate_for(sub[s], n.on))
          PROVE  \A q \in Requests : activation'[q] = activation[q]
                                       \/ DatedRow(activation'[q].row)
      <4>1. DatedRow(activate_for(sub[s], n.on))
        BY <1>1, <2>1, <2>3, <2>6, <3>1, ActivateForDated DEF DatedRow
      <4> QED
        BY <1>1, <3>1, <4>1, WhoRuns, DatedActivation
    <3>2. ASSUME hook[h].status = "approved", activate_as_current(h, s, activate_for(r, today))
          PROVE  \A q \in Requests : activation'[q] = activation[q]
                                       \/ DatedRow(activation'[q].row)
      <4>1. DatedRow(activate_for(r, today))
        BY <1>1, <2>2, <2>3, <2>6, <3>2, ActivateForDated DEF DatedRow
      <4> QED
        BY <1>1, <3>2, <4>1, WhoRuns, DatedActivation
    <3> QED
      BY <2>5, <3>1, <3>2
  <2>9. hook' \in {hook, [hook EXCEPT ![h] = Idle]} /\ UNCHANGED notices
    BY <1>5 DEF HookApply
  <2>10. ApprovalsPaid'
    <3>1. \A g \in Handlers : hook'[g] \in {hook[g], Idle}
      BY <1>1, <2>9 DEF TypeOK
    <3> QED
      BY <1>1, <1>2, <1>3, <2>8, <2>9, <3>1, ApprovalsKept
  <2> QED
    BY <1>2, <1>3, <2>7, <2>10 DEF PaidStep
<1>6. ASSUME NEW h \in Handlers, HookRejects(h) PROVE PaidStep
  <2>1. \A g \in Handlers : hook'[g] \in {hook[g], Idle}
    BY <1>1, <1>6 DEF HookRejects, TypeOK
  <2>2. \A n \in notices' : n \in notices \/ \E g \in Handlers : n = hook[g].notice
    BY <1>6 DEF HookRejects
  <2>3. ApprovalsPaid'
    BY <1>1, <1>2, <1>3, <1>6, <2>1, <2>2, ApprovalsKept DEF HookRejects
  <2> QED
    BY <1>2, <1>3, <1>6, <2>3, RowsSame DEF HookRejects, PaidStep
<1> QED
  BY <1>4, <1>5, <1>6 DEF Webhook

\* Commits, rollbacks and callbacks.
LEMMA FinishPaid == PaidInv /\ Finish => PaidStep
<1> SUFFICES ASSUME PaidInv, Finish PROVE PaidStep
  OBVIOUS
<1> USE DEF company, gateway, web, transactions, jobs, clock
<1>1. TypeOK /\ TypeOK'
  BY FinishType DEF PaidInv
<1>2. UNCHANGED <<charge, today, recon>> /\ today <= today'
  <2>1. UNCHANGED <<charge, today, recon>>
    BY DEF Finish, Commit, CommitWithoutPlan, RollBack, sync_company_access, SyncRaises
  <2> QED
    BY <1>1, <2>1 DEF TypeOK, Days
<1>3. ChargesKept /\ ChargesDated'
  BY <1>1, <1>2, ChargesSame
<1>4. NoCard.result # "approved"
  BY DEF NoCard
<1>5. ASSUME RowsDated,
             \A n \in notices' : n \in notices \/ \E h \in Handlers : n = hook[h].notice,
             \A h \in Handlers : hook'[h] \in {hook[h], Idle},
             card' = card \/ card'.result # "approved",
             \A q \in Requests :
                activation'[q] \in {activation[q], Overtake(activation[q]), NoActivation}
      PROVE  PaidStep
  <2>1. ApprovalsPaid'
    BY <1>1, <1>2, <1>3, <1>5, ApprovalsKept
  <2> QED
    BY <1>2, <1>3, <1>5, <2>1 DEF PaidStep
<1>6. ASSUME NEW q \in Requests, activation[q] # NoActivation, q = "card"
      PROVE  card \in CardRequest
  BY <1>1, <1>6 DEF PaidInv, OpenRequests, NoCard, TypeOK
<1>7. ASSUME NEW q \in Requests, Commit(q) PROVE PaidStep
  <2>1. SaveActivation(q)
    BY <1>7 DEF Commit
  <2>2. q = "card" => [card EXCEPT !.result = "saved"].result # "approved"
    BY <1>6, <2>1 DEF SaveActivation, CardRequest
  <2>3. \A o \in Requests : activation'[o] \in {Overtake(activation[o]), NoActivation}
    BY <2>1 DEF SaveActivation
  <2>4. RowsDated
    BY <2>1, ActivationDated
  <2> QED
    BY <1>5, <1>7, <2>2, <2>3, <2>4 DEF Commit
<1>8. ASSUME NEW h \in Handlers, CommitWithoutPlan(h) PROVE PaidStep
  <2>1. SaveActivation(h)
    BY <1>8 DEF CommitWithoutPlan
  <2>2. \A o \in Requests : activation'[o] \in {Overtake(activation[o]), NoActivation}
    BY <2>1 DEF SaveActivation
  <2>3. RowsDated
    BY <2>1, WhoRuns, ActivationDated
  <2>4. \A g \in Handlers : hook'[g] \in {hook[g], Idle}
    BY <1>1, <1>8 DEF CommitWithoutPlan, TypeOK
  <2> QED
    BY <1>5, <1>8, <2>2, <2>3, <2>4 DEF CommitWithoutPlan
<1>9. ASSUME NEW q \in Requests, RollBack(q) PROVE PaidStep
  <2>1. \A o \in Requests : activation'[o] \in {activation[o], NoActivation}
    BY <1>1, <1>9 DEF RollBack, TypeOK
  <2>2. q = "card" => [card EXCEPT !.result = "error"].result # "approved"
    BY <1>6, <1>9 DEF RollBack, CardRequest
  <2> QED
    BY <1>5, <1>9, <2>1, <2>2, RowsSame DEF RollBack
<1>10. ASSUME NEW p \in Processes, sync_company_access(p) PROVE PaidStep
  BY <1>4, <1>5, <1>10, RowsSame DEF sync_company_access
<1>11. ASSUME NEW p \in Processes, SyncRaises(p) PROVE PaidStep
  <2>1. RowsDated
    <3>1. CASE UNCHANGED sub
      BY <3>1, RowsSame
    <3>2. CASE card.from = "settings" /\ sub' = [sub EXCEPT ![card.sub] = status_cancelled(@)]
      <4>1. card.sub \in Subs
        BY <1>1, <3>2 DEF NoCard, TypeOK, CardRequest
      <4>2. status_cancelled(sub[card.sub]) \in Rows
        BY <1>1, <4>1, UpdatesGood DEF TypeOK
      <4>3. status_cancelled(sub[card.sub]).status # "active"
        BY <1>1, <4>1 DEF status_cancelled, TypeOK, Rows, Row
      <4> QED
        BY <1>1, <3>2, <4>1, <4>2, <4>3, RowDated
    <3> QED
      BY <1>11, <3>1, <3>2 DEF SyncRaises
  <2> QED
    BY <1>4, <1>5, <1>11, <2>1 DEF SyncRaises
<1> QED
  BY <1>7, <1>8, <1>9, <1>10, <1>11 DEF Finish

\* The first-payment job and the cycle job.
LEMMA PaymentPaid == PaidInv /\ (PaymentJob \/ Cycle) => PaidStep
<1> SUFFICES ASSUME PaidInv, PaymentJob \/ Cycle PROVE PaidStep
  OBVIOUS
<1> USE DEF company, gateway, web, transactions, jobs, clock
<1>1. TypeOK /\ TypeOK'
  BY PaymentType DEF PaidInv
<1>2. UNCHANGED <<today, hook, card, recon, activation>> /\ today <= today'
  <2>1. UNCHANGED <<today, hook, card, recon, activation>>
    BY DEF PaymentJob, Cycle, PaymentJobPost, PaymentJobFails, persist_payment_reference,
       CyclePluck, Pluck, CycleOne, CycleRaises
  <2> QED
    BY <1>1, <2>1 DEF TypeOK, Days
<1>3. NoDay <= today'
  BY <1>1, SizeAssumption DEF TypeOK, Days, NoDay
<1>4. ASSUME NEW s, NEW p, NEW job, PostInvoice(s, p, job), UNCHANGED sub
      PROVE  PaidStep
  <2>1. ChargesKept /\ ChargesDated'
    BY <1>2, <1>4, ChargesPosted
  <2>2. \A n \in notices' : n \in notices \/ (n.on <= today' /\ n.kind # "debit")
    BY <1>3, <1>4 DEF PostInvoice, NoticeOf
  <2>3. ApprovalsPaid'
    BY <1>1, <1>2, <2>1, <2>2, ApprovalsKept
  <2> QED
    BY <1>2, <1>4, <2>1, <2>3, RowsSame DEF PaidStep
<1>5. ASSUME UNCHANGED <<charge, notices>>, RowsDated PROVE PaidStep
  <2>1. ChargesKept /\ ChargesDated'
    BY <1>1, <1>2, <1>5, ChargesSame
  <2>2. ApprovalsPaid'
    BY <1>1, <1>2, <1>5, <2>1, ApprovalsKept
  <2> QED
    BY <1>2, <1>5, <2>1, <2>2 DEF PaidStep
<1>6. ASSUME NEW p \in posted, persist_payment_reference(p) PROVE PaidStep
  <2> DEFINE r == [sub[p.sub] EXCEPT !.pay = p.charge]
  <2>1. p.sub \in Subs /\ p.charge \in Charges
    BY <1>1 DEF TypeOK, Posted
  <2>2. r \in Rows /\ sub' = [sub EXCEPT ![p.sub] = r]
    BY <1>1, <1>6, <2>1, UpdatesGood DEF persist_payment_reference, TypeOK
  <2>3. r.status = sub[p.sub].status /\ r.free = sub[p.sub].free /\ r.end = sub[p.sub].end
    BY <1>1, <2>1 DEF TypeOK, Rows, Row
  <2>4. RowsDated
    <3> HIDE DEF r
    <3> QED
      BY <1>1, <2>1, <2>2, <2>3, RowDated
  <2> QED
    BY <1>5, <1>6, <2>4 DEF persist_payment_reference
<1>7. ASSUME NEW s \in Subs, PaymentJobPost(s) \/ CycleOne(s) PROVE PaidStep
  BY <1>4, <1>7 DEF PaymentJobPost, CycleOne
<1>8. ASSUME NEW s \in Subs, PaymentJobFails(s) \/ CyclePluck \/ CycleRaises(s)
      PROVE  PaidStep
  BY <1>5, <1>8, RowsSame DEF PaymentJobFails, CyclePluck, Pluck, CycleRaises
<1> QED
  BY <1>6, <1>7, <1>8, SizeAssumption DEF PaymentJob, Cycle, Subs

\* The jobs that warn, expire and finalize.
LEMMA LifecyclePaid == PaidInv /\ (Notify \/ Expire \/ Finalize) => PaidStep
<1> SUFFICES ASSUME PaidInv, Notify \/ Expire \/ Finalize PROVE PaidStep
  OBVIOUS
<1> USE DEF company, gateway, web, transactions, jobs, clock
<1>1. TypeOK /\ TypeOK'
  BY LifecycleType DEF PaidInv
<1>2. UNCHANGED <<today, hook, card, recon, activation>> /\ today <= today'
  <2>1. UNCHANGED <<today, hook, card, recon, activation>>
    BY DEF Notify, Expire, Finalize, NotifyPluck, NotifyOne, ExpirePluck, ExpireOne,
       FinalizePluck, FinalizeLoad, FinalizeCommit, Pluck
  <2> QED
    BY <1>1, <2>1 DEF TypeOK, Days
<1>3. NoDay <= today'
  BY <1>1, SizeAssumption DEF TypeOK, Days, NoDay
<1>4. RowsDated
  <2>1. ASSUME NEW s \in Subs, NotifyOne(s) PROVE RowsDated
    <3> DEFINE r == [sub[s] EXCEPT !.warned = TRUE]
    <3>1. r \in Rows /\ sub' = [sub EXCEPT ![s] = r]
      BY <1>1, <2>1, UpdatesGood DEF NotifyOne, TypeOK
    <3>2. r.status = sub[s].status /\ r.free = sub[s].free /\ r.end = sub[s].end
      BY <1>1 DEF TypeOK, Rows, Row
    <3> HIDE DEF r
    <3> QED
      BY <1>1, <3>1, <3>2, RowDated
  <2>2. ASSUME NEW s \in Subs, ExpireOne(s) PROVE RowsDated
    <3>1. expire(sub[s]) \in Rows
      BY <1>1, UpdatesGood DEF TypeOK
    <3>2. expire(sub[s]).status # "active"
      BY <1>1 DEF TypeOK, Rows, Row, expire
    <3> QED
      BY <1>1, <2>2, <3>1, <3>2, RowDated, RowsSame DEF ExpireOne, UpdateRow
  <2>3. ASSUME NEW s \in Subs, NEW loaded \in Rows,
               sub' = [sub EXCEPT ![s] = finalize_scheduled_cancellation(sub[s], loaded)]
        PROVE  RowsDated
    <3> DEFINE r == finalize_scheduled_cancellation(sub[s], loaded)
    <3>1. r \in Rows
      BY <1>1, UpdatesGood DEF TypeOK
    <3>2. /\ r.status = "active" => sub[s].status = "active"
          /\ r.free = sub[s].free /\ r.end = sub[s].end
      BY <1>1 DEF TypeOK, Rows, Row, finalize_scheduled_cancellation
    <3>3. sub' = [sub EXCEPT ![s] = r]
      BY <2>3
    <3> HIDE DEF r
    <3> QED
      BY <1>1, <3>1, <3>2, <3>3, RowDated
  <2>4. ASSUME NEW s \in Subs, FinalizeLoad(s) PROVE RowsDated
    <3>1. sub[s] \in Rows
      BY <1>1 DEF TypeOK
    <3> QED
      BY <2>3, <2>4, <3>1, RowsSame DEF FinalizeLoad, UpdateRow
  <2>5. ASSUME FinalizeCommit PROVE RowsDated
    <3>1. fin.sub \in Subs /\ fin.row \in Rows
      BY <1>1, <2>5 DEF FinalizeCommit, TypeOK, Finalization
    <3> QED
      BY <2>3, <2>5, <3>1 DEF FinalizeCommit
  <2>6. ASSUME NotifyPluck \/ ExpirePluck \/ FinalizePluck PROVE RowsDated
    BY <2>6, RowsSame DEF NotifyPluck, ExpirePluck, FinalizePluck, Pluck
  <2> QED
    BY <2>1, <2>2, <2>4, <2>5, <2>6 DEF Notify, Expire, Finalize
<1>5. \/ UNCHANGED <<charge, notices>>
      \/ \E c \in Charges : RevokeCharge(c)
  <2>1. ASSUME NEW s \in Subs, FinalizeLoad(s)
        PROVE  UNCHANGED <<charge, notices>> \/ \E c \in Charges : RevokeCharge(c)
    <3>1. NeedsGateway(s) => sub[s].pre \in Charges
      BY <1>1 DEF NeedsGateway, TypeOK, Rows, Row, Ids
    <3> QED
      BY <2>1, <3>1 DEF FinalizeLoad
  <2> QED
    BY <2>1 DEF Notify, Expire, Finalize, NotifyPluck, NotifyOne, ExpirePluck, ExpireOne,
       FinalizePluck, FinalizeCommit, Pluck
<1>6. ChargesKept /\ ChargesDated'
  BY <1>1, <1>2, <1>5, ChargesSame, ChargesRevoked
<1>7. \A n \in notices' : n \in notices \/ (n.on <= today' /\ n.kind # "debit")
  BY <1>3, <1>5 DEF RevokeCharge, NoticeOf
<1>8. ApprovalsPaid'
  BY <1>1, <1>2, <1>6, <1>7, ApprovalsKept
<1> QED
  BY <1>2, <1>4, <1>6, <1>8 DEF PaidStep

\* The reconciliation.
LEMMA ReconcilePaid == PaidInv /\ Reconcile => PaidStep
<1> SUFFICES ASSUME PaidInv, Reconcile PROVE PaidStep
  OBVIOUS
<1> USE DEF company, gateway, web, transactions, jobs, clock
<1>1. TypeOK /\ TypeOK'
  BY ReconcileType DEF PaidInv
<1>2. UNCHANGED <<today, charge, notices, hook, card>> /\ today <= today'
  <2>1. UNCHANGED <<today, charge, notices, hook, card>>
    BY DEF Reconcile, ReconcilePluck, ReconcileFetch, ReconcileApply, Pluck
  <2> QED
    BY <1>1, <2>1 DEF TypeOK, Days
<1>3. ChargesKept /\ ChargesDated'
  BY <1>1, <1>2, ChargesSame
<1>4. NoRecon.status # "approved" /\ NoRecon.paidOn <= today'
  BY <1>1, SizeAssumption DEF NoRecon, NoDay, TypeOK, Days
<1>5. CASE ReconcilePluck
  <2>1. ApprovalsPaid'
    BY <1>1, <1>2, <1>3, <1>5, ApprovalsKept DEF ReconcilePluck, Pluck
  <2> QED
    BY <1>2, <1>3, <1>5, <2>1, RowsSame DEF ReconcilePluck, Pluck, PaidStep
<1>6. ASSUME NEW s \in Subs, ReconcileFetch(s) PROVE PaidStep
  <2> DEFINE c == GatewayId(s)
  <2>1. c # NoCharge => c \in Charges
    BY <1>1 DEF GatewayId, TypeOK, Rows, Row, Ids
  <2>2. c \in Charges => /\ charge[c].status = "approved" => SomePaid'
                         /\ charge[c].paidOn <= today'
    BY <1>2 DEF PaidInv, ChargesDated, SomePaid
  <2>3. (recon'.status = "approved" => SomePaid') /\ recon'.paidOn <= today'
    BY <1>4, <1>6, <2>1, <2>2 DEF ReconcileFetch
  <2>4. ApprovalsPaid'
    BY <1>1, <1>2, <1>3, <1>6, <2>3, ApprovalsKept DEF ReconcileFetch
  <2> QED
    BY <1>2, <1>3, <1>6, <2>4, RowsSame DEF ReconcileFetch, PaidStep
<1>7. CASE ReconcileApply
  <2> DEFINE saved == reconcile_saved(sub[recon.sub])
             r == apply_gateway_status(saved)
             day == IF charge[recon.charge].kind = "invoice" /\ IsSet(recon.paidOn)
                      THEN recon.paidOn ELSE today
  <2>1. recon \in Reconciliation
    BY <1>1, <1>7 DEF ReconcileApply, TypeOK
  <2>2. /\ recon.sub \in Subs /\ recon.charge \in Charges
        /\ recon.paidOn \in Days \cup {NoDay}
    BY <2>1 DEF Reconciliation
  <2>3. saved \in Rows
    BY <1>1, <2>2, UpdatesGood DEF reconcile_saved, TypeOK
  <2>4. saved.status = sub[recon.sub].status /\ saved.free = sub[recon.sub].free
        /\ saved.end = sub[recon.sub].end
    BY <1>1, <2>2 DEF reconcile_saved, TypeOK, Rows, Row
  <2>5. day \in Days \cup {NoDay} /\ day <= today
    BY <1>1, <1>2, <2>2 DEF PaidInv, ApprovalsPaid, TypeOK
  <2>6. recon.status = "approved" => SomePaid
    BY DEF PaidInv, ApprovalsPaid
  <2>7. sub' = [sub EXCEPT ![recon.sub] = r]
    BY <1>7 DEF ReconcileApply, UpdateRow
  <2>8. \/ recon.status = "approved" /\ r = activate_for(saved, day)
        \/ r \in {saved, cancel(saved), to_pending(saved)}
    BY DEF apply_gateway_status
  <2> HIDE DEF saved, day, r
  <2>9. activate_for(saved, day) \in Rows /\ cancel(saved) \in Rows /\ to_pending(saved) \in Rows
    BY <2>3, <2>5, DatesGood, UpdatesGood
  <2>10. cancel(saved).status # "active" /\ to_pending(saved).status # "active"
    BY <2>3 DEF cancel, to_pending, Rows, Row
  <2>11. RowsDated
    <3>1. CASE recon.status = "approved" /\ r = activate_for(saved, day)
      BY <1>1, <2>2, <2>3, <2>5, <2>6, <2>7, <2>9, <3>1, ActivateForDated, RowDated
    <3>2. CASE r \in {saved, cancel(saved), to_pending(saved)}
      BY <1>1, <2>2, <2>3, <2>4, <2>7, <2>9, <2>10, <3>2, RowDated
    <3> QED
      BY <2>8, <3>1, <3>2
  <2>12. \A q \in Requests : activation'[q] \in {activation[q], Overtake(activation[q])}
    BY <1>7 DEF ReconcileApply
  <2>13. recon' = NoRecon
    BY <1>7 DEF ReconcileApply
  <2>14. ApprovalsPaid'
    BY <1>1, <1>2, <1>3, <1>4, <2>12, <2>13, ApprovalsKept
  <2> QED
    BY <1>2, <1>3, <2>11, <2>14 DEF PaidStep
<1> QED
  BY <1>5, <1>6, <1>7 DEF Reconcile

\* The gateway, the crashes and the calendar.
LEMMA EnvironmentPaid ==
    PaidInv /\ (Gateway \/ PumaCrash \/ SidekiqCrash \/ Tick) => PaidStep
<1> SUFFICES ASSUME PaidInv, Gateway \/ PumaCrash \/ SidekiqCrash \/ Tick
             PROVE PaidStep
  OBVIOUS
<1> USE DEF company, gateway, web, transactions, jobs, clock
<1>1. TypeOK /\ TypeOK'
  BY EnvironmentType DEF PaidInv
<1>2. RowsDated
  BY RowsSame DEF Gateway, Settle, Revoke, Debit, LoseNotice, PumaCrash, SidekiqCrash, Tick
<1>3. today <= today' /\ (~Tick => UNCHANGED today)
  <2>1. today' = today \/ today' = today + 1
    BY DEF Gateway, Settle, Revoke, Debit, LoseNotice, PumaCrash, SidekiqCrash, Tick
  <2>2. today <= today'
    BY <1>1, <2>1 DEF TypeOK, Days
  <2> QED
    BY <2>2 DEF Gateway, Settle, Revoke, Debit, LoseNotice, PumaCrash, SidekiqCrash
<1>4. NoDay <= today' /\ today # NoDay /\ today <= today
  BY <1>1, SizeAssumption DEF TypeOK, Days, NoDay
<1>5. ASSUME UNCHANGED charge,
             \A n \in notices' : n \in notices \/ \E h \in Handlers : n = hook[h].notice,
             hook' = hook \/ \A h \in Handlers : hook'[h] = Idle,
             card' \in {card, NoCard}, recon' \in {recon, NoRecon},
             \A q \in Requests : activation'[q] \in {activation[q], NoActivation}
      PROVE  PaidStep
  <2>1. ChargesKept /\ ChargesDated'
    BY <1>1, <1>3, <1>5, ChargesSame
  <2>2. /\ NoCard.result # "approved"
        /\ NoRecon.status # "approved" /\ NoRecon.paidOn <= today'
    BY <1>4 DEF NoCard, NoRecon
  <2>3. ApprovalsPaid'
    BY <1>1, <1>3, <1>5, <2>1, <2>2, ApprovalsKept
  <2> QED
    BY <1>2, <1>3, <2>1, <2>3 DEF PaidStep
<1>6. CASE Tick
  BY <1>5, <1>6 DEF Tick
<1>7. CASE PumaCrash
  BY <1>5, <1>7 DEF PumaCrash
<1>8. CASE SidekiqCrash
  BY <1>5, <1>8 DEF SidekiqCrash
<1>9. ASSUME NEW n \in notices, LoseNotice(n) PROVE PaidStep
  BY <1>5, <1>9 DEF LoseNotice
<1>10. ASSUME NEW c \in Charges, Revoke(c) PROVE PaidStep
  <2>1. ChargesKept /\ ChargesDated'
    BY <1>10, ChargesRevoked DEF Revoke
  <2>2. \A n \in notices' : n \in notices \/ (n.on <= today' /\ n.kind # "debit")
    BY <1>4, <1>10 DEF Revoke, RevokeCharge, NoticeOf
  <2>3. ApprovalsPaid'
    BY <1>1, <1>3, <1>10, <2>1, <2>2, ApprovalsKept DEF Revoke
  <2> QED
    BY <1>2, <1>3, <2>1, <2>3 DEF PaidStep
<1>11. ASSUME NEW c \in Charges, Settle(c) \/ Debit(c) PROVE PaidStep
  <2>1. /\ UNCHANGED <<today, hook, card, recon, activation>>
        /\ charge'[c].status = "approved" /\ charge'[c].paidOn = today
        /\ \A d \in Charges : d # c => charge'[d] = charge[d]
    <3>1. /\ UNCHANGED <<today, hook, card, recon, activation>>
          /\ \/ charge' = [charge EXCEPT ![c] =
                             [@ EXCEPT !.status = "approved", !.paidOn = today]]
             \/ charge[c].status = "approved" /\ charge' = [charge EXCEPT ![c].paidOn = today]
      BY <1>11 DEF Settle, Debit
    <3>2. charge[c] \in Charge
      BY <1>1 DEF TypeOK
    <3>3. /\ charge'[c] \in {[charge[c] EXCEPT !.status = "approved", !.paidOn = today],
                           [charge[c] EXCEPT !.paidOn = today]}
          /\ charge[c].status = "approved"
               \/ charge'[c] = [charge[c] EXCEPT !.status = "approved", !.paidOn = today]
          /\ \A d \in Charges : d # c => charge'[d] = charge[d]
      BY <1>1, <3>1 DEF TypeOK
    <3>4. charge'[c].status = "approved" /\ charge'[c].paidOn = today
      BY <3>2, <3>3 DEF Charge
    <3> QED
      BY <3>1, <3>3, <3>4
  <2>2. ChargesKept /\ ChargesDated' /\ SomePaid'
    BY <1>4, <2>1 DEF PaidInv, ChargesKept, ChargesDated, SomePaid, IsSet
  <2>3. \A n \in notices' : n \in notices \/ (n.on <= today' /\ SomePaid')
    BY <1>3, <1>4, <1>11, <2>1, <2>2 DEF Settle, Debit, NoticeOf
  <2>4. ApprovalsPaid'
    BY <1>1, <1>3, <2>1, <2>2, <2>3, ApprovalsKept
  <2> QED
    BY <1>2, <1>3, <2>2, <2>4 DEF PaidStep
<1> QED
  BY <1>6, <1>7, <1>8, <1>9, <1>10, <1>11 DEF Gateway

\* At the signup nothing has been paid and no paid plan is in force.
LEMMA PaidInit == Init => PaidInv
<1> SUFFICES ASSUME Init PROVE PaidInv
  OBVIOUS
<1>1. TypeOK /\ OpenRequests
  BY BillingTypeInit, OpenRequestsInit
<1>2. \A c \in Charges : charge[c].status = "unused" /\ charge[c].paidOn = NoDay
  BY DEF Init, NoChargeYet
<1>3. NoDay <= today
  BY DEF Init, NoDay
<1>4. ChargesDated
  BY <1>2, <1>3 DEF ChargesDated, IsSet
<1>5. ApprovalsPaid
  <2>1. card.result = "none"
    BY DEF Init, NoCard
  <2> QED
    BY <1>3, <2>1 DEF Init, ApprovalsPaid, DebitDated, Idle, NoNotice, NoticeOf, NoRecon
<1>6. PaidPlanWasPaid
  <2>1. PICK signup \in Plans :
          sub = [s \in Subs |-> IF s # 1 THEN NoRow
                   ELSE NewRow(signup = "free",
                               IF signup = "free" THEN "active" ELSE "pending")]
    BY DEF Init
  <2>2. \A s \in Subs : sub[s].status = "active" => sub[s].free
    BY <2>1 DEF NewRow, NoRow
  <2> QED
    BY <2>2 DEF PaidPlanWasPaid, Active
<1> QED
  BY <1>1, <1>4, <1>5, <1>6 DEF PaidInv

\* Every step keeps the invariant.
LEMMA PaidNext == PaidInv /\ [Next]_vars => PaidInv'
<1> SUFFICES ASSUME PaidInv, [Next]_vars PROVE PaidInv'
  OBVIOUS
<1>1. TypeOK /\ TypeOK' /\ OpenRequests'
  BY TypeStep DEF PaidInv, TypeInv
<1>2. CASE Next
  <2>1. PaidStep
    BY <1>2, WebPaid, WebhookPaid, FinishPaid, PaymentPaid, LifecyclePaid, ReconcilePaid,
       EnvironmentPaid DEF Next
  <2>2. SomePaid => SomePaid'
    BY <2>1 DEF PaidStep, ChargesKept, SomePaid
  <2>3. \A d \in Dates : d <= today + Period => d <= today' + Period
    <3>1. today \in Nat /\ today' \in Nat /\ today <= today'
      BY <1>1, <2>1 DEF PaidStep, TypeOK, Days
    <3>2. Period \in Nat /\ \A d \in Dates : d \in Nat
      BY PeriodAssumption DEF Dates
    <3> QED
      BY <3>1, <3>2
  <2>4. ASSUME NEW s \in Subs, sub'[s].status = "active", ~sub'[s].free
        PROVE  SomePaid' /\ IsSet(sub'[s].end) /\ sub'[s].end <= today' + Period
    <3>1. SomePaid /\ IsSet(sub'[s].end) /\ sub'[s].end <= today + Period
      BY <2>1, <2>4 DEF PaidStep, RowsDated, PaidInv, PaidPlanWasPaid, Active, SomePaid
    <3>2. sub'[s].end \in Dates
      BY <1>1 DEF TypeOK, Rows, Row
    <3> QED
      BY <2>2, <2>3, <3>1, <3>2
  <2>5. PaidPlanWasPaid'
    BY <2>4 DEF PaidPlanWasPaid, Active, SomePaid
  <2> QED
    BY <1>1, <2>1, <2>5 DEF PaidStep, PaidInv
<1>3. CASE UNCHANGED vars
  BY <1>1, <1>3 DEF PaidInv, ChargesDated, ApprovalsPaid, DebitDated, DatedRow, SomePaid,
     PaidPlanWasPaid, Active, vars, gateway, web, transactions, jobs, clock
<1> QED
  BY <1>2, <1>3

\* A paid plan in force was paid once, and ends within a period from now.
THEOREM PaidPlanWasPaidHolds == Spec => []PaidPlanWasPaid
<1>1. PaidInv => PaidPlanWasPaid
  BY DEF PaidInv
<1> QED
  BY <1>1, PaidInit, PaidNext, PTL DEF Spec

=============================================================================
