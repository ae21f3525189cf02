------------------------- MODULE BillingAccess_proofs -------------------------
(***************************************************************************)
(* For any number of subscriptions, charges, webhook requests and days:    *)
(* what puts a second subscription in force and what an activation leaves  *)
(* of the others; that the access agrees with the subscriptions in force   *)
(* once the callbacks have run; and that, with invoices, the finalization  *)
(* keeps the days that were paid for.                                      *)
(***************************************************************************)
EXTENDS Billing_proofs, FiniteSetTheorems

(* The invariant behind OnlyOverlapDoubles and ActivationSupersedes *)

\* What an open transaction will put in force, and that it cancels every other
\* active row, unless another commit has put one in force since its update_all.
SeesActive(q) ==
    activation[q] # NoActivation =>
        /\ activation[q].row.status = "active"
        /\ \/ activation[q].overtaken
           \/ Active \subseteq activation[q].others \cup {activation[q].sub}

SupersedeInv == TypeInv /\ \A q \in Requests : SeesActive(q)

\* A process finalizes or reconciles only where the job is scheduled.
JobsRun == /\ fin # NoFin => "finalize" \in Jobs
           /\ recon # NoRecon => "reconcile" \in Jobs

MoveInv == SupersedeInv /\ JobsRun

(* The ways a step changes which subscriptions are in force *)

Opens(q) ==
    /\ activation'[q].row.status = "active"
    /\ Active' \subseteq activation'[q].others \cup {activation'[q].sub}

NoneStarts ==
    /\ Active' \subseteq Active
    /\ \A q \in Requests : activation'[q] \in {activation[q], NoActivation} \/ Opens(q)

ActiveStep == NoneStarts \/ (\E q \in Requests : SaveActivation(q)) \/ ReconcileApply

(* ... and what it does to the access *)

\* No callback comes or goes, nor the last subscription in force.
Quiet == UNCHANGED <<access, callback, astray>> /\ (Active' = {} <=> Active = {})

\* The status of one row is saved, and a callback waits.
Saves(p, s) ==
    /\ UNCHANGED access
    /\ callback' = [callback EXCEPT ![p] = IF s \in Active' THEN "activate" ELSE "deactivate"]
    /\ astray' = \E other \in Processes : callback[other] # "none"

\* The callback runs.
Syncs(p) ==
    /\ callback[p] # "none"
    /\ access' = (callback[p] = "activate")
    /\ callback' = [callback EXCEPT ![p] = "none"]
    /\ UNCHANGED <<sub, astray>>

AccessStep ==
    \/ Quiet
    \/ \E p \in Processes, s \in Subs : Saves(p, s)
    \/ \E p \in Processes : Syncs(p)
    \/ astray'

Moves == ActiveStep /\ AccessStep /\ JobsRun'

\* A step that leaves the rows, the transactions and the callbacks alone.
LEMMA StayMoves ==
    ASSUME MoveInv, UNCHANGED <<sub, access, activation, callback, astray>>, JobsRun'
    PROVE  Moves
  BY DEF Moves, ActiveStep, NoneStarts, AccessStep, Quiet, Active

\* A step that leaves the status of each row alone.
LEMMA StatusKept ==
    ASSUME \A s \in Subs : sub'[s].status = sub[s].status
    PROVE  Active' = Active
  BY DEF Active

LEMMA KeptMoves ==
    ASSUME MoveInv, Active' = Active,
           UNCHANGED <<access, activation, callback, astray>>, JobsRun'
    PROVE  Moves
  BY DEF Moves, ActiveStep, NoneStarts, AccessStep, Quiet

\* One row that is saved, with its callback.
LEMMA RowSaved ==
    ASSUME TypeOK, NEW p \in Processes, NEW s \in Subs, NEW r \in Rows,
           UpdateRow(p, s, r), UNCHANGED access
    PROVE  /\ AccessStep
           /\ r.status # "active" \/ r.status = sub[s].status => Active' \subseteq Active
<1>1. sub'[s] = r /\ \A t \in Subs : t # s => sub'[t] = sub[t]
  BY DEF UpdateRow, TypeOK
<1>2. s \in Active' <=> r.status = "active"
  BY <1>1 DEF Active
<1>3. r.status # "active" \/ r.status = sub[s].status => Active' \subseteq Active
  BY <1>1 DEF Active
<1>4. CASE r.status = sub[s].status
  <2>1. Active' = Active
    BY <1>1, <1>4 DEF Active
  <2> QED
    BY <1>3, <1>4, <2>1 DEF UpdateRow, AfterCommit, AccessStep, Quiet
<1>5. CASE r.status # sub[s].status
  <2>1. Saves(p, s)
    BY <1>2, <1>5 DEF UpdateRow, AfterCommit, Saves
  <2> QED
    BY <1>3, <2>1 DEF AccessStep
<1> QED
  BY <1>4, <1>5

LEMMA RowMoves ==
    ASSUME MoveInv, NEW p \in Processes, NEW s \in Subs, NEW r \in Rows,
           UpdateRow(p, s, r), r.status # "active" \/ r.status = sub[s].status,
           UNCHANGED <<access, activation>>, JobsRun'
    PROVE  Moves
<1>1. TypeOK
  BY DEF MoveInv, SupersedeInv, TypeInv
<1> QED
  BY <1>1, RowSaved DEF Moves, ActiveStep, NoneStarts

\* The statements of activate_as_current!.
LEMMA OpeningMoves ==
    ASSUME MoveInv, NEW q \in Requests, NEW s \in Subs, NEW r, r.status = "active",
           activate_as_current(q, s, r), Active' = Active, UNCHANGED access, JobsRun'
    PROVE  Moves
<1>1. activation'[q] = [sub |-> s, row |-> r, others |-> Active \ {s}, overtaken |-> FALSE]
  BY DEF activate_as_current, MoveInv, SupersedeInv, TypeInv, TypeOK
<1>2. Opens(q)
  BY <1>1 DEF Opens
<1>3. \A o \in Requests : o # q => activation'[o] = activation[o]
  BY DEF activate_as_current, MoveInv, SupersedeInv, TypeInv, TypeOK
<1>4. Quiet
  BY DEF activate_as_current, Quiet
<1> QED
  BY <1>2, <1>3, <1>4 DEF Moves, ActiveStep, NoneStarts, AccessStep

----------------------------------------------------------------------------
(* What each operation does *)

\* The requests of the web application.
LEMMA WebMoves == MoveInv /\ Web => Moves
<1> SUFFICES ASSUME MoveInv, TypeOK, Web PROVE Moves
  BY DEF MoveInv, SupersedeInv, TypeInv
<1> USE DEF company, gateway, web, transactions, jobs, clock
<1>1. UNCHANGED <<fin, recon>>
  BY DEF Web, start_paid_subscription, cancel_subscription, resume_subscription,
     CardPost, CardPostRejected, CardApply
<1>2. JobsRun'
  BY <1>1 DEF MoveInv, JobsRun
<1>3. ASSUME NEW s \in Subs, NEW m \in Methods, start_paid_subscription(s, m)
      PROVE  Moves
  <2>1. /\ ~Exists(s) /\ sub'[s].status = "pending"
        /\ UNCHANGED <<access, activation, callback, astray>>
    BY <1>3 DEF start_paid_subscription, create_pending_paid_subscription, NextRow, NewRow
  <2>2. \A t \in Subs : t # s =>
          sub'[t] = IF sub[t].status = "pending" /\ ~sub[t].free
                      THEN status_cancelled(sub[t]) ELSE sub[t]
    BY <1>3 DEF start_paid_subscription, create_pending_paid_subscription
  <2>3. \A t \in Subs : t # s => (sub'[t].status = "active" <=> sub[t].status = "active")
    BY <2>2 DEF TypeOK, Rows, Row, status_cancelled
  <2>4. Active' = Active
    BY <2>1, <2>3 DEF Active, Exists
  <2> QED
    BY <1>2, <2>1, <2>4, KeptMoves
<1>4. ASSUME NEW s \in Subs, cancel_subscription(s) \/ resume_subscription(s)
      PROVE  Moves
  <2>1. sub[s] \in Rows /\ today \in Days
    BY DEF TypeOK
  <2>2. /\ schedule_cancellation(sub[s], today).status = sub[s].status
        /\ resume_cancellation(sub[s]).status = sub[s].status
    BY <2>1 DEF schedule_cancellation, resume_cancellation, Rows, Row
  <2>3. \/ sub' = [sub EXCEPT ![s] = schedule_cancellation(sub[s], today)]
        \/ sub' = [sub EXCEPT ![s] = resume_cancellation(sub[s])]
    BY <1>4 DEF cancel_subscription, resume_subscription
  <2>4. \A t \in Subs : sub'[t].status = sub[t].status
    BY <2>2, <2>3 DEF TypeOK
  <2>5. UNCHANGED <<access, activation, callback, astray>>
    BY <1>4 DEF cancel_subscription, resume_subscription
  <2> QED
    BY <1>2, <2>4, <2>5, StatusKept, KeptMoves
<1>5. ASSUME NEW outcome \in Outcomes, CardPost(outcome[1], outcome[2])
      PROVE  Moves
  BY <1>2, <1>5, StayMoves DEF CardPost
<1>6. CASE CardPostRejected
  BY <1>2, <1>6, StayMoves DEF CardPostRejected
<1>7. CASE CardApply
  <2> DEFINE s == card.sub
             saved == [sub[s] EXCEPT !.pre = card.charge]
             activated == [saved EXCEPT !.status = "active", !.end = today + Period]
             failed == IF card.result = "refused" THEN saved ELSE sub[s]
  <2>1. s \in Subs
    BY <1>7 DEF CardApply, NoCard, TypeOK, CardRequest
  <2>2. sub[s] \in Rows /\ saved.status = sub[s].status
    BY <2>1 DEF TypeOK, Rows, Row
  <2>3. UNCHANGED access
    BY <1>7 DEF CardApply
  <2>4. ASSUME sub' = [sub EXCEPT ![s] = saved] PROVE Active' = Active
    <3> HIDE DEF saved, s
    <3>1. \A t \in Subs : sub'[t].status = sub[t].status
      BY <2>1, <2>2, <2>4 DEF TypeOK
    <3> QED
      BY <3>1, StatusKept
  <2>5. CASE card.result = "approved"
    <3>1. activate_as_current("card", s, activated) /\ sub' = [sub EXCEPT ![s] = saved]
      BY <1>7, <2>5 DEF CardApply
    <3>2. activated.status = "active"
      BY <2>2 DEF Rows, Row
    <3>3. Active' = Active
      BY <2>4, <3>1
    <3> HIDE DEF activated, saved, s
    <3> QED
      BY <1>2, <2>1, <2>3, <3>1, <3>2, <3>3, WhoRuns, OpeningMoves
  <2>6. CASE card.result = "pending"
    <3>1. sub' = [sub EXCEPT ![s] = saved] /\ UNCHANGED <<activation, callback, astray>>
      BY <1>7, <2>6 DEF CardApply
    <3> QED
      BY <1>2, <2>3, <2>4, <3>1, KeptMoves
  <2>7. CASE card.result \in {"refused", "error"}
    <3>1. /\ sub' = [sub EXCEPT ![s] = IF card.from = "settings"
                                        THEN status_cancelled(failed) ELSE failed]
          /\ astray' = (astray \/ (card.from = "settings" /\ s \in Active))
          /\ UNCHANGED <<activation, callback>>
      BY <1>7, <2>7 DEF CardApply
    <3>2. failed.status = sub[s].status
      BY <2>2
    <3>3. status_cancelled(failed).status = "cancelled"
      BY <2>2 DEF status_cancelled, Rows, Row
    <3> HIDE DEF failed, saved, s
    <3>4. \A t \in Subs : sub'[t].status = sub[t].status \/ sub'[t].status = "cancelled"
      BY <2>1, <3>1, <3>2, <3>3 DEF TypeOK
    <3>5. Active' \subseteq Active
      BY <3>4 DEF Active
    <3>6. ASSUME ~(card.from = "settings" /\ s \in Active) PROVE Active' = Active
      <4>1. CASE card.from = "settings"
        <5>1. \A t \in Subs : t # s => sub'[t] = sub[t]
          BY <2>1, <3>1 DEF TypeOK
        <5>2. s \notin Active
          BY <3>6, <4>1
        <5> QED
          BY <3>5, <5>1, <5>2 DEF Active
      <4>2. CASE card.from # "settings"
        <5>1. \A t \in Subs : sub'[t].status = sub[t].status
          BY <2>1, <3>1, <3>2, <4>2 DEF TypeOK
        <5> QED
          BY <5>1, StatusKept
      <4> QED
        BY <4>1, <4>2
    <3>7. astray' \/ Quiet
      <4>1. CASE card.from = "settings" /\ s \in Active
        BY <3>1, <4>1
      <4>2. CASE ~(card.from = "settings" /\ s \in Active)
        <5>1. astray' = astray
          BY <3>1, <4>2 DEF TypeOK
        <5> QED
          BY <2>3, <3>1, <3>6, <4>2, <5>1 DEF Quiet
      <4> QED
        BY <4>1, <4>2
    <3> QED
      BY <1>2, <3>1, <3>5, <3>7 DEF Moves, ActiveStep, NoneStarts, AccessStep
  <2> QED
    BY <1>7, <2>5, <2>6, <2>7 DEF CardApply
<1> QED
  BY <1>3, <1>4, <1>5, <1>6, <1>7 DEF Web

\* The webhook requests.
LEMMA WebhookMoves == MoveInv /\ Webhook => Moves
<1> SUFFICES ASSUME MoveInv, TypeOK, Webhook PROVE Moves
  BY DEF MoveInv, SupersedeInv, TypeInv
<1> USE DEF company, gateway, web, transactions, jobs, clock
<1>1. JobsRun'
  <2>1. UNCHANGED <<fin, recon>>
    BY DEF Webhook, HookFetch, HookApply, HookRejects
  <2> QED
    BY <2>1 DEF MoveInv, JobsRun
<1>2. ASSUME NEW h \in Handlers, NEW n \in notices, HookFetch(h, n) PROVE Moves
  BY <1>1, <1>2, StayMoves DEF HookFetch
<1>3. ASSUME NEW h \in Handlers, HookRejects(h) PROVE Moves
  BY <1>1, <1>3, StayMoves DEF HookRejects
<1>4. ASSUME NEW h \in Handlers, NEW s \in Subs, HookApply(h, s) PROVE Moves
  <2> DEFINE n == hook[h].notice
             r == hook_saved(sub[s], n.charge)
  <2>1. hook[h] \in Fetched
    BY <1>4 DEF HookApply, TypeOK
  <2>2. n.charge \in Charges
    BY <2>1 DEF Fetched, Notice
  <2>3. sub[s] \in Rows /\ r \in Rows
    BY <2>2, UpdatesGood, RangesGood DEF hook_saved, TypeOK
  <2>4. UNCHANGED access
    BY <1>4 DEF HookApply
  <2>5. ASSUME NEW a \in Rows, NEW on, activate_as_current(h, s, activate_for(a, on)),
               UNCHANGED sub
        PROVE  Moves
    <3>1. activate_for(a, on).status = "active"
      BY DEF activate_for, Rows, Row
    <3>2. Active' = Active
      BY <2>5 DEF Active
    <3> QED
      BY <1>1, <2>4, <2>5, <3>1, <3>2, WhoRuns, OpeningMoves
  <2>6. ASSUME NEW a \in Rows, a.status # "active", UpdateRow(h, s, a), UNCHANGED activation
        PROVE  Moves
    BY <1>1, <2>4, <2>6, WhoRuns, RowMoves
  <2>7. /\ to_pending(r) \in Rows /\ to_pending(r).status = "pending"
        /\ cancel(r) \in Rows /\ cancel(r).status = "cancelled"
    <3> HIDE DEF r
    <3> QED
      BY <2>3, UpdatesGood DEF to_pending, cancel, Rows, Row
  <2>8. \/ UNCHANGED sub /\ \E a \in {sub[s], r}, on \in {n.on, today} :
             activate_as_current(h, s, activate_for(a, on))
        \/ /\ UpdateRow(h, s, to_pending(r)) \/ UpdateRow(h, s, cancel(r))
           /\ UNCHANGED activation
    BY <1>4 DEF HookApply
  <2> HIDE DEF r, n
  <2> QED
    BY <2>3, <2>5, <2>6, <2>7, <2>8
<1> QED
  BY <1>2, <1>3, <1>4 DEF Webhook

\* The commits, and the callbacks after them.
LEMMA FinishMoves == MoveInv /\ Finish => Moves
<1> SUFFICES ASSUME MoveInv, TypeOK, Finish PROVE Moves
  BY DEF MoveInv, SupersedeInv, TypeInv
<1> USE DEF company, gateway, web, transactions, jobs, clock
<1>1. JobsRun'
  <2>1. UNCHANGED <<fin, recon>>
    BY DEF Finish, Commit, CommitWithoutPlan, RollBack, sync_company_access, SyncRaises
  <2> QED
    BY <2>1 DEF MoveInv, JobsRun
<1>2. ASSUME NEW q \in Requests, SaveActivation(q)
      PROVE  /\ activation[q].sub \in Subs /\ activation[q].row.status = "active"
             /\ activation[q].sub \in Active'
  <2>1. activation[q] # NoActivation
    BY <1>2 DEF SaveActivation
  <2>2. activation[q].sub \in Subs /\ activation[q].row.status = "active"
    BY <2>1, OpenActivation DEF MoveInv, SupersedeInv, SeesActive
  <2>3. sub'[activation[q].sub] = activation[q].row
    BY <1>2, <2>2 DEF SaveActivation
  <2> QED
    BY <2>2, <2>3 DEF Active
<1>3. ASSUME NEW q \in Requests, Commit(q) PROVE Moves
  <2> DEFINE s == activation[q].sub
             old == IF q = "card" THEN NewRow(FALSE, "pending") ELSE sub[s]
  <2>1. SaveActivation(q) /\ AfterCommit(q, old, activation[q].row) /\ UNCHANGED access
    BY <1>3 DEF Commit
  <2>2. s \in Subs /\ activation[q].row.status = "active" /\ s \in Active'
    BY <1>2, <2>1
  <2>3. old.status = "active" => s \in Active
    BY <2>2 DEF NewRow, Active
  <2> HIDE DEF s, old
  <2>4. CASE old.status = "active"
    <3>1. Quiet
      BY <2>1, <2>2, <2>3, <2>4 DEF AfterCommit, Quiet
    <3> QED
      BY <1>1, <2>1, <3>1 DEF Moves, ActiveStep, AccessStep
  <2>5. CASE old.status # "active"
    <3>1. Saves(q, s)
      BY <2>1, <2>2, <2>5 DEF AfterCommit, Saves
    <3> QED
      BY <1>1, <2>1, <2>2, <3>1, WhoRuns DEF Moves, ActiveStep, AccessStep
  <2> QED
    BY <2>4, <2>5
<1>4. ASSUME NEW h \in Handlers, CommitWithoutPlan(h) PROVE Moves
  <2> DEFINE s == activation[h].sub
  <2>1. /\ SaveActivation(h) /\ UNCHANGED <<access, callback>>
        /\ astray' = (astray \/ sub[s].status # activation[h].row.status)
    BY <1>4 DEF CommitWithoutPlan
  <2>2. s \in Subs /\ activation[h].row.status = "active" /\ s \in Active'
    BY <1>2, <2>1, WhoRuns
  <2> HIDE DEF s
  <2>3. CASE sub[s].status = "active"
    <3>1. s \in Active
      BY <2>2, <2>3 DEF Active
    <3>2. astray' = astray
      BY <2>1, <2>2, <2>3 DEF TypeOK
    <3>3. Quiet
      BY <2>1, <2>2, <3>1, <3>2 DEF Quiet
    <3> QED
      BY <1>1, <2>1, <3>3, WhoRuns DEF Moves, ActiveStep, AccessStep
  <2>4. CASE sub[s].status # "active"
    BY <1>1, <2>1, <2>2, <2>4, WhoRuns DEF Moves, ActiveStep, AccessStep
  <2> QED
    BY <2>3, <2>4
<1>5. ASSUME NEW q \in Requests, RollBack(q) PROVE Moves
  <2>1. \A o \in Requests : activation'[o] \in {activation[o], NoActivation}
    BY <1>5 DEF RollBack, TypeOK
  <2>2. Active' = Active /\ UNCHANGED <<access, callback, astray>>
    BY <1>5 DEF RollBack, Active
  <2> QED
    BY <1>1, <2>1, <2>2 DEF Moves, ActiveStep, NoneStarts, AccessStep, Quiet
<1>6. ASSUME NEW p \in Processes, sync_company_access(p) PROVE Moves
  <2>1. Syncs(p)
    BY <1>6 DEF sync_company_access, Syncs
  <2>2. NoneStarts
    BY <1>6 DEF sync_company_access, NoneStarts, Active
  <2> QED
    BY <1>1, <2>1, <2>2 DEF Moves, ActiveStep, AccessStep
<1>7. ASSUME NEW p \in Processes, SyncRaises(p) PROVE Moves
  <2>1. \/ UNCHANGED sub
        \/ sub' = [sub EXCEPT ![card.sub] = status_cancelled(sub[card.sub])]
    BY <1>7 DEF SyncRaises
  <2>2. \A t \in Subs : sub'[t].status = sub[t].status \/ sub'[t].status = "cancelled"
    BY <2>1 DEF TypeOK, Rows, Row, status_cancelled
  <2>3. NoneStarts
    BY <1>7, <2>2 DEF SyncRaises, NoneStarts, Active
  <2> QED
    BY <1>1, <1>7, <2>3 DEF SyncRaises, Moves, ActiveStep, AccessStep
<1> QED
  BY <1>3, <1>4, <1>5, <1>6, <1>7 DEF Finish

\* The daily jobs that warn, expire and finalize.
LEMMA LifecycleMoves == MoveInv /\ (Notify \/ Expire \/ Finalize) => Moves
<1> SUFFICES ASSUME MoveInv, TypeOK, Notify \/ Expire \/ Finalize PROVE Moves
  BY DEF MoveInv, SupersedeInv, TypeInv
<1> USE DEF company, gateway, web, transactions, jobs, clock
<1>1. JobsRun'
  <2>1. recon' = recon /\ (fin' \in {fin, NoFin} \/ "finalize" \in Jobs)
    BY DEF Notify, NotifyPluck, NotifyOne, Expire, ExpirePluck, ExpireOne, Pluck,
       Finalize, FinalizePluck, FinalizeLoad, FinalizeCommit, Done
  <2> QED
    BY <2>1 DEF MoveInv, JobsRun
<1>2. CASE NotifyPluck \/ ExpirePluck \/ FinalizePluck
  BY <1>1, <1>2, StayMoves DEF NotifyPluck, ExpirePluck, FinalizePluck, Pluck
<1>3. ASSUME NEW s \in Subs, NotifyOne(s) PROVE Moves
  <2>1. \A t \in Subs : sub'[t].status = sub[t].status
    BY <1>3 DEF NotifyOne, TypeOK, Rows, Row
  <2> QED
    BY <1>1, <1>3, <2>1, StatusKept, KeptMoves DEF NotifyOne
<1>4. ASSUME NEW s \in Subs, ExpireOne(s) PROVE Moves
  <2>1. sub[s] \in Rows /\ expire(sub[s]) \in Rows
    BY UpdatesGood DEF TypeOK
  <2>2. expire(sub[s]).status = "expired"
    BY <2>1 DEF expire, Rows, Row
  <2>3. /\ UNCHANGED <<sub, callback, astray>> \/ UpdateRow("expire", s, expire(sub[s]))
        /\ UNCHANGED <<access, activation>> /\ "expire" \in Processes
    BY <1>4 DEF ExpireOne, Done, Processes
  <2> QED
    BY <1>1, <2>1, <2>2, <2>3, StayMoves, RowMoves
<1>5. ASSUME NEW s \in Subs, FinalizeLoad(s) PROVE Moves
  <2> DEFINE r == finalize_scheduled_cancellation(sub[s], sub[s])
  <2>1. sub[s] \in Rows /\ r \in Rows
    BY UpdatesGood DEF TypeOK
  <2>2. r.status = "cancelled"
    BY <2>1 DEF finalize_scheduled_cancellation, Rows, Row
  <2>3. /\ UNCHANGED <<sub, callback, astray>> \/ UpdateRow("finalize", s, r)
        /\ UNCHANGED <<access, activation>> /\ "finalize" \in Processes
    BY <1>5 DEF FinalizeLoad, Done, Processes
  <2> HIDE DEF r
  <2> QED
    BY <1>1, <2>1, <2>2, <2>3, StayMoves, RowMoves
<1>6. CASE FinalizeCommit
  <2> DEFINE s == fin.sub
             r == finalize_scheduled_cancellation(sub[s], fin.row)
             new == finalize_scheduled_cancellation(fin.row, fin.row)
  <2>1. s \in Subs /\ fin.row \in Rows
    BY <1>6 DEF FinalizeCommit, TypeOK, Finalization
  <2>2. new.status = "cancelled"
    BY <2>1 DEF finalize_scheduled_cancellation, Rows, Row
  <2>3. /\ sub' = [sub EXCEPT ![s] = r]
        /\ AfterCommit("finalize", fin.row, new)
        /\ UNCHANGED <<access, activation>>
    BY <1>6 DEF FinalizeCommit
  <2>4. "finalize" \in Processes
    BY <1>6 DEF FinalizeCommit, MoveInv, JobsRun, Processes
  <2>5. r.status = IF fin.row.status = "cancelled" THEN sub[s].status ELSE "cancelled"
    BY <2>1 DEF finalize_scheduled_cancellation, TypeOK, Rows, Row
  <2>6. sub'[s] = r /\ \A t \in Subs : t # s => sub'[t] = sub[t]
    BY <2>1, <2>3 DEF TypeOK
  <2> HIDE DEF s, r, new
  <2>7. Active' \subseteq Active
    BY <2>5, <2>6 DEF Active
  <2>8. CASE fin.row.status = "cancelled"
    <3>1. UNCHANGED <<callback, astray>>
      BY <2>2, <2>3, <2>8 DEF AfterCommit
    <3>2. Active' = Active
      BY <2>5, <2>6, <2>8 DEF Active
    <3> QED
      BY <1>1, <2>3, <3>1, <3>2, KeptMoves
  <2>9. CASE fin.row.status # "cancelled"
    <3>1. s \notin Active'
      BY <2>5, <2>6, <2>9 DEF Active
    <3>2. Saves("finalize", s)
      BY <2>2, <2>3, <2>9, <3>1 DEF AfterCommit, Saves
    <3> QED
      BY <1>1, <2>1, <2>3, <2>4, <2>7, <3>2 DEF Moves, ActiveStep, NoneStarts, AccessStep
  <2> QED
    BY <2>8, <2>9
<1> QED
  BY <1>2, <1>3, <1>4, <1>5, <1>6 DEF Notify, Expire, Finalize

\* The reconciliation.
LEMMA ReconcileMoves == MoveInv /\ Reconcile => Moves
<1> SUFFICES ASSUME MoveInv, TypeOK, Reconcile PROVE Moves
  BY DEF MoveInv, SupersedeInv, TypeInv
<1> USE DEF company, gateway, web, transactions, jobs, clock
<1>1. JobsRun'
  <2>1. fin' = fin /\ (recon' \in {recon, NoRecon} \/ "reconcile" \in Jobs)
    BY DEF Reconcile, ReconcilePluck, ReconcileFetch, ReconcileApply, Pluck, Done
  <2> QED
    BY <2>1 DEF MoveInv, JobsRun
<1>2. CASE ReconcilePluck
  BY <1>1, <1>2, StayMoves DEF ReconcilePluck, Pluck
<1>3. ASSUME NEW s \in Subs, ReconcileFetch(s) PROVE Moves
  BY <1>1, <1>3, StayMoves DEF ReconcileFetch
<1>4. CASE ReconcileApply
  <2> DEFINE s == recon.sub
             r == apply_gateway_status(reconcile_saved(sub[s]))
  <2>1. /\ s \in Subs /\ recon.charge \in Charges
        /\ recon.paidOn \in Days \cup {NoDay}
    BY <1>4 DEF ReconcileApply, TypeOK, Reconciliation
  <2>2. reconcile_saved(sub[s]) \in Rows
    BY <2>1, UpdatesGood DEF reconcile_saved, TypeOK
  <2>3. r \in Rows
    BY <2>1, <2>2, UpdatesGood, DatesGood DEF apply_gateway_status, TypeOK
  <2>4. UpdateRow("reconcile", s, r) /\ UNCHANGED access
    BY <1>4 DEF ReconcileApply
  <2>5. "reconcile" \in Processes
    BY <1>4 DEF ReconcileApply, MoveInv, JobsRun, Processes
  <2> HIDE DEF s, r
  <2> QED
    BY <1>1, <1>4, <2>1, <2>3, <2>4, <2>5, RowSaved DEF Moves, ActiveStep
<1> QED
  BY <1>2, <1>3, <1>4 DEF Reconcile

\* The payment jobs, the gateway, crashes and the calendar.
LEMMA EnvironmentMoves ==
    MoveInv /\ (UNCHANGED vars \/ PaymentJob \/ Cycle \/ Gateway \/ PumaCrash
                  \/ SidekiqCrash \/ Tick)
      => Moves
<1> SUFFICES ASSUME MoveInv, TypeOK,
                    UNCHANGED vars \/ PaymentJob \/ Cycle \/ Gateway \/ PumaCrash
                      \/ SidekiqCrash \/ Tick
             PROVE  Moves
  BY DEF MoveInv, SupersedeInv, TypeInv
<1> USE DEF company, gateway, web, transactions, jobs, clock
<1>1. JobsRun'
  <2>1. fin' \in {fin, NoFin} /\ recon' \in {recon, NoRecon}
    BY DEF vars, PaymentJob, PaymentJobPost, PaymentJobFails, persist_payment_reference,
       Cycle, CyclePluck, Pluck, CycleOne, CycleRaises, Gateway, Settle, Revoke, Debit,
       LoseNotice, PumaCrash, SidekiqCrash, Tick
  <2> QED
    BY <2>1 DEF MoveInv, JobsRun
<1>2. CASE UNCHANGED vars \/ Gateway \/ Tick \/ Cycle
  BY <1>1, <1>2, StayMoves
     DEF vars, Gateway, Settle, Revoke, Debit, LoseNotice, Tick, Cycle, CyclePluck,
         Pluck, CycleOne, CycleRaises
<1>3. CASE PaymentJob
  <2>1. UNCHANGED <<access, activation, callback, astray>>
    BY <1>3 DEF PaymentJob, PaymentJobPost, PaymentJobFails, persist_payment_reference
  <2>2. \A t \in Subs : sub'[t].status = sub[t].status
    <3>1. ASSUME NEW p \in posted, persist_payment_reference(p)
          PROVE  \A t \in Subs : sub'[t].status = sub[t].status
      BY <3>1 DEF persist_payment_reference, TypeOK, Posted, Rows, Row
    <3> QED
      BY <1>3, <3>1 DEF PaymentJob, PaymentJobPost, PaymentJobFails
  <2> QED
    BY <1>1, <2>1, <2>2, StatusKept, KeptMoves
<1>4. CASE PumaCrash \/ SidekiqCrash
  <2>1. PICK gone \in {Requests, Jobs} : LoseCallbacks(gone)
    BY <1>4 DEF PumaCrash, SidekiqCrash
  <2>2. gone \subseteq Processes
    BY WhoRuns DEF Processes
  <2>3. astray' \/ UNCHANGED <<callback, astray>>
    <3>1. CASE \E p \in gone : callback[p] # "none"
      BY <2>1, <3>1 DEF LoseCallbacks
    <3>2. CASE \A p \in gone : callback[p] = "none"
      <4>1. callback' = callback
        BY <2>1, <2>2, <3>2 DEF LoseCallbacks, TypeOK
      <4>2. astray' = astray
        BY <2>1, <3>2 DEF LoseCallbacks, TypeOK
      <4> QED
        BY <4>1, <4>2
    <3> QED
      BY <3>1, <3>2
  <2>4. UNCHANGED <<sub, access>>
    BY <1>4 DEF PumaCrash, SidekiqCrash
  <2>5. \A q \in Requests : activation'[q] \in {activation[q], NoActivation}
    BY <1>4 DEF PumaCrash, SidekiqCrash
  <2> QED
    BY <1>1, <2>3, <2>4, <2>5 DEF Moves, ActiveStep, NoneStarts, AccessStep, Quiet, Active
<1> QED
  BY <1>2, <1>3, <1>4

\* Every step.
LEMMA StepMoves == MoveInv /\ [Next]_vars => Moves
  BY WebMoves, WebhookMoves, FinishMoves, LifecycleMoves, ReconcileMoves,
     EnvironmentMoves DEF Next

----------------------------------------------------------------------------
(* One subscription in force *)

\* At most one, without counting.
LEMMA AtMostOne ==
    ASSUME NEW S \in SUBSET Subs
    PROVE  Cardinality(S) <= 1 <=> \A s, t \in S : s = t
<1>1. IsFiniteSet(S) /\ Cardinality(S) \in Nat
  <2>1. IsFiniteSet(Subs)
    BY SizeAssumption, FS_Interval DEF Subs
  <2> QED
    BY <2>1, FS_Subset, FS_CardinalityType
<1>2. ASSUME Cardinality(S) <= 1, NEW s \in S, NEW t \in S PROVE s = t
  <2> SUFFICES ASSUME s # t PROVE FALSE
    OBVIOUS
  <2>1. IsFiniteSet({s}) /\ Cardinality({s}) = 1
    BY FS_Singleton
  <2>2. IsFiniteSet({s} \cup {t}) /\ Cardinality({s} \cup {t}) = 2
    BY <2>1, FS_AddElement
  <2>3. Cardinality({s} \cup {t}) <= Cardinality(S)
    BY <1>1, FS_Subset
  <2> QED
    BY <1>1, <1>2, <2>2, <2>3
<1>3. ASSUME \A s, t \in S : s = t PROVE Cardinality(S) <= 1
  <2>1. CASE S = {}
    BY <2>1, FS_EmptySet
  <2>2. ASSUME NEW s \in S PROVE Cardinality(S) <= 1
    <3>1. S = {s}
      BY <1>3, <2>2
    <3> QED
      BY <3>1, FS_Singleton
  <2> QED
    BY <2>1, <2>2
<1> QED
  BY <1>2, <1>3

\* The commit of a transaction that was not overtaken.
LEMMA CommitSupersedes ==
    ASSUME SupersedeInv, NEW q \in Requests, SaveActivation(q), ~activation[q].overtaken
    PROVE  Active' = {activation[q].sub}
<1> DEFINE a == activation[q]
<1>1. a # NoActivation
  BY DEF SaveActivation
<1>2. a.sub \in Subs /\ a.row.status = "active" /\ Active \subseteq a.others \cup {a.sub}
  BY <1>1, OpenActivation DEF SupersedeInv, SeesActive, TypeInv
<1>3. \A t \in Subs :
        sub'[t] = IF t = a.sub THEN a.row
                  ELSE IF t \in a.others \cap Active THEN status_cancelled(sub[t])
                  ELSE sub[t]
  BY DEF SaveActivation
<1> HIDE DEF a
<1>4. \A t \in Subs : t \in Active => status_cancelled(sub[t]).status = "cancelled"
  BY DEF SupersedeInv, TypeInv, TypeOK, Rows, Row, status_cancelled
<1>5. \A t \in Subs : t # a.sub => sub'[t].status # "active"
  BY <1>2, <1>3, <1>4 DEF Active
<1>6. sub'[a.sub].status = "active"
  BY <1>2, <1>3
<1> QED
  BY <1>2, <1>5, <1>6 DEF Active, a

\* The invariant of every step.
LEMMA MoveInit == Init => MoveInv
  BY TypeInvInit DEF Init, MoveInv, SupersedeInv, SeesActive, JobsRun

LEMMA MoveStep == MoveInv /\ [Next]_vars => MoveInv'
<1> SUFFICES ASSUME MoveInv, TypeOK, [Next]_vars PROVE MoveInv'
  BY DEF MoveInv, SupersedeInv, TypeInv
<1>1. TypeInv' /\ Moves
  BY TypeStep, StepMoves DEF MoveInv, SupersedeInv
<1>2. \A q \in Requests : SeesActive(q)'
  <2> SUFFICES ASSUME NEW q \in Requests PROVE SeesActive(q)'
    OBVIOUS
  <2>1. SeesActive(q)
    BY DEF MoveInv, SupersedeInv
  <2>2. activation[q] \in Activation \cup {NoActivation}
    BY DEF TypeOK
  <2>3. Overtake(activation[q]) = NoActivation
          \/ /\ activation[q] # NoActivation
             /\ Overtake(activation[q]).row = activation[q].row
             /\ Overtake(activation[q]).overtaken
    BY <2>2 DEF Overtake, Activation
  <2>4. CASE NoneStarts
    <3>1. CASE activation'[q] = activation[q]
      BY <2>1, <2>4, <3>1 DEF NoneStarts, SeesActive
    <3>2. CASE activation'[q] = NoActivation
      BY <3>2 DEF SeesActive
    <3>3. CASE Opens(q)
      BY <3>3 DEF Opens, SeesActive
    <3> QED
      BY <2>4, <3>1, <3>2, <3>3 DEF NoneStarts
  <2>5. ASSUME NEW o \in Requests, SaveActivation(o) PROVE SeesActive(q)'
    <3>1. activation'[q] = IF q = o THEN NoActivation ELSE Overtake(activation[q])
      BY <2>5 DEF SaveActivation
    <3> QED
      BY <2>1, <2>3, <3>1 DEF SeesActive
  <2>6. CASE ReconcileApply
    <3>1. \/ Active' \subseteq Active /\ activation'[q] = activation[q]
          \/ activation'[q] = Overtake(activation[q])
      BY <2>6 DEF ReconcileApply
    <3> QED
      BY <2>1, <2>3, <3>1 DEF SeesActive
  <2> QED
    BY <1>1, <2>4, <2>5, <2>6 DEF Moves, ActiveStep
<1> QED
  BY <1>1, <1>2 DEF MoveInv, SupersedeInv, Moves

LEMMA MoveInvHolds == Spec => []MoveInv
  BY MoveInit, MoveStep, PTL DEF Spec

\* Whatever notices, answers and jobs come in whatever order, a second subscription
\* is put in force only by the reconciliation (it calls activate_for! where the
\* others call activate_as_current!), or by the commit of an activation during
\* which another one was committed.
THEOREM OnlyOverlapDoublesHolds == Spec => OnlyOverlapDoubles
<1>1. ASSUME MoveInv, [Next]_vars, OneActive, ~OneActive'
      PROVE  \/ ReconcileApply
             \/ \E q \in Requests : SaveActivation(q) /\ activation[q].overtaken
  <2>1. \A s, t \in Active : s = t
    BY <1>1, AtMostOne DEF OneActive, Active
  <2>2. ~\A s, t \in Active' : s = t
    BY <1>1, AtMostOne DEF OneActive, Active
  <2>3. ~NoneStarts
    BY <2>1, <2>2 DEF NoneStarts
  <2>4. ASSUME NEW q \in Requests, SaveActivation(q) PROVE activation[q].overtaken
    BY <1>1, <2>2, <2>4, CommitSupersedes DEF MoveInv
  <2> QED
    BY <1>1, <2>3, <2>4, StepMoves DEF Moves, ActiveStep
<1>2. MoveInv /\ [Next]_vars
        => [OneActive /\ ~OneActive' =>
                \/ ReconcileApply
                \/ \E q \in Requests : SaveActivation(q) /\ activation[q].overtaken]_vars
  BY <1>1
<1> QED
  BY <1>2, MoveInvHolds, PTL DEF Spec, OnlyOverlapDoubles

\* An activation that no other has overtaken leaves its subscription as the only
\* one in force: the update_all misses none that another process had committed.
THEOREM ActivationSupersedesHolds == Spec => ActivationSupersedes
<1>1. MoveInv /\ [Next]_vars
        => [\A q \in Requests : SaveActivation(q) /\ ~activation[q].overtaken
                => Active' = {activation[q].sub}]_vars
  BY CommitSupersedes DEF MoveInv
<1> QED
  BY <1>1, MoveInvHolds, PTL DEF Spec, ActivationSupersedes

----------------------------------------------------------------------------
(* The access *)

\* Giving the access agrees with the subscriptions in force: nobody has it without
\* one, and, where the company has one row, who has one has it.
Agrees(given) == /\ given => Active # {}
                 /\ MaxSubs = 1 /\ Active # {} => given

Waiting == {p \in Processes : callback[p] # "none"}

\* Unless the history has one lost, one callback waits at most, and it will make the
\* access agree.
AccessInv ==
    ~astray => /\ \A p, q \in Waiting : p = q
               /\ \A p \in Waiting : Agrees(callback[p] = "activate")
               /\ Waiting = {} => Agrees(access)

LEMMA AccessInit == Init => AccessInv
<1> SUFFICES ASSUME Init PROVE AccessInv
  OBVIOUS
<1>1. PICK free \in BOOLEAN :
        /\ sub = [s \in Subs |-> IF s # 1 THEN NoRow
                    ELSE NewRow(free, IF free THEN "active" ELSE "pending")]
        /\ access = free
  BY DEF Init
<1>2. 1 \in Subs /\ (MaxSubs = 1 => \A s \in Subs : s = 1)
  BY SizeAssumption DEF Subs
<1>3. sub[1].status = IF free THEN "active" ELSE "pending"
  BY <1>1, <1>2 DEF NewRow
<1>4. Waiting = {}
  BY DEF Init, Waiting
<1>5. Agrees(access)
  BY <1>1, <1>2, <1>3 DEF Active, Agrees
<1> QED
  BY <1>4, <1>5 DEF AccessInv

LEMMA AccessNext == MoveInv /\ AccessInv /\ [Next]_vars => AccessInv'
<1> SUFFICES ASSUME MoveInv, TypeOK, AccessInv, AccessStep, ~astray' PROVE AccessInv'
  BY StepMoves DEF MoveInv, SupersedeInv, TypeInv, Moves, AccessInv
<1>1. CASE Quiet
  <2>1. UNCHANGED <<access, callback, astray>> /\ Waiting' = Waiting
    BY <1>1 DEF Quiet, Waiting
  <2>2. Waiting = {} => Agrees(access)'
    BY <1>1, <2>1 DEF AccessInv, Quiet, Agrees
  <2>3. \A p \in Waiting : Agrees(callback[p] = "activate")'
    BY <1>1, <2>1 DEF AccessInv, Quiet, Agrees
  <2> QED
    BY <2>1, <2>2, <2>3 DEF AccessInv
<1>2. ASSUME NEW p \in Processes, NEW s \in Subs, Saves(p, s) PROVE AccessInv'
  <2>1. Waiting = {}
    BY <1>2 DEF Saves, Waiting
  <2>2. /\ callback'[p] = IF s \in Active' THEN "activate" ELSE "deactivate"
        /\ \A q \in Processes : q # p => callback'[q] = callback[q]
    BY <1>2 DEF Saves, TypeOK
  <2>3. Waiting' = {p}
    BY <2>1, <2>2 DEF Waiting
  <2>4. MaxSubs = 1 => \A t \in Subs : t = s
    BY DEF Subs
  <2>5. Active' \subseteq Subs
    BY DEF Active
  <2>6. Agrees(callback[p] = "activate")'
    BY <2>2, <2>4, <2>5 DEF Agrees
  <2> QED
    BY <2>3, <2>6 DEF AccessInv
<1>3. ASSUME NEW p \in Processes, Syncs(p) PROVE AccessInv'
  <2>1. ~astray /\ Active' = Active /\ access' = (callback[p] = "activate")
    BY <1>3 DEF Syncs, Active
  <2>2. p \in Waiting /\ \A q \in Waiting : q = p
    BY <1>3, <2>1 DEF AccessInv, Syncs, Waiting
  <2>3. Agrees(callback[p] = "activate")
    BY <2>1, <2>2 DEF AccessInv
  <2>4. callback'[p] = "none" /\ \A q \in Processes : q # p => callback'[q] = callback[q]
    BY <1>3 DEF Syncs, TypeOK
  <2>5. Waiting' = {}
    BY <2>2, <2>4 DEF Waiting
  <2>6. Agrees(access)'
    BY <2>1, <2>3 DEF Agrees
  <2> QED
    BY <2>5, <2>6 DEF AccessInv
<1> QED
  BY <1>1, <1>2, <1>3 DEF AccessStep

LEMMA AccessInvHolds == Spec => []AccessInv
<1>1. Init => MoveInv /\ AccessInv
  BY MoveInit, AccessInit
<1>2. (MoveInv /\ AccessInv) /\ [Next]_vars => (MoveInv /\ AccessInv)'
  BY MoveStep, AccessNext
<1> QED
  BY <1>1, <1>2, PTL DEF Spec

\* With any number of subscriptions, no company keeps the access without one in
\* force, once the callbacks have run and none was lost, skipped or overlapped.
THEOREM AccessNeedsActiveHolds == Spec => []AccessNeedsActive
<1>1. AccessInv => AccessNeedsActive
  BY DEF AccessInv, AccessNeedsActive, Settled, Waiting, Agrees
<1> QED
  BY <1>1, AccessInvHolds, PTL

\* In a company with one subscription the two questions "is it active?" and "has
\* it an active subscription?" have then the same answer.
THEOREM AccessAgreesHolds == ASSUME MaxSubs = 1 PROVE Spec => []AccessAgrees
<1>1. TypeInv /\ AccessInv => AccessAgrees
  BY DEF AccessInv, AccessAgrees, Settled, Waiting, Agrees, TypeInv, TypeOK
<1> QED
  BY <1>1, TypeInvHolds, AccessInvHolds, PTL
----------------------------------------------------------------------------
(* The days that were paid for *)

\* A cancellation is not scheduled for a day before the end of the period.
Scheduled(r) == r.cancelAt => r.end <= r.cancelOn

\* With invoices no request waits for POST or PUT /preapproval, so every save starts
\* from the row as it is, and an activation that is open withdraws the cancellation.
InvoiceInv ==
    /\ TypeInv
    /\ card = NoCard /\ fin = NoFin /\ method # "credit_card"
    /\ \A s \in Subs : Scheduled(sub[s])
    /\ \A q \in Requests : activation[q] # NoActivation => ~activation[q].row.cancelAt

InvoiceStep ==
    /\ card' = NoCard /\ fin' = NoFin /\ method' # "credit_card"
    /\ \A s \in Subs : Scheduled(sub'[s])
    /\ \A q \in Requests :
         \/ activation'[q] \in {activation[q], NoActivation, Overtake(activation[q])}
         \/ ~activation'[q].row.cancelAt

\* Every update of a row keeps its dates so.
LEMMA ScheduledKept ==
    ASSUME NEW r \in Rows, Scheduled(r), NEW day \in Days \cup {NoDay}
    PROVE  /\ Scheduled(cancel(r)) /\ Scheduled(expire(r)) /\ Scheduled(to_pending(r))
           /\ Scheduled(status_cancelled(r)) /\ Scheduled(resume_cancellation(r))
           /\ Scheduled([r EXCEPT !.warned = TRUE])
           /\ Scheduled(finalize_scheduled_cancellation(r, r))
           /\ \A c \in Charges : /\ Scheduled([r EXCEPT !.pay = c])
                                 /\ Scheduled([r EXCEPT !.pre = c])
           /\ Scheduled(activate_for(r, day)) /\ ~activate_for(r, day).cancelAt
           /\ day \in Days => Scheduled(schedule_cancellation(r, day))
<1> USE DEF Scheduled, Rows, Row
<1>1. Scheduled(cancel(r)) /\ Scheduled(expire(r)) /\ Scheduled(to_pending(r))
  BY DEF cancel, expire, to_pending
<1>2. Scheduled(status_cancelled(r)) /\ Scheduled(resume_cancellation(r))
  BY DEF status_cancelled, resume_cancellation
<1>3. /\ Scheduled([r EXCEPT !.warned = TRUE])
      /\ \A c \in Charges : Scheduled([r EXCEPT !.pay = c]) /\ Scheduled([r EXCEPT !.pre = c])
  OBVIOUS
<1>4. Scheduled(finalize_scheduled_cancellation(r, r))
  BY DEF finalize_scheduled_cancellation
<1>5. Scheduled(activate_for(r, day)) /\ ~activate_for(r, day).cancelAt
  BY DEF activate_for
<1>6. ASSUME day \in Days PROVE Scheduled(schedule_cancellation(r, day))
  <2>1. /\ schedule_cancellation(r, day).end = r.end
        /\ schedule_cancellation(r, day).cancelOn = IF IsSet(r.end) THEN r.end ELSE day
    BY DEF schedule_cancellation
  <2>2. r.end \in Nat /\ day \in Nat
    BY <1>6, SizeAssumption, PeriodAssumption DEF Dates, Days
  <2> HIDE DEF Rows, Row
  <2> QED
    BY <2>1, <2>2 DEF IsSet, NoDay
<1> HIDE DEF Scheduled, Rows, Row
<1> QED
  BY <1>1, <1>2, <1>3, <1>4, <1>5, <1>6

\* A step that leaves the rows alone, or saves one row.
LEMMA StayInvoice ==
    ASSUME InvoiceInv, card' = NoCard, fin' = NoFin, UNCHANGED method,
           \/ UNCHANGED sub
           \/ \E s \in Subs : \E r : Scheduled(r) /\ sub' = [sub EXCEPT ![s] = r],
           \A q \in Requests :
              \/ activation'[q] \in {activation[q], NoActivation, Overtake(activation[q])}
              \/ ~activation'[q].row.cancelAt
    PROVE  InvoiceStep
<1>1. CASE UNCHANGED sub
  BY <1>1 DEF InvoiceInv, InvoiceStep
<1>2. ASSUME NEW s \in Subs, NEW r, Scheduled(r), sub' = [sub EXCEPT ![s] = r]
      PROVE  InvoiceStep
  <2>1. \A t \in Subs : sub'[t] \in {sub[t], r}
    BY <1>2 DEF InvoiceInv, TypeInv, TypeOK
  <2> QED
    BY <1>2, <2>1 DEF InvoiceInv, InvoiceStep
<1> QED
  BY <1>1, <1>2

\* The requests of the web application.
LEMMA WebInvoice ==
    ASSUME "credit_card" \notin Methods, InvoiceInv, Web
    PROVE  InvoiceStep
<1> USE DEF company, gateway, web, transactions, jobs, clock
<1>1. TypeOK /\ card = NoCard /\ fin = NoFin /\ \A s \in Subs : Scheduled(sub[s])
  BY DEF InvoiceInv, TypeInv
<1>2. ASSUME NEW s \in Subs, NEW m \in Methods, start_paid_subscription(s, m)
      PROVE  InvoiceStep
  <2>1. card' = NoCard /\ fin' = NoFin /\ UNCHANGED activation /\ method' = m
    BY <1>1, <1>2 DEF start_paid_subscription, create_pending_paid_subscription
  <2>2. \A t \in Subs : sub'[t] \in {NewRow(FALSE, "pending"), status_cancelled(sub[t]), sub[t]}
    BY <1>2 DEF start_paid_subscription, create_pending_paid_subscription
  <2>3. Scheduled(NewRow(FALSE, "pending"))
    BY DEF Scheduled, NewRow
  <2>4. \A t \in Subs : Scheduled(status_cancelled(sub[t]))
    BY <1>1 DEF TypeOK, Rows, Row, Scheduled, status_cancelled
  <2>5. \A t \in Subs : Scheduled(sub'[t])
    BY <1>1, <2>2, <2>3, <2>4
  <2> QED
    BY <2>1, <2>5 DEF InvoiceStep
<1>3. ASSUME NEW s \in Subs, cancel_subscription(s) \/ resume_subscription(s)
      PROVE  InvoiceStep
  <2>1. /\ Scheduled(schedule_cancellation(sub[s], today))
        /\ Scheduled(resume_cancellation(sub[s]))
    BY <1>1, ScheduledKept DEF TypeOK
  <2>2. \/ sub' = [sub EXCEPT ![s] = schedule_cancellation(sub[s], today)]
        \/ sub' = [sub EXCEPT ![s] = resume_cancellation(sub[s])]
    BY <1>3 DEF cancel_subscription, resume_subscription
  <2>3. card' = NoCard /\ fin' = NoFin /\ UNCHANGED <<method, activation>>
    BY <1>1, <1>3 DEF cancel_subscription, resume_subscription
  <2> QED
    BY <2>1, <2>2, <2>3, StayInvoice
<1>4. ~CardPostRejected /\ ~CardApply /\ \A o \in Outcomes : ~CardPost(o[1], o[2])
  BY <1>1 DEF CardPost, CardPostRejected, CardApply
<1> QED
  BY <1>2, <1>3, <1>4 DEF Web

\* The webhook requests.
LEMMA WebhookInvoice == ASSUME InvoiceInv, Webhook PROVE InvoiceStep
<1> USE DEF company, gateway, web, transactions, jobs, clock
<1>1. TypeOK /\ card = NoCard /\ fin = NoFin /\ \A s \in Subs : Scheduled(sub[s])
  BY DEF InvoiceInv, TypeInv
<1>2. card' = NoCard /\ fin' = NoFin /\ UNCHANGED method
  BY <1>1 DEF Webhook, HookFetch, HookApply, HookRejects
<1>3. CASE UNCHANGED <<sub, activation>>
  BY <1>2, <1>3, StayInvoice
<1>4. ASSUME NEW h \in Handlers, NEW s \in Subs, HookApply(h, s) PROVE InvoiceStep
  <2> DEFINE n == hook[h].notice
             r == hook_saved(sub[s], n.charge)
  <2>1. hook[h] \in Fetched
    BY <1>1, <1>4 DEF HookApply, TypeOK
  <2>2. n.charge \in Charges /\ n.on \in Days \cup {NoDay} /\ today \in Days \cup {NoDay}
    BY <1>1, <2>1 DEF Fetched, Notice, TypeOK
  <2>3. sub[s] \in Rows /\ r \in Rows
    BY <1>1, <2>2, UpdatesGood, RangesGood DEF hook_saved, TypeOK
  <2>4. Scheduled(r)
    <3> DEFINE c == n.charge
    <3>1. c \in Charges
      BY <2>2
    <3> HIDE DEF c, n
    <3>2. Scheduled([sub[s] EXCEPT !.pay = c]) /\ Scheduled([sub[s] EXCEPT !.pre = c])
      BY <1>1, <2>3, <3>1, ScheduledKept
    <3> QED
      BY <3>2 DEF hook_saved, c
  <2>5. \/ UNCHANGED sub /\ \E a \in {sub[s], r}, on \in {n.on, today} :
             activate_as_current(h, s, activate_for(a, on))
        \/ /\ UpdateRow(h, s, to_pending(r)) \/ UpdateRow(h, s, cancel(r))
           /\ UNCHANGED activation
    BY <1>4 DEF HookApply
  <2> HIDE DEF r, n
  <2>6. ASSUME NEW a \in Rows, Scheduled(a), NEW on \in Days \cup {NoDay}, UNCHANGED sub,
               activate_as_current(h, s, activate_for(a, on))
        PROVE  InvoiceStep
    <3>1. ~activate_for(a, on).cancelAt
      BY <2>6, ScheduledKept
    <3>2. \A q \in Requests : activation'[q] = activation[q] \/ ~activation'[q].row.cancelAt
      BY <1>1, <2>6, <3>1 DEF activate_as_current, TypeOK
    <3> QED
      BY <1>2, <2>6, <3>2, StayInvoice
  <2>7. ASSUME NEW a, Scheduled(a), UpdateRow(h, s, a), UNCHANGED activation
        PROVE  InvoiceStep
    BY <1>2, <2>7, StayInvoice DEF UpdateRow
  <2>8. Scheduled(to_pending(r)) /\ Scheduled(cancel(r))
    BY <2>2, <2>3, <2>4, ScheduledKept
  <2> QED
    BY <1>1, <2>2, <2>3, <2>4, <2>5, <2>6, <2>7, <2>8
<1> QED
  BY <1>3, <1>4 DEF Webhook, HookFetch, HookRejects

\* The commits, and the callbacks after them.
LEMMA FinishInvoice == ASSUME InvoiceInv, Finish PROVE InvoiceStep
<1> USE DEF company, gateway, web, transactions, jobs, clock
<1>1. TypeOK /\ OpenRequests /\ card = NoCard /\ fin = NoFin
      /\ \A s \in Subs : Scheduled(sub[s])
  BY DEF InvoiceInv, TypeInv
<1>2. fin' = NoFin /\ UNCHANGED method
  BY <1>1 DEF Finish, Commit, CommitWithoutPlan, RollBack, sync_company_access, SyncRaises
<1>3. activation["card"] = NoActivation /\ callback["card"] = "none"
  BY <1>1 DEF OpenRequests, NoCard
<1>4. ASSUME NEW q \in Requests, SaveActivation(q), card' = NoCard PROVE InvoiceStep
  <2>1. activation[q] # NoActivation /\ ~activation[q].row.cancelAt
    BY <1>4 DEF SaveActivation, InvoiceInv
  <2>2. \A t \in Subs : sub'[t] \in {activation[q].row, status_cancelled(sub[t]), sub[t]}
    BY <1>4 DEF SaveActivation
  <2>3. \A t \in Subs : Scheduled(status_cancelled(sub[t]))
    BY <1>1 DEF TypeOK, Rows, Row, Scheduled, status_cancelled
  <2>4. \A t \in Subs : Scheduled(sub'[t])
    BY <1>1, <2>1, <2>2, <2>3 DEF Scheduled
  <2>5. \A o \in Requests : activation'[o] \in {NoActivation, Overtake(activation[o])}
    BY <1>4 DEF SaveActivation
  <2> QED
    BY <1>2, <1>4, <2>4, <2>5 DEF InvoiceStep, InvoiceInv
<1>5. ASSUME NEW q \in Requests, Commit(q) PROVE InvoiceStep
  <2>1. q # "card"
    BY <1>3, <1>5 DEF Commit, SaveActivation
  <2> QED
    BY <1>1, <1>4, <1>5, <2>1 DEF Commit
<1>6. ASSUME NEW h \in Handlers, CommitWithoutPlan(h) PROVE InvoiceStep
  BY <1>1, <1>4, <1>6, WhoRuns DEF CommitWithoutPlan
<1>7. ASSUME NEW q \in Requests, RollBack(q) PROVE InvoiceStep
  <2>1. q # "card"
    BY <1>3, <1>7 DEF RollBack
  <2>2. card' = NoCard /\ UNCHANGED sub
    BY <1>1, <1>7, <2>1 DEF RollBack
  <2>3. \A o \in Requests : activation'[o] \in {activation[o], NoActivation}
    BY <1>1, <1>7 DEF RollBack, TypeOK
  <2> QED
    BY <1>2, <2>2, <2>3, StayInvoice
<1>8. ASSUME NEW p \in Processes, sync_company_access(p) \/ SyncRaises(p) PROVE InvoiceStep
  <2>1. p # "card"
    BY <1>3, <1>8 DEF sync_company_access, SyncRaises
  <2>2. card' = NoCard /\ UNCHANGED <<sub, activation>>
    BY <1>1, <1>8, <2>1 DEF sync_company_access, SyncRaises
  <2> QED
    BY <1>2, <2>2, StayInvoice
<1> QED
  BY <1>5, <1>6, <1>7, <1>8 DEF Finish

\* The daily jobs that warn, expire and finalize.
LEMMA LifecycleInvoice ==
    ASSUME InvoiceInv, Notify \/ Expire \/ Finalize
    PROVE  InvoiceStep
<1> USE DEF company, gateway, web, transactions, jobs, clock
<1>1. TypeOK /\ card = NoCard /\ fin = NoFin /\ method # "credit_card"
      /\ \A s \in Subs : Scheduled(sub[s])
  BY DEF InvoiceInv, TypeInv
<1>2. card' = NoCard /\ UNCHANGED <<method, activation>>
  BY <1>1 DEF Notify, NotifyPluck, NotifyOne, Expire, ExpirePluck, ExpireOne, Pluck,
     Finalize, FinalizePluck, FinalizeLoad, FinalizeCommit
<1>3. \A s \in Subs : sub[s] \in Rows /\ NoDay \in Days \cup {NoDay}
  BY <1>1 DEF TypeOK
<1>4. CASE NotifyPluck \/ ExpirePluck \/ FinalizePluck
  BY <1>1, <1>2, <1>4, StayInvoice DEF NotifyPluck, ExpirePluck, FinalizePluck, Pluck
<1>5. ASSUME NEW s \in Subs, NotifyOne(s) PROVE InvoiceStep
  <2>1. sub' = [sub EXCEPT ![s] = [sub[s] EXCEPT !.warned = TRUE]] /\ fin' = NoFin
    BY <1>1, <1>5 DEF NotifyOne
  <2>2. Scheduled([sub[s] EXCEPT !.warned = TRUE])
    BY <1>1, <1>3, ScheduledKept
  <2> QED
    BY <1>2, <2>1, <2>2, StayInvoice
<1>6. ASSUME NEW s \in Subs, ExpireOne(s) PROVE InvoiceStep
  <2>1. UNCHANGED sub \/ sub' = [sub EXCEPT ![s] = expire(sub[s])]
    BY <1>6 DEF ExpireOne, UpdateRow
  <2>2. Scheduled(expire(sub[s])) /\ fin' = NoFin
    BY <1>1, <1>3, <1>6, ScheduledKept DEF ExpireOne
  <2> QED
    BY <1>2, <2>1, <2>2, StayInvoice
<1>7. ASSUME NEW s \in Subs, FinalizeLoad(s) PROVE InvoiceStep
  <2> DEFINE r == finalize_scheduled_cancellation(sub[s], sub[s])
  <2>1. ~NeedsGateway(s)
    BY <1>1 DEF NeedsGateway
  <2>2. (UNCHANGED sub \/ sub' = [sub EXCEPT ![s] = r]) /\ fin' = NoFin
    BY <1>1, <1>7, <2>1 DEF FinalizeLoad, UpdateRow
  <2>3. Scheduled(r)
    BY <1>1, <1>3, ScheduledKept
  <2> HIDE DEF r
  <2> QED
    BY <1>2, <2>2, <2>3, StayInvoice
<1>8. ~FinalizeCommit
  BY <1>1 DEF FinalizeCommit
<1> QED
  BY <1>4, <1>5, <1>6, <1>7, <1>8 DEF Notify, Expire, Finalize

\* The reconciliation.
LEMMA ReconcileInvoice == ASSUME InvoiceInv, Reconcile PROVE InvoiceStep
<1> USE DEF company, gateway, web, transactions, jobs, clock
<1>1. TypeOK /\ card = NoCard /\ fin = NoFin /\ \A s \in Subs : Scheduled(sub[s])
  BY DEF InvoiceInv, TypeInv
<1>2. card' = NoCard /\ fin' = NoFin /\ UNCHANGED method
  BY <1>1 DEF Reconcile, ReconcilePluck, ReconcileFetch, ReconcileApply, Pluck
<1>3. CASE ReconcilePluck
  BY <1>2, <1>3, StayInvoice DEF ReconcilePluck, Pluck
<1>4. ASSUME NEW s \in Subs, ReconcileFetch(s) PROVE InvoiceStep
  BY <1>2, <1>4, StayInvoice DEF ReconcileFetch
<1>5. CASE ReconcileApply
  <2> DEFINE s == recon.sub
             saved == reconcile_saved(sub[s])
             r == apply_gateway_status(saved)
  <2>1. /\ s \in Subs /\ recon.charge \in Charges
        /\ recon.paidOn \in Days \cup {NoDay} /\ today \in Days \cup {NoDay}
    BY <1>1, <1>5 DEF ReconcileApply, TypeOK, Reconciliation
  <2>2. saved \in Rows /\ Scheduled(saved)
    <3>1. sub[s] \in Rows
      BY <1>1, <2>1 DEF TypeOK
    <3> DEFINE c == recon.charge
    <3>2. c \in Charges
      BY <2>1
    <3> HIDE DEF c, s
    <3>3. [sub[s] EXCEPT !.pay = c] \in Rows /\ Scheduled([sub[s] EXCEPT !.pay = c])
      BY <1>1, <2>1, <3>1, <3>2, UpdatesGood, ScheduledKept
    <3> QED
      BY <1>1, <2>1, <3>1, <3>3 DEF reconcile_saved, c
  <2>3. r \in {activate_for(saved, recon.paidOn), activate_for(saved, today), cancel(saved),
               to_pending(saved), saved}
    <3> HIDE DEF saved
    <3> QED
      BY DEF apply_gateway_status
  <2> HIDE DEF saved
  <2>4. Scheduled(r)
    BY <2>1, <2>2, <2>3, ScheduledKept
  <2>5. sub' = [sub EXCEPT ![s] = r]
    BY <1>5 DEF ReconcileApply, UpdateRow, saved
  <2>6. \A q \in Requests : activation'[q] \in {activation[q], Overtake(activation[q])}
    BY <1>5 DEF ReconcileApply
  <2> HIDE DEF r, s
  <2> QED
    BY <1>2, <2>1, <2>4, <2>5, <2>6, StayInvoice
<1> QED
  BY <1>3, <1>4, <1>5 DEF Reconcile

\* The payment jobs, the gateway, crashes and the calendar.
LEMMA EnvironmentInvoice ==
    ASSUME InvoiceInv,
           UNCHANGED vars \/ PaymentJob \/ Cycle \/ Gateway \/ PumaCrash \/ SidekiqCrash \/ Tick
    PROVE  InvoiceStep
<1> USE DEF company, gateway, web, transactions, jobs, clock
<1>1. TypeOK /\ card = NoCard /\ fin = NoFin /\ \A s \in Subs : Scheduled(sub[s])
  BY DEF InvoiceInv, TypeInv
<1>2. card' = NoCard /\ fin' = NoFin /\ UNCHANGED method
  BY <1>1 DEF vars, PaymentJob, PaymentJobPost, PaymentJobFails, persist_payment_reference,
     Cycle, CyclePluck, Pluck, CycleOne, CycleRaises, Gateway, Settle, Revoke, Debit,
     LoseNotice, PumaCrash, SidekiqCrash, Tick
<1>3. CASE UNCHANGED <<sub, activation>>
  BY <1>2, <1>3, StayInvoice
<1>4. ASSUME NEW p \in posted, persist_payment_reference(p) PROVE InvoiceStep
  <2>1. p.sub \in Subs /\ p.charge \in Charges /\ NoDay \in Days \cup {NoDay}
    BY <1>1 DEF TypeOK, Posted
  <2>2. Scheduled([sub[p.sub] EXCEPT !.pay = p.charge])
    BY <1>1, <2>1, ScheduledKept DEF TypeOK
  <2>3. sub' = [sub EXCEPT ![p.sub] = [sub[p.sub] EXCEPT !.pay = p.charge]]
        /\ UNCHANGED activation
    BY <1>4 DEF persist_payment_reference
  <2> QED
    BY <1>2, <2>1, <2>2, <2>3, StayInvoice
<1>5. CASE PumaCrash
  BY <1>2, <1>5, StayInvoice DEF PumaCrash
<1> QED
  BY <1>3, <1>4, <1>5
     DEF vars, PaymentJob, PaymentJobPost, PaymentJobFails,
         Cycle, CyclePluck, Pluck, CycleOne, CycleRaises, Gateway, Settle, Revoke, Debit,
         LoseNotice, SidekiqCrash, Tick

LEMMA InvoiceInit == ASSUME "credit_card" \notin Methods PROVE Init => InvoiceInv
<1> SUFFICES ASSUME Init PROVE InvoiceInv
  OBVIOUS
<1>1. method # "credit_card" /\ card = NoCard /\ fin = NoFin
  BY DEF Init
<1>2. \A s \in Subs : ~sub[s].cancelAt
  BY DEF Init, NewRow, NoRow
<1> QED
  BY <1>1, <1>2, TypeInvInit DEF Init, InvoiceInv, Scheduled

LEMMA InvoiceNext ==
    ASSUME "credit_card" \notin Methods
    PROVE  InvoiceInv /\ [Next]_vars => InvoiceInv'
<1> SUFFICES ASSUME InvoiceInv, [Next]_vars PROVE InvoiceInv'
  OBVIOUS
<1>1. TypeInv'
  BY TypeStep DEF InvoiceInv
<1>2. InvoiceStep
  BY WebInvoice, WebhookInvoice, FinishInvoice, LifecycleInvoice, ReconcileInvoice,
     EnvironmentInvoice DEF Next
<1>3. ASSUME NEW q \in Requests, activation'[q] # NoActivation
      PROVE  ~activation'[q].row.cancelAt
  <2>1. activation[q] # NoActivation => ~activation[q].row.cancelAt
    BY DEF InvoiceInv
  <2>2. activation[q] \in Activation \cup {NoActivation}
    BY DEF InvoiceInv, TypeInv, TypeOK
  <2>3. \/ Overtake(activation[q]) = NoActivation
        \/ /\ activation[q] # NoActivation
           /\ Overtake(activation[q]).row = activation[q].row
    BY <2>2 DEF Overtake, Activation
  <2> QED
    BY <1>2, <1>3, <2>1, <2>3 DEF InvoiceStep
<1> QED
  BY <1>1, <1>2, <1>3 DEF InvoiceInv, InvoiceStep

\* With invoices the finalization, whatever was renewed, resumed and scheduled again
\* since its ids were plucked, ends only a row whose paid days are over.  (Not with
\* cards: what is written during the PUT of FinalizeLoad is overwritten.)
THEOREM FinalizeKeepsPaidDaysHolds ==
    ASSUME "credit_card" \notin Methods PROVE Spec => FinalizeKeepsPaidDays
<1>1. ASSUME InvoiceInv, [Next]_vars, Finalize, NEW s \in Active,
             sub[s].status # sub'[s].status
      PROVE  sub[s].end <= today
  <2>1. TypeOK /\ fin = NoFin /\ Scheduled(sub[s]) /\ s \in Subs
    BY <1>1 DEF InvoiceInv, TypeInv, Active
  <2>2. PICK t \in Subs : FinalizeLoad(t) /\ sub' # sub
    BY <1>1, <2>1 DEF Finalize, FinalizePluck, Pluck, FinalizeCommit
  <2>3. FinalizeAgrees(t) /\ \E r : sub' = [sub EXCEPT ![t] = r]
    BY <2>2 DEF FinalizeLoad, UpdateRow
  <2>4. t = s
    BY <1>1, <2>1, <2>3 DEF TypeOK
  <2>5. sub[s].end <= sub[s].cancelOn /\ sub[s].cancelOn <= today
    BY <2>1, <2>3, <2>4 DEF FinalizeAgrees, cancel_due, Scheduled
  <2>6. sub[s].end \in Nat /\ sub[s].cancelOn \in Nat /\ today \in Nat
    BY <2>1, SizeAssumption, PeriodAssumption DEF TypeOK, Rows, Row, Dates, Days
  <2> QED
    BY <2>5, <2>6
<1>2. InvoiceInv /\ [Next]_vars
        => [\A s \in Active : Finalize /\ sub[s].status # sub'[s].status
                => sub[s].end <= today]_vars
  BY <1>1
<1>3. Spec => []InvoiceInv
  BY InvoiceInit, InvoiceNext, PTL DEF Spec
<1> QED
  BY <1>2, <1>3, PTL DEF Spec, FinalizeKeepsPaidDays
=============================================================================
