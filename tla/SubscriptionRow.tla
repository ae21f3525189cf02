--------------------------- MODULE SubscriptionRow ---------------------------
(***************************************************************************)
(* One row of the table subscriptions and the methods and scopes of        *)
(* app/models/subscription.rb, as operators from the row before to the row *)
(* after (or to a Boolean).  Names are the ones of the Ruby class.         *)
(*                                                                         *)
(* Days are counted from 1.  The SQL NULL of a date is NoDay, the NULL of  *)
(* an external id is NoCharge; a comparison with NULL is never true.       *)
(***************************************************************************)
EXTENDS Naturals

CONSTANTS Period,      \* days a payment buys        (1.month in the code)
          CycleLead,   \* days before the end when a renewal is charged (7)
          WarnAfter,   \* days overdue before the warning e-mail        (5)
          ExpireAfter  \* days overdue before the subscription expires (10)

ASSUME PeriodAssumption == Period \in Nat \ {0}
ASSUME LeadAssumption == CycleLead \in 0 .. Period
ASSUME GraceAssumption == /\ WarnAfter \in Nat
                          /\ ExpireAfter \in Nat
                          /\ WarnAfter <= ExpireAfter

NoDay == 0
NoCharge == 0

\* "none" is an id no row has been inserted for yet.
Statuses == {"none", "pending", "active", "cancelled", "expired"}

Row(dates, ids) ==
    [free     : BOOLEAN,     \* the plan of the row is the free one (Starter)
     status   : Statuses,
     end      : dates,       \* end_date
     cancelAt : BOOLEAN,     \* cancel_at_period_end
     cancelOn : dates,       \* cancel_effective_on
     warned   : BOOLEAN,     \* expiration_warning_sent_at is set
     pay      : ids,         \* external_payment_id
     pre      : ids]         \* external_subscription_id

\* The row that create! inserts; a free plan never has an end date.
NewRow(isFree, initialStatus) ==
    [free |-> isFree, status |-> initialStatus, end |-> NoDay,
     cancelAt |-> FALSE, cancelOn |-> NoDay, warned |-> FALSE,
     pay |-> NoCharge, pre |-> NoCharge]

NoRow == NewRow(FALSE, "none")

----------------------------------------------------------------------------
\* Scopes.  paid_plan is ~free; IsSet is SQL's IS NOT NULL on a date.
IsSet(day) == day # NoDay

Overdue(r, days, today) ==
    /\ ~r.free
    /\ r.status = "active"
    /\ IsSet(r.end)
    /\ r.end + days <= today

overdue_for_notification(r, today) == Overdue(r, WarnAfter, today) /\ ~r.warned
overdue_for_expiration(r, today) == Overdue(r, ExpireAfter, today)

\* The period must end in exactly CycleLead days.
ready_to_cycle(r, method, today) ==
    /\ ~r.free
    /\ r.status = "active"
    /\ ~r.cancelAt
    /\ r.end = today + CycleLead
    /\ method # "credit_card"

cancel_due(r, today) == r.cancelAt /\ IsSet(r.cancelOn) /\ r.cancelOn <= today

scheduled_for_cancellation_due(r, today) ==
    r.status = "active" /\ cancel_due(r, today)

----------------------------------------------------------------------------
\* Updates.  (A definition named ..._mutant is a wrong variant of the one that
\* follows it: no definition uses it, it shows which properties notice it.)

\* The new period starts at the end of the old one.
activate_for_mutant(r, startedAt) ==
    [r EXCEPT !.status = "active",
              !.end = IF r.free THEN NoDay
                      ELSE IF IsSet(r.end) THEN r.end + Period ELSE startedAt + Period,
              !.cancelAt = FALSE,
              !.cancelOn = NoDay,
              !.warned = FALSE]

activate_for(r, startedAt) ==
    [r EXCEPT !.status = "active",
              !.end = IF r.free THEN NoDay ELSE startedAt + Period,
              !.cancelAt = FALSE,
              !.cancelOn = NoDay,
              !.warned = FALSE]

\* Writes the gateway's word for it.
cancel_mutant(r) == [r EXCEPT !.status = "canceled", !.cancelAt = FALSE]

cancel(r) == [r EXCEPT !.status = "cancelled", !.cancelAt = FALSE]

\* Stamps the row without changing its status.
expire_mutant(r) == [r EXCEPT !.warned = TRUE]

expire(r) == [r EXCEPT !.status = "expired"]

to_pending(r) == [r EXCEPT !.status = "pending"]

\* update_all(status: :cancelled, canceled_date: ...): the flags stay.
status_cancelled(r) == [r EXCEPT !.status = "cancelled"]

may_schedule_cancellation(r) == ~r.free /\ r.status = "active" /\ ~r.cancelAt

schedule_cancellation(r, today) ==
    [r EXCEPT !.cancelAt = TRUE,
              !.cancelOn = IF IsSet(r.end) THEN r.end ELSE today]

may_resume_cancellation(r) == r.status = "active" /\ r.cancelAt

resume_cancellation(r) == [r EXCEPT !.cancelAt = FALSE, !.cancelOn = NoDay]

\* update! writes the attributes that differ from the copy the command loaded:
\* the status only if that copy was not cancelled already.
finalize_scheduled_cancellation(r, loaded) ==
    [r EXCEPT !.status = IF loaded.status = "cancelled" THEN @ ELSE "cancelled",
              !.cancelAt = FALSE,
              !.cancelOn = NoDay]
=============================================================================
