---------------------------- MODULE BudgetApproval ----------------------------
(***************************************************************************)
(* One budget (orçamento), the manager's and the customer's requests on    *)
(* it, and the order of service its approval creates.                      *)
(*                                                                         *)
(* A request loads the record (set_budget), checks it in memory and saves  *)
(* it, so it takes two steps, Load and one of the commits; several run at  *)
(* a time.  Active Record writes only the attributes that differ from the  *)
(* loaded copy.  Only the approval locks the row and reads it again.       *)
(***************************************************************************)
EXTENDS Naturals

CONSTANTS Requests,    \* requests served at a time
          MaxOrders,   \* bound on the orders of service created
          MaxEdits     \* bound on the edits of the budget

ASSUME OrdersAssumption == MaxOrders \in Nat
ASSUME EditsAssumption == MaxEdits \in Nat

NoOrder == 0

VARIABLES
    budget,      \* the row of budgets
    orders,      \* the orders of service made from it that still exist
    created,     \* orders made so far, which are their ids
    request,     \* what each request does and the copy it has loaded
    linkSent,    \* the customer holds a link (a signed token, good in any status)
    cooling,     \* less than five minutes since the last approval_sent_at
    edits,
    overwritten  \* history: a request saved a copy that was no longer the row

vars == <<budget, orders, created, request, linkSent, cooling, edits, overwritten>>

Statuses == {"rascunho", "enviado", "aprovado", "rejeitado"}

\* The row: the time stamps by whether they are set, the fields of the form and
\* the items together as a version.
Row == [status: Statuses, approved: BOOLEAN, rejected: BOOLEAN, sent: BOOLEAN,
        content: 0 .. MaxEdits, order: 0 .. MaxOrders]

Draft == [status |-> "rascunho", approved |-> FALSE, rejected |-> FALSE,
          sent |-> FALSE, content |-> 0, order |-> NoOrder]

Operations == {"send", "approve", "customer_approve", "reject", "customer_reject",
               "update"}
Idle == [op |-> "idle", seen |-> Draft]

Init ==
    /\ budget = Draft
    /\ orders = {}
    /\ created = 0
    /\ request = [r \in Requests |-> Idle]
    /\ linkSent = FALSE
    /\ cooling = FALSE
    /\ edits = 0
    /\ overwritten = FALSE

----------------------------------------------------------------------------
editable(b) == b.status \in {"rascunho", "rejeitado"}

\* The conditions and early returns each handler meets on its copy.  approve!
\* takes any status, so a manager's approval always goes on to the command.
\* (A definition named ..._mutant is a wrong variant of the one that follows it.)
Allowed_mutant(op, b) ==         \* reject! takes an approved budget too
    CASE op = "send" -> editable(b) /\ ~(b.sent /\ cooling)
      [] op = "approve" -> TRUE
      [] op = "customer_approve" -> linkSent /\ ~b.approved
      [] op = "reject" -> TRUE
      [] op = "customer_reject" -> linkSent /\ ~b.rejected
      [] op = "update" -> editable(b)

Allowed(op, b) ==
    CASE op = "send" -> editable(b) /\ ~(b.sent /\ cooling)
      [] op = "approve" -> TRUE
      [] op = "customer_approve" -> linkSent /\ ~b.approved
      [] op = "reject" -> b.status # "aprovado"
      [] op = "customer_reject" -> linkSent /\ ~b.rejected /\ b.status # "aprovado"
      [] op = "update" -> editable(b)

Load(r, op) ==
    /\ request[r] = Idle
    /\ Allowed(op, budget)
    /\ request' = [request EXCEPT ![r] = [op |-> op, seen |-> budget]]
    /\ UNCHANGED <<budget, orders, created, linkSent, cooling, edits, overwritten>>

\* The UPDATE of a record loaded as seen and now equal to new: the attributes
\* that differ, and the time stamps that were set to the current time.
Saved(seen, new, stamped) ==
    LET Value(a) == IF a \in stamped \/ new[a] # seen[a] THEN new[a] ELSE budget[a]
    IN  [status |-> Value("status"), approved |-> Value("approved"),
         rejected |-> Value("rejected"), sent |-> Value("sent"),
         content |-> Value("content"), order |-> Value("order")]

\* The request saves and ends.
Save(r, new, stamped) ==
    /\ budget' = Saved(request[r].seen, new, stamped)
    /\ request' = [request EXCEPT ![r] = Idle]
    /\ overwritten' = (overwritten \/ request[r].seen # budget)

send_for_approval_mutant(r) ==   \* forgets the rejection
    /\ request[r].op = "send"
    /\ Save(r, [request[r].seen EXCEPT !.status = "enviado", !.sent = TRUE,
                                       !.approved = FALSE], {"sent"})
    /\ linkSent' = TRUE
    /\ cooling' = TRUE
    /\ UNCHANGED <<orders, created, edits>>

\* send_for_approval!, and the mail with the customer's link.
send_for_approval(r) ==
    /\ request[r].op = "send"
    /\ Save(r, [request[r].seen EXCEPT !.status = "enviado", !.sent = TRUE,
                                       !.approved = FALSE, !.rejected = FALSE], {"sent"})
    /\ linkSent' = TRUE
    /\ cooling' = TRUE
    /\ UNCHANGED <<orders, created, edits>>

reject(r) ==
    /\ request[r].op \in {"reject", "customer_reject"}
    /\ Save(r, [request[r].seen EXCEPT !.status = "rejeitado", !.rejected = TRUE,
                                       !.approved = FALSE], {"rejected"})
    /\ UNCHANGED <<orders, created, linkSent, cooling, edits>>

\* The form; a rejected budget becomes a draft again.
update(r) ==
    LET seen == request[r].seen
        form == [seen EXCEPT !.content = edits + 1]
    IN  /\ request[r].op = "update"
        /\ edits < MaxEdits
        /\ edits' = edits + 1
        /\ Save(r, IF seen.status = "rejeitado"
                     THEN [form EXCEPT !.status = "rascunho", !.rejected = FALSE,
                                       !.approved = FALSE, !.sent = FALSE]
                     ELSE form, {"content"})
        /\ UNCHANGED <<orders, created, linkSent, cooling>>

ApproveAndCreateOrderService_mutant(r) ==    \* trusts the copy, no reload
    /\ request[r].op \in {"approve", "customer_approve"}
    /\ request' = [request EXCEPT ![r] = Idle]
    /\ IF request[r].seen.order # NoOrder
         THEN UNCHANGED <<budget, orders, created>>
         ELSE /\ created < MaxOrders
              /\ created' = created + 1
              /\ orders' = orders \cup {created + 1}
              /\ budget' = [budget EXCEPT !.status = "aprovado", !.approved = TRUE,
                                          !.rejected = FALSE, !.order = created + 1]
    /\ UNCHANGED <<linkSent, cooling, edits, overwritten>>

\* with_lock reads the row again: approved, the order created and linked in one
\* transaction, unless there is an order already.
ApproveAndCreateOrderService(r) ==
    /\ request[r].op \in {"approve", "customer_approve"}
    /\ request' = [request EXCEPT ![r] = Idle]
    /\ IF budget.order # NoOrder
         THEN UNCHANGED <<budget, orders, created>>
         ELSE /\ created < MaxOrders
              /\ created' = created + 1
              /\ orders' = orders \cup {created + 1}
              /\ budget' = [budget EXCEPT !.status = "aprovado", !.approved = TRUE,
                                          !.rejected = FALSE, !.order = created + 1]
    /\ UNCHANGED <<linkSent, cooling, edits, overwritten>>

\* A validation fails (the plan's limit of orders, a form left blank): the
\* transaction is rolled back and the user told.
Refuse(r) ==
    /\ request[r] # Idle
    /\ request' = [request EXCEPT ![r] = Idle]
    /\ UNCHANGED <<budget, orders, created, linkSent, cooling, edits, overwritten>>

\* The order is removed; has_one :budget, dependent: :nullify.
DestroyOrder(o) ==
    /\ o \in orders
    /\ orders' = orders \ {o}
    /\ budget' = [budget EXCEPT !.order = IF @ = o THEN NoOrder ELSE @]
    /\ UNCHANGED <<created, request, linkSent, cooling, edits, overwritten>>

\* Five minutes have passed.
CoolDown ==
    /\ cooling
    /\ cooling' = FALSE
    /\ UNCHANGED <<budget, orders, created, request, linkSent, edits, overwritten>>

Commit(r) == \/ send_for_approval(r) \/ reject(r) \/ update(r)
             \/ ApproveAndCreateOrderService(r) \/ Refuse(r)

Next == \/ \E r \in Requests : (\E op \in Operations : Load(r, op)) \/ Commit(r)
        \/ \E o \in orders : DestroyOrder(o)
        \/ CoolDown

Spec == Init /\ [][Next]_vars

----------------------------------------------------------------------------
(* Properties *)

\* The type of every variable.
TypeOK ==
    /\ budget \in Row
    /\ orders \subseteq 1 .. MaxOrders
    /\ created \in 0 .. MaxOrders
    /\ request \in [Requests -> [op: Operations \cup {"idle"}, seen: Row]]
    /\ linkSent \in BOOLEAN
    /\ cooling \in BOOLEAN
    /\ edits \in 0 .. MaxEdits
    /\ overwritten \in BOOLEAN

\* However approvals, rejections, edits and removals overlap, there is at most
\* one order of service for the budget, and the link and the order agree: no
\* order without its budget, no link to an order that is gone.
OneOrder == orders = IF budget.order = NoOrder THEN {} ELSE {budget.order}

\* An approved budget keeps its status and its content, save from a request that
\* had read it before the approval: reject!, send_for_approval and update check
\* the status in memory only.
ApprovalStands ==
    [][ budget.status = "aprovado" =>
          \/ budget'.status = "aprovado" /\ budget'.content = budget.content
          \/ \E r \in Requests : /\ request[r] # Idle /\ request'[r] = Idle
                                 /\ request[r].seen.status # "aprovado" ]_vars

\* The time stamps tell the decision the status tells, whatever the sequence of
\* decisions, new editions and sendings, until a request saves over a row that
\* is not the one it has loaded.
StampsAgree ==
    ~overwritten => /\ budget.approved <=> budget.status = "aprovado"
                    /\ budget.rejected <=> budget.status = "rejeitado"
                    /\ budget.status = "enviado" => budget.sent

=============================================================================
