------------------------ MODULE BudgetApproval_proofs ------------------------
(***************************************************************************)
(* For any number of requests, orders and edits: the types, that a budget  *)
(* has at most one order of service, that only a request that had read the *)
(* budget before its approval can undo it, and that the time stamps tell   *)
(* the decision until a request saves over a row it has not seen.          *)
(***************************************************************************)
EXTENDS BudgetApproval, TLAPS

\* A request in its second step has passed the checks on its copy.  Unlike
\* Allowed this leaves out what may have changed since (cooling, linkSent).
Checked(op, b) ==
    /\ op \in {"send", "update"} => editable(b)
    /\ op \in {"reject", "customer_reject"} => b.status # "aprovado"

RequestInv == \A r \in Requests : Checked(request[r].op, request[r].seen)

IInv == TypeOK /\ RequestInv /\ OneOrder /\ StampsAgree

----------------------------------------------------------------------------
\* What a partial update leaves in the row is a row.
LEMMA SavedType ==
    ASSUME budget \in Row, NEW seen \in Row, NEW new \in Row, NEW stamped
    PROVE  Saved(seen, new, stamped) \in Row
  BY DEF Saved, Row

\* On an unchanged row a partial update writes the record as it is.
LEMMA SavedIsNew ==
    ASSUME budget \in Row, NEW new \in Row, NEW stamped
    PROVE  Saved(budget, new, stamped) = new
  BY DEF Saved, Row

\* A partial update never touches the link, which no save changes in memory.
LEMMA SavedLink ==
    ASSUME NEW seen, NEW new, NEW stamped,
           new.order = seen.order, "order" \notin stamped
    PROVE  Saved(seen, new, stamped).order = budget.order
  BY DEF Saved

LEMMA InvInit == Init => IInv
<1> SUFFICES ASSUME Init PROVE IInv
  OBVIOUS
<1>1. Draft \in Row /\ Draft.order = NoOrder /\ ~Draft.approved /\ ~Draft.rejected
      /\ Draft.status = "rascunho"
  BY OrdersAssumption, EditsAssumption DEF Draft, Row, Statuses, NoOrder
<1>2. TypeOK
  <2>1. Idle \in [op: Operations \cup {"idle"}, seen: Row]
    BY <1>1 DEF Idle
  <2>2. request \in [Requests -> [op: Operations \cup {"idle"}, seen: Row]]
    BY <2>1 DEF Init
  <2>3. budget \in Row /\ created \in 0 .. MaxOrders /\ edits \in 0 .. MaxEdits
    BY <1>1, OrdersAssumption, EditsAssumption DEF Init
  <2> QED
    BY <2>2, <2>3 DEF Init, TypeOK
<1>3. RequestInv
  BY DEF Init, RequestInv, Checked, Idle
<1>4. OneOrder /\ StampsAgree
  BY <1>1 DEF Init, OneOrder, StampsAgree
<1> QED
  BY <1>2, <1>3, <1>4 DEF IInv

\* A request that saves keeps the types, the link and, on the row it has
\* loaded, whatever its new record says of the stamps.
LEMMA SaveStep ==
    ASSUME IInv, NEW r \in Requests, request[r].op # "idle",
           NEW new \in Row, NEW stamped, Save(r, new, stamped),
           new.order = request[r].seen.order, "order" \notin stamped,
           \/ request[r].seen # budget
           \/ overwritten
           \/ /\ new.approved <=> new.status = "aprovado"
              /\ new.rejected <=> new.status = "rejeitado"
              /\ new.status = "enviado" => new.sent,
           UNCHANGED <<orders, created>>,
           linkSent' \in BOOLEAN, cooling' \in BOOLEAN, edits' \in 0 .. MaxEdits
    PROVE  IInv'
<1> USE DEF IInv
<1>1. request[r].seen \in Row
  BY DEF TypeOK
<1>2. budget' \in Row
  BY <1>1, SavedType DEF Save, TypeOK
<1>3. budget'.order = budget.order
  BY <1>1, SavedLink DEF Save
<1>4. Idle \in [op: Operations \cup {"idle"}, seen: Row] /\ Checked("idle", Draft)
  BY OrdersAssumption, EditsAssumption
     DEF Idle, Draft, Row, Statuses, Checked, NoOrder
<1>5. TypeOK'
  BY <1>2, <1>4 DEF TypeOK, Save
<1>6. RequestInv'
  BY <1>4 DEF RequestInv, Save, TypeOK, Idle
<1>7. OneOrder'
  BY <1>3 DEF OneOrder
<1>8. StampsAgree'
  <2>1. CASE request[r].seen = budget /\ ~overwritten
    <3>1. budget' = new
      BY <2>1, SavedIsNew DEF Save, TypeOK
    <3> QED
      BY <2>1, <3>1 DEF StampsAgree
  <2>2. CASE request[r].seen # budget \/ overwritten
    BY <2>2 DEF StampsAgree, Save
  <2> QED
    BY <2>1, <2>2
<1> QED
  BY <1>5, <1>6, <1>7, <1>8

\* Every step keeps the invariant.  The saves are SaveStep; the approval, which
\* reads the row under its lock, creates an order only where there is none.
LEMMA InvStep == IInv /\ [Next]_vars => IInv'
<1> SUFFICES ASSUME IInv, [Next]_vars PROVE IInv'
  OBVIOUS
<1> USE OrdersAssumption, EditsAssumption DEF IInv
<1>0. Idle \in [op: Operations \cup {"idle"}, seen: Row] /\ Checked("idle", Draft)
  BY DEF Idle, Draft, Row, Statuses, Checked, NoOrder
<1>1. ASSUME NEW r \in Requests, NEW op \in Operations, Load(r, op) PROVE IInv'
  <2>1. Checked(op, budget)
    BY <1>1 DEF Load, Allowed, Checked, Operations
  <2>2. TypeOK'
    BY <1>1 DEF Load, TypeOK
  <2>3. RequestInv'
    BY <1>1, <2>1 DEF Load, RequestInv, TypeOK
  <2> QED
    BY <1>1, <2>2, <2>3 DEF Load, OneOrder, StampsAgree
<1>2. ASSUME NEW r \in Requests, send_for_approval(r) PROVE IInv'
  <2> DEFINE new == [request[r].seen EXCEPT !.status = "enviado", !.sent = TRUE,
                                     !.approved = FALSE, !.rejected = FALSE]
  <2>1. request[r].seen \in Row
    BY DEF TypeOK
  <2>2. /\ new \in Row
        /\ new.order = request[r].seen.order
        /\ new.approved <=> new.status = "aprovado"
        /\ new.rejected <=> new.status = "rejeitado"
        /\ new.status = "enviado" => new.sent
    BY <2>1 DEF Row, Statuses
  <2>3. /\ Save(r, new, {"sent"})
        /\ request[r].op # "idle"
        /\ UNCHANGED <<orders, created>>
        /\ linkSent' \in BOOLEAN /\ cooling' \in BOOLEAN /\ edits' \in 0 .. MaxEdits
    BY <1>2 DEF send_for_approval, TypeOK
  <2> HIDE DEF new
  <2> QED
    BY <2>2, <2>3, SaveStep
<1>3. ASSUME NEW r \in Requests, reject(r) PROVE IInv'
  <2> DEFINE new == [request[r].seen EXCEPT !.status = "rejeitado",
                                     !.rejected = TRUE, !.approved = FALSE]
  <2>1. request[r].seen \in Row
    BY DEF TypeOK
  <2>2. /\ new \in Row
        /\ new.order = request[r].seen.order
        /\ new.approved <=> new.status = "aprovado"
        /\ new.rejected <=> new.status = "rejeitado"
        /\ new.status = "enviado" => new.sent
    BY <2>1 DEF Row, Statuses
  <2>3. /\ Save(r, new, {"rejected"})
        /\ request[r].op # "idle"
        /\ UNCHANGED <<orders, created>>
        /\ linkSent' \in BOOLEAN /\ cooling' \in BOOLEAN /\ edits' \in 0 .. MaxEdits
    BY <1>3 DEF reject, TypeOK
  <2> HIDE DEF new
  <2> QED
    BY <2>2, <2>3, SaveStep
<1>4. ASSUME NEW r \in Requests, update(r) PROVE IInv'
  <2> DEFINE seen == request[r].seen
             form == [seen EXCEPT !.content = edits + 1]
             new == IF seen.status = "rejeitado"
                      THEN [form EXCEPT !.status = "rascunho", !.rejected = FALSE,
                                        !.approved = FALSE, !.sent = FALSE]
                      ELSE form
  <2>1. seen \in Row /\ edits + 1 \in 0 .. MaxEdits
    BY <1>4 DEF TypeOK, update
  <2>2. form \in Row /\ new \in Row /\ new.order = seen.order
    BY <2>1 DEF Row, Statuses
  <2>3. /\ Save(r, new, {"content"})
        /\ request[r].op # "idle"
        /\ UNCHANGED <<orders, created>>
        /\ linkSent' \in BOOLEAN /\ cooling' \in BOOLEAN /\ edits' \in 0 .. MaxEdits
    BY <1>4, <2>1 DEF update, TypeOK
  <2>4. \/ seen # budget
        \/ overwritten
        \/ /\ new.approved <=> new.status = "aprovado"
           /\ new.rejected <=> new.status = "rejeitado"
           /\ new.status = "enviado" => new.sent
    <3>1. editable(seen)
      BY <1>4 DEF update, RequestInv, Checked
    <3> SUFFICES ASSUME seen = budget, ~overwritten
                 PROVE /\ new.approved <=> new.status = "aprovado"
                       /\ new.rejected <=> new.status = "rejeitado"
                       /\ new.status = "enviado" => new.sent
      OBVIOUS
    <3>2. CASE seen.status = "rejeitado"
      BY <2>1, <3>2 DEF Row
    <3>3. CASE seen.status # "rejeitado"
      BY <2>1, <3>1, <3>3 DEF Row, editable, StampsAgree
    <3> QED
      BY <3>2, <3>3
  <2> HIDE DEF seen, form, new
  <2>5. IInv /\ request[r].seen = seen
    BY DEF seen
  <2> QED
    BY <2>2, <2>3, <2>4, <2>5, SaveStep
<1>5. ASSUME NEW r \in Requests, ApproveAndCreateOrderService(r) PROVE IInv'
  <2>1. RequestInv'
    BY <1>5, <1>0 DEF ApproveAndCreateOrderService, RequestInv, TypeOK, Idle
  <2>2. CASE budget.order # NoOrder
    BY <1>5, <1>0, <2>1, <2>2
       DEF ApproveAndCreateOrderService, TypeOK, OneOrder, StampsAgree
  <2>3. CASE budget.order = NoOrder
    <3>1. /\ created + 1 \in 1 .. MaxOrders
          /\ created' = created + 1
          /\ orders' = orders \cup {created + 1}
          /\ budget' = [budget EXCEPT !.status = "aprovado", !.approved = TRUE,
                                      !.rejected = FALSE, !.order = created + 1]
      BY <1>5, <2>3 DEF ApproveAndCreateOrderService, TypeOK
    <3>2. /\ budget' \in Row /\ budget'.order = created + 1
          /\ budget'.status = "aprovado" /\ budget'.approved /\ ~budget'.rejected
      <4>1. budget \in Row /\ created + 1 \in 0 .. MaxOrders
        BY <3>1 DEF TypeOK
      <4>2. budget' \in Row
        BY <3>1, <4>1 DEF Row, Statuses
      <4> QED
        BY <3>1, <4>1, <4>2 DEF Row
    <3>3. TypeOK'
      BY <1>5, <1>0, <3>1, <3>2 DEF ApproveAndCreateOrderService, TypeOK
    <3>4. OneOrder'
      BY <2>3, <3>1, <3>2 DEF OneOrder, NoOrder
    <3> QED
      BY <2>1, <3>2, <3>3, <3>4 DEF StampsAgree
  <2> QED
    BY <2>2, <2>3
<1>6. ASSUME NEW r \in Requests, Refuse(r) PROVE IInv'
  BY <1>6, <1>0 DEF Refuse, TypeOK, RequestInv, OneOrder, StampsAgree, Idle
<1>7. ASSUME NEW o \in orders, DestroyOrder(o) PROVE IInv'
  <2>1. budget' \in Row /\ budget'.order = NoOrder /\ orders' = {}
    BY <1>7 DEF DestroyOrder, TypeOK, Row, OneOrder, NoOrder
  <2>2. /\ budget'.status = budget.status /\ budget'.approved = budget.approved
        /\ budget'.rejected = budget.rejected /\ budget'.sent = budget.sent
    BY <1>7 DEF DestroyOrder, TypeOK, Row
  <2> QED
    BY <1>7, <2>1, <2>2 DEF DestroyOrder, TypeOK, RequestInv, OneOrder, StampsAgree
<1>8. CASE CoolDown
  BY <1>8 DEF CoolDown, TypeOK, RequestInv, OneOrder, StampsAgree
<1>9. CASE UNCHANGED vars
  BY <1>9 DEF vars, TypeOK, RequestInv, OneOrder, StampsAgree
<1> QED
  BY <1>1, <1>2, <1>3, <1>4, <1>5, <1>6, <1>7, <1>8, <1>9 DEF Next, Commit

LEMMA Invariants == Spec => []IInv
  BY InvInit, InvStep, PTL DEF Spec

----------------------------------------------------------------------------
\* Every reachable state has the declared types.
THEOREM TypeCorrect == Spec => []TypeOK
  BY Invariants, PTL DEF IInv

\* At most one order of service per budget, and the link agrees with it.
THEOREM OneOrderHolds == Spec => []OneOrder
  BY Invariants, PTL DEF IInv

\* Without an overlapping save the stamps tell the decision.
THEOREM StampsAgreeHolds == Spec => []StampsAgree
  BY Invariants, PTL DEF IInv

----------------------------------------------------------------------------
\* What a step may do to an approved budget.
Stands ==
    budget.status = "aprovado" =>
        \/ budget'.status = "aprovado" /\ budget'.content = budget.content
        \/ \E r \in Requests : /\ request[r] # Idle /\ request'[r] = Idle
                               /\ request[r].seen.status # "aprovado"

\* The operations that save have all checked that their copy was not approved.
LEMMA StandsStep == IInv /\ [Next]_vars => Stands
<1> SUFFICES ASSUME IInv, [Next]_vars, budget.status = "aprovado"
             PROVE \/ budget'.status = "aprovado" /\ budget'.content = budget.content
                   \/ \E r \in Requests : /\ request[r] # Idle /\ request'[r] = Idle
                                          /\ request[r].seen.status # "aprovado"
  BY DEF Stands
<1> USE DEF IInv
<1>1. ASSUME NEW r \in Requests, send_for_approval(r) \/ reject(r) \/ update(r)
      PROVE  \E q \in Requests : /\ request[q] # Idle /\ request'[q] = Idle
                                 /\ request[q].seen.status # "aprovado"
  <2>1. request[r] # Idle /\ request'[r] = Idle
    BY <1>1 DEF send_for_approval, reject, update, Save, Idle, TypeOK
  <2>2. request[r].seen.status # "aprovado"
    BY <1>1 DEF send_for_approval, reject, update, RequestInv, Checked, editable
  <2> QED
    BY <2>1, <2>2
<1>2. ASSUME NEW r \in Requests, ApproveAndCreateOrderService(r)
      PROVE  budget'.status = "aprovado" /\ budget'.content = budget.content
  <2>1. CASE budget.order # NoOrder
    BY <1>2, <2>1 DEF ApproveAndCreateOrderService
  <2>2. CASE budget.order = NoOrder
    BY <1>2, <2>2 DEF ApproveAndCreateOrderService, TypeOK, Row
  <2> QED
    BY <2>1, <2>2
<1>3. ASSUME NEW o \in orders, DestroyOrder(o)
      PROVE  budget'.status = "aprovado" /\ budget'.content = budget.content
  BY <1>3 DEF DestroyOrder, TypeOK, Row
<1>4. ASSUME \/ \E r \in Requests : (\E op \in Operations : Load(r, op)) \/ Refuse(r)
             \/ CoolDown
             \/ UNCHANGED vars
      PROVE  budget' = budget
  BY <1>4 DEF Load, Refuse, CoolDown, vars
<1> QED
  BY <1>1, <1>2, <1>3, <1>4 DEF Next, Commit

\* An approval is undone, or its content changed, only by a request that had
\* read the budget before it.
THEOREM ApprovalStandsHolds == Spec => ApprovalStands
<1>1. IInv /\ [Next]_vars => [Stands]_vars
  BY StandsStep
<1> QED
  BY <1>1, Invariants, PTL DEF Spec, ApprovalStands, Stands

=============================================================================
