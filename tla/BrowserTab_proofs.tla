-------------------------- MODULE BrowserTab_proofs --------------------------
(***************************************************************************)
(* What the pages show is right, for any data, any number of rows, timers, *)
(* lookups, card forms and page loads, and any order of the answers: the   *)
(* five safety invariants of BrowserTab.                                   *)
(***************************************************************************)
EXTENDS BrowserTab, SequenceTheorems, TLAPS

\* Each page is a record with fields of its own.
ChecklistFields ==
    {"kind", "shown", "summary", "detailsExpanded", "details", "error", "answers"}
CalendarFields ==
    {"kind", "fullCalendar", "wrapperRevealed", "techniciansLoaded", "options", "enabled", "selection",
     "selectedTechnicianIdsState", "query", "shown", "listLoads", "failed", "overlapped"}
BudgetFormFields == {"kind", "rows", "total", "timers", "loaded", "recalculated"}
CompanyStepFields ==
    {"kind", "onStep", "focus", "field", "address", "lookups", "asked", "disordered"}
PlanStepFields ==
    {"kind", "sdk", "accept_terms", "termsError", "onPlan", "plan", "method", "ccForm",
     "cardForms", "cardFormInstance", "token", "cardNames", "post"}

IsPage(p, kind, fields) == p.kind = kind /\ p = [f \in fields |-> p[f]]

IsChecklist(p) == IsPage(p, "checklist", ChecklistFields)
IsCalendar(p) == IsPage(p, "calendar", CalendarFields)
IsBudgetForm(p) == IsPage(p, "budget_form", BudgetFormFields)
IsCompanyStep(p) == IsPage(p, "signup_company", CompanyStepFields)
IsPlanStep(p) == IsPage(p, "signup_plan", PlanStepFields)

\* Until the list has come nobody is selected.  While no two requests for it overlap
\* none is on its way once the list has come, the selection is the one the script
\* knows, and so is that of the query awaited or, if it did not fail, answered.
CalendarInv(p) ==
    /\ IsCalendar(p)
    /\ p.listLoads \in Nat
    /\ p.techniciansLoaded \in BOOLEAN /\ p.failed \in BOOLEAN /\ p.overlapped \in BOOLEAN
    /\ p.options = "technicians" => p.techniciansLoaded
    /\ ~p.techniciansLoaded => p.selection = {} /\ p.selectedTechnicianIdsState = {}
    /\ ~p.overlapped =>
         /\ p.listLoads <= 1
         /\ p.techniciansLoaded => p.listLoads = 0
         /\ p.selection = p.selectedTechnicianIdsState
         /\ p.query.pending => p.query.ids = p.selectedTechnicianIdsState
         /\ ~p.query.pending /\ ~p.failed /\ p.fullCalendar =>
              LET ids == p.selectedTechnicianIdsState
              IN  p.shown = buildCalendarEvents(events(ids), ids)

Row == [quantity : Nat, cents : Nat, masked : BOOLEAN, saved : BOOLEAN,
        destroy : {"none", "false", "true", "1"}]

\* The rows of a form, by their indices.
IsRows(rows) == rows \in [DOMAIN rows -> Row]

PricesRead(rows) == [i \in DOMAIN rows |-> parseMoneyMasked(rows[i])]

\* After the load event every price is masked, and with no timer pending the total
\* is that of the prices the page reads, if it was computed since.
BudgetFormInv(p) ==
    /\ IsBudgetForm(p)
    /\ IsRows(p.rows) /\ p.timers \in Nat
    /\ p.loaded \in BOOLEAN /\ p.recalculated \in BOOLEAN
    /\ p.recalculated => p.loaded
    /\ p.loaded => \A i \in DOMAIN p.rows : p.rows[i].masked
    /\ p.timers = 0 /\ p.recalculated => p.total = SumOf(p.rows, PricesRead(p.rows), Counted)

FieldState == [value : UNION {Values(f) : f \in Fields}, error : BOOLEAN, checked : BOOLEAN]

\* A field that does not have the focus shows the error of what it holds; the last
\* lookup on its way is the one asked last, while none is missing or overtaken.
CompanyStepInv(p) ==
    /\ IsCompanyStep(p)
    /\ p.field \in [Fields -> FieldState]
    /\ \A f \in Fields : p.focus # f /\ p.field[f].checked
                           => p.field[f].error = ~Valid(f, p.field[f].value)
    /\ p.lookups \in Seq(CEPS)
    /\ p.disordered \in BOOLEAN
    /\ ~p.disordered => IF p.lookups = <<>> THEN p.address = p.asked
                        ELSE p.lookups[Len(p.lookups)] = p.asked

\* With the SDK the card is checked only with a paid plan, its form shown, and a
\* card form on the page.
PlanStepInv(p) ==
    /\ IsPlanStep(p)
    /\ p.cardForms \in Nat
    /\ p.cardFormInstance => p.cardForms > 0
    /\ p.sdk /\ p.method = "credit_card" => p.plan = "paid" /\ p.ccForm /\ p.cardForms > 0
    /\ p.sdk /\ p.post.method = "credit_card" => p.post.token /\ ~p.post.names

PageInv ==
    \/ IsChecklist(page)
    \/ CalendarInv(page)
    \/ BudgetFormInv(page)
    \/ CompanyStepInv(page)
    \/ PlanStepInv(page)

----------------------------------------------------------------------------
(* The pages as they are drawn *)

LEMMA NewChecklistOK == IsChecklist(NewChecklist)
  BY DEF IsChecklist, IsPage, ChecklistFields, NewChecklist

LEMMA NewCalendarOK ==
    ASSUME NEW fullCalendar \in BOOLEAN PROVE CalendarInv(NewCalendar(fullCalendar))
<1> SUFFICES ASSUME NEW p, p = NewCalendar(fullCalendar) PROVE CalendarInv(p)
  OBVIOUS
<1>1. IsCalendar(p)
  BY DEF IsCalendar, IsPage, CalendarFields, NewCalendar
<1>2. /\ p.listLoads \in Nat /\ p.listLoads <= 1 /\ p.listLoads = 0
      /\ p.options # "technicians"
      /\ p.selection = {} /\ p.selectedTechnicianIdsState = {} /\ p.query.ids = {}
  BY DEF NewCalendar
<1>3. p.techniciansLoaded = FALSE /\ p.failed = FALSE /\ p.overlapped = FALSE
  BY DEF NewCalendar
<1>4. p.techniciansLoaded \in BOOLEAN /\ p.failed \in BOOLEAN /\ p.overlapped \in BOOLEAN
  BY <1>3
<1>5. p.query.pending \/ ~p.fullCalendar
  <2>1. p.query.pending = fullCalendar /\ p.fullCalendar = fullCalendar
    BY DEF NewCalendar
  <2> QED
    BY <2>1
<1> QED
  BY <1>1, <1>2, <1>3, <1>4, <1>5 DEF CalendarInv

LEMMA NewCompanyStepOK == CompanyStepInv(NewCompanyStep)
<1> SUFFICES ASSUME NEW p, p = NewCompanyStep PROVE CompanyStepInv(p)
  OBVIOUS
<1>1. IsCompanyStep(p)
  BY DEF IsCompanyStep, IsPage, CompanyStepFields, NewCompanyStep
<1>2. /\ p.field \in [Fields -> FieldState]
      /\ \A f \in Fields : ~p.field[f].checked
  <2>1. "invalid" \in UNION {Values(f) : f \in Fields}
    BY DEF Values, Fields
  <2> QED
    BY <2>1 DEF NewCompanyStep, FieldState
<1>3. p.lookups = <<>> /\ p.disordered = FALSE /\ p.address = p.asked
  BY DEF NewCompanyStep
<1>4. p.lookups \in Seq(CEPS) /\ p.disordered \in BOOLEAN
  <2>1. <<>> \in Seq(CEPS)
    OBVIOUS
  <2> QED
    BY <1>3, <2>1
<1>5. IF p.lookups = <<>> THEN p.address = p.asked
      ELSE p.lookups[Len(p.lookups)] = p.asked
  BY <1>3
<1> QED
  BY <1>1, <1>2, <1>4, <1>5 DEF CompanyStepInv

LEMMA NewPlanStepOK ==
    ASSUME NEW sdk, NEW plan, NEW accepted
    PROVE  PlanStepInv(NewPlanStep(sdk, plan, accepted))
  BY DEF PlanStepInv, IsPlanStep, IsPage, PlanStepFields, NewPlanStep, NoPost

\* calculateBudgetTotal writes the total of the rows as the page reads them.
LEMMA Calculated ==
    ASSUME NEW p, IsBudgetForm(p)
    PROVE  LET q == calculateBudgetTotal(p)
           IN  /\ IsBudgetForm(q)
               /\ q.rows = p.rows /\ q.timers = p.timers /\ q.loaded = p.loaded
               /\ q.recalculated = p.loaded
               /\ q.total = SumOf(p.rows, PricesRead(p.rows), Counted)
<1>1. calculateBudgetTotal(p) =
        [p EXCEPT !.total = SumOf(p.rows, PricesRead(p.rows), Counted), !.recalculated = p.loaded]
  BY DEF calculateBudgetTotal, PricesRead
<1> QED
  BY <1>1 DEF IsBudgetForm, IsPage, BudgetFormFields

LEMMA NewBudgetFormOK ==
    ASSUME NEW rows, IsRows(rows)
    PROVE  BudgetFormInv(NewBudgetForm(rows))
<1> DEFINE p == [kind |-> "budget_form", rows |-> rows, total |-> 0, timers |-> 0,
                 loaded |-> FALSE, recalculated |-> FALSE]
<1>1. /\ IsBudgetForm(p)
      /\ p.rows = rows /\ p.timers = 0 /\ p.loaded = FALSE
  BY DEF IsBudgetForm, IsPage, BudgetFormFields
<1>2. NewBudgetForm(rows) = calculateBudgetTotal(p)
  BY DEF NewBudgetForm
<1> HIDE DEF p
<1>3. PICK q :
      /\ q = calculateBudgetTotal(p) /\ IsBudgetForm(q)
      /\ q.rows = rows /\ q.timers = 0 /\ q.loaded = FALSE /\ q.recalculated = FALSE
  BY <1>1, Calculated
<1>4. IsRows(q.rows) /\ q.timers \in Nat
  BY <1>3
<1>5. ~q.loaded /\ ~q.recalculated /\ q.loaded \in BOOLEAN /\ q.recalculated \in BOOLEAN
  BY <1>3
<1>6. BudgetFormInv(q)
  BY <1>3, <1>4, <1>5 DEF BudgetFormInv
<1> QED
  BY <1>2, <1>3, <1>6

LEMMA OneRowOK == ASSUME NEW row \in Row PROVE IsRows(OneRow(row))
  BY DEF OneRow, IsRows

LEMMA EmptyRowOK ==
    ASSUME NEW destroy \in {"none", "false"}
    PROVE  EmptyRow(destroy) \in Row /\ EmptyRow(destroy).masked
  BY DEF EmptyRow, Row

\* Every page that is opened first, and every page opened after it.
LEMMA NewPagesInv == page \in NewPages => PageInv
<1> SUFFICES ASSUME page \in NewPages PROVE PageInv
  OBVIOUS
<1>1. ASSUME NEW q \in QUANTITIES, NEW c \in PRICES PROVE SavedRow(q, c) \in Row
  BY PriceAssumption DEF SavedRow, Row
<1>2. CASE page \in {NewChecklist, NewCompanyStep}
  BY <1>2, NewChecklistOK, NewCompanyStepOK DEF PageInv
<1>3. CASE page \in {NewCalendar(fullCalendar) : fullCalendar \in BOOLEAN}
  <2>1. PICK fullCalendar \in BOOLEAN : page = NewCalendar(fullCalendar)
    BY <1>3
  <2> QED
    BY <2>1, NewCalendarOK DEF PageInv
<1>4. CASE page = NewBudgetForm(OneRow(EmptyRow("false")))
  BY <1>4, EmptyRowOK, OneRowOK, NewBudgetFormOK DEF PageInv
<1>5. CASE page \in SavedBudgetForms
  <2>1. PICK q \in QUANTITIES, c \in PRICES : page = NewBudgetForm(OneRow(SavedRow(q, c)))
    BY <1>5 DEF SavedBudgetForms
  <2> QED
    BY <1>1, <2>1, OneRowOK, NewBudgetFormOK DEF PageInv
<1>6. CASE page \in {NewPlanStep(sdk, "none", FALSE) : sdk \in BOOLEAN}
  <2>1. PICK sdk \in BOOLEAN : page = NewPlanStep(sdk, "none", FALSE)
    BY <1>6
  <2> QED
    BY <2>1, NewPlanStepOK DEF PageInv
<1> QED
  BY <1>2, <1>3, <1>4, <1>5, <1>6 DEF NewPages

LEMMA NewPagesOK == (page \in NewPages)' => PageInv'
  BY NewPagesInv, PTL

----------------------------------------------------------------------------
(* The checklist *)

LEMMA ChecklistStep ==
    ASSUME IsChecklist(page), ChecklistNext PROVE IsChecklist(page)'
<1> USE DEF IsChecklist, IsPage, ChecklistFields
<1>1. CASE refresh
  BY <1>1 DEF refresh
<1>2. ASSUME NEW i, Answered(i) PROVE IsChecklist(page)'
  <2>1. CASE ReadProgress(i)
    BY <2>1 DEF ReadProgress
  <2>2. CASE renderPayload(i)
    BY <2>2 DEF renderPayload
  <2>3. CASE showError(i)
    BY <2>3 DEF showError
  <2> QED
    BY <1>2, <2>1, <2>2, <2>3 DEF Answered
<1>3. ASSUME NEW i, FailProgress(i) PROVE IsChecklist(page)'
  BY <1>3 DEF FailProgress
<1>4. CASE toggleDetails
  BY <1>4 DEF toggleDetails
<1>5. CASE CompleteStep
  BY <1>5 DEF CompleteStep
<1> QED
  BY <1>1, <1>2, <1>3, <1>4, <1>5 DEF ChecklistNext, ChecklistScript

----------------------------------------------------------------------------
(* The calendar *)

LEMMA CalendarStep ==
    ASSUME CalendarInv(page), CalendarNext PROVE CalendarInv(page)'
<1> USE DEF IsCalendar, IsPage, CalendarFields
<1>0. /\ IsCalendar(page)
      /\ page.listLoads \in Nat
      /\ page.techniciansLoaded \in BOOLEAN
      /\ page.failed \in BOOLEAN /\ page.overlapped \in BOOLEAN
  BY DEF CalendarInv
<1>1. ASSUME NEW ok \in BOOLEAN, EventsAnswered(ok) PROVE CalendarInv(page)'
  <2> DEFINE ids == page.query.ids
             entries == IF ok THEN buildCalendarEvents(events(ids), ids) ELSE page.shown
  <2>1. page.query.pending
    BY <1>1 DEF EventsAnswered
  <2>2. ~page.overlapped /\ ok =>
          LET s == page.selectedTechnicianIdsState
          IN  entries = buildCalendarEvents(events(s), s)
    BY <2>1 DEF CalendarInv
  <2>3. PICK q :
          /\ q = [page EXCEPT !.shown = entries, !.query = NoQuery, !.failed = ~ok,
                              !.wrapperRevealed = TRUE]
          /\ page' = IF page.techniciansLoaded THEN q ELSE loadTechnicians(q)
    <3>1. [[page EXCEPT !.shown = entries, !.query = NoQuery, !.failed = ~ok]
             EXCEPT !.wrapperRevealed = TRUE]
          = [page EXCEPT !.shown = entries, !.query = NoQuery, !.failed = ~ok,
                         !.wrapperRevealed = TRUE]
      BY <1>0
    <3>2. [page EXCEPT !.shown = IF ok THEN buildCalendarEvents(events(ids), ids) ELSE @,
                       !.query = NoQuery, !.failed = ~ok]
          = [page EXCEPT !.shown = entries, !.query = NoQuery, !.failed = ~ok]
      OBVIOUS
    <3> QED
      BY <1>1, <3>1, <3>2 DEF EventsAnswered, loading
  <2> HIDE DEF entries
  <2>4. /\ IsCalendar(q)
        /\ q.shown = entries /\ q.query = NoQuery /\ q.failed = ~ok
        /\ q.techniciansLoaded = page.techniciansLoaded /\ q.options = page.options
        /\ q.selection = page.selection /\ q.listLoads = page.listLoads
        /\ q.selectedTechnicianIdsState = page.selectedTechnicianIdsState
        /\ q.overlapped = page.overlapped
    BY <1>0, <2>3
  <2>5. CASE page.techniciansLoaded
    <3>1. page' = q
      BY <2>3, <2>5
    <3>2. ~page'.overlapped => ~page.overlapped /\ page.listLoads = 0
      BY <2>4, <2>5, <3>1 DEF CalendarInv
    <3>3. ~page'.overlapped /\ ~page'.failed =>
            LET s == page'.selectedTechnicianIdsState
            IN  page'.shown = buildCalendarEvents(events(s), s)
      BY <2>2, <2>4, <3>1, <3>2
    <3>4. ~page'.overlapped =>
            page'.selection = page'.selectedTechnicianIdsState /\ ~page'.query.pending
      BY <2>4, <3>1, <3>2 DEF CalendarInv, NoQuery
    <3> QED
      BY <2>4, <2>5, <3>1, <3>2, <3>3, <3>4 DEF CalendarInv
  <2>6. CASE ~page.techniciansLoaded
    <3>1. page' = [q EXCEPT !.options = "loading", !.enabled = FALSE, !.selection = {},
                            !.listLoads = page.listLoads + 1,
                            !.overlapped = page.overlapped \/ page.listLoads > 0]
      BY <2>3, <2>4, <2>6 DEF loadTechnicians
    <3>2. /\ IsCalendar(page')
          /\ page'.shown = entries /\ page'.query = NoQuery /\ page'.failed = ~ok
          /\ page'.techniciansLoaded = page.techniciansLoaded /\ page'.options = "loading"
          /\ page'.selection = {} /\ page'.listLoads = page.listLoads + 1
          /\ page'.selectedTechnicianIdsState = page.selectedTechnicianIdsState
          /\ page'.overlapped = (page.overlapped \/ page.listLoads > 0)
      BY <2>4, <3>1
    <3>3. ~page'.overlapped => ~page.overlapped /\ page.listLoads = 0
      <4>1. ~page'.overlapped => ~page.overlapped /\ ~(page.listLoads > 0)
        BY <3>2, Zenon
      <4> QED
        BY <1>0, <4>1
    <3>4. page.selectedTechnicianIdsState = {} /\ page.listLoads \in Nat
      BY <2>6 DEF CalendarInv
    <3>5. ~page'.query.pending
      BY <3>2 DEF NoQuery
    <3>6. ~page'.overlapped /\ ~page'.failed =>
            LET s == page'.selectedTechnicianIdsState
            IN  page'.shown = buildCalendarEvents(events(s), s)
      BY <2>2, <3>2, <3>3
    <3> QED
      BY <2>6, <3>2, <3>3, <3>4, <3>5, <3>6 DEF CalendarInv
  <2> QED
    BY <2>5, <2>6
<1>2. ASSUME NEW ok \in BOOLEAN, TechniciansAnswered(ok) PROVE CalendarInv(page)'
  <2>1. /\ IsCalendar(page')
        /\ page'.shown = page.shown /\ page'.query = page.query
        /\ page'.failed = page.failed /\ page'.overlapped = page.overlapped
        /\ page'.fullCalendar = page.fullCalendar
        /\ page'.selection = {} /\ page'.listLoads = page.listLoads - 1
        /\ page'.selectedTechnicianIdsState =
             IF ok THEN {} ELSE page.selectedTechnicianIdsState
        /\ page'.techniciansLoaded = IF ok THEN TRUE ELSE page.techniciansLoaded
        /\ page'.options = IF ok THEN "technicians" ELSE "failed"
    BY <1>0, <1>2 DEF TechniciansAnswered, syncSelectedTechnicianIds
  <2>2. page.listLoads > 0
    BY <1>2 DEF TechniciansAnswered
  <2>3. ~page.overlapped => ~page.techniciansLoaded /\ page.listLoads = 1
                            /\ page.selectedTechnicianIdsState = {}
    BY <2>2 DEF CalendarInv
  <2>4. ~page'.overlapped =>
          page'.listLoads = 0 /\ page'.selectedTechnicianIdsState = {}
          /\ page.selectedTechnicianIdsState = {}
    BY <2>1, <2>3
  <2>5. ~page'.overlapped /\ page'.query.pending => page'.query.ids = {}
    BY <2>1, <2>4 DEF CalendarInv
  <2>6. ~page'.overlapped /\ ~page'.query.pending /\ ~page'.failed /\ page'.fullCalendar =>
          page'.shown = buildCalendarEvents(events({}), {})
    BY <2>1, <2>4 DEF CalendarInv
  <2>7. /\ page'.listLoads \in Nat /\ page'.selection = {}
        /\ page'.options = "technicians" => page'.techniciansLoaded
        /\ ~page'.techniciansLoaded => page'.selectedTechnicianIdsState = {}
        /\ page'.techniciansLoaded \in BOOLEAN
        /\ page'.failed \in BOOLEAN /\ page'.overlapped \in BOOLEAN
    <3>1. ~page.techniciansLoaded => page.selectedTechnicianIdsState = {}
      BY DEF CalendarInv
    <3>2. page'.listLoads \in Nat
      BY <1>0, <2>1, <2>2
    <3>3. /\ page'.selection = {}
          /\ page'.options = "technicians" => page'.techniciansLoaded
          /\ ~page'.techniciansLoaded => page'.selectedTechnicianIdsState = {}
      <4>1. CASE ok
        BY <2>1, <4>1
      <4>2. CASE ~ok
        BY <2>1, <3>1, <4>2
      <4> QED
        BY <4>1, <4>2
    <3>4. /\ page'.techniciansLoaded \in BOOLEAN
          /\ page'.failed \in BOOLEAN /\ page'.overlapped \in BOOLEAN
      BY <1>0, <2>1
    <3> QED
      BY <3>2, <3>3, <3>4
  <2>8. IsCalendar(page')
    BY <2>1
  <2> QED
    BY <2>4, <2>5, <2>6, <2>7, <2>8 DEF CalendarInv
<1>3. CASE Navigate
  <2>1. page' = [page EXCEPT !.query = [pending |-> TRUE,
                                        ids |-> page.selectedTechnicianIdsState]]
    BY <1>3 DEF Navigate, fetchCalendarEvents
  <2> QED
    BY <2>1 DEF CalendarInv
<1>4. ASSUME NEW t, SelectTechnician(t) PROVE CalendarInv(page)'
  <2>1. PICK chosen :
          page' = reloadEvents([page EXCEPT !.selection = chosen,
                                            !.overlapped = @ /\ page.listLoads > 0])
    BY <1>4 DEF SelectTechnician
  <2>2. /\ IsCalendar(page')
        /\ page'.selection = chosen /\ page'.selectedTechnicianIdsState = chosen
        /\ page'.query.pending /\ page'.query.ids = chosen
        /\ page'.techniciansLoaded = page.techniciansLoaded
        /\ page'.options = page.options /\ page'.listLoads = page.listLoads
        /\ page'.failed = page.failed
        /\ page'.overlapped = (page.overlapped /\ page.listLoads > 0)
    BY <1>0, <2>1 DEF reloadEvents, fetchCalendarEvents, syncSelectedTechnicianIds
  <2>3. page.options = "technicians"
    BY <1>4 DEF SelectTechnician
  <2> QED
    BY <2>2, <2>3 DEF CalendarInv
<1> QED
  BY <1>1, <1>2, <1>3, <1>4 DEF CalendarNext, CalendarScript

----------------------------------------------------------------------------
(* The form of a budget *)

\* The changes of one row.
LEMMA RowChanged ==
    ASSUME NEW r \in Row, NEW n \in Nat
    PROVE  /\ maskCurrencyInput(r) \in Row /\ maskCurrencyInput(r).masked
           /\ [r EXCEPT !.quantity = n] \in Row /\ [r EXCEPT !.quantity = n].masked = r.masked
           /\ [r EXCEPT !.cents = n] \in Row
           /\ [r EXCEPT !.destroy = "1"] \in Row /\ [r EXCEPT !.destroy = "1"].masked = r.masked
           /\ Redrawn(r) \in Row
  BY DEF maskCurrencyInput, Redrawn, Kept, Row

Masked(rows) == \A i \in DOMAIN rows : rows[i].masked

\* A step that schedules leaves timers pending: it may change the rows, but leaves
\* masks on, and it computes a total nobody needs to look at.
LEMMA Scheduled ==
    ASSUME BudgetFormInv(page), NEW p, IsBudgetForm(p), p.timers = page.timers + 2,
           p.loaded = page.loaded, p.recalculated = page.loaded,
           IsRows(p.rows), Masked(page.rows) => Masked(p.rows)
    PROVE  BudgetFormInv(p)
<1>1. /\ page.timers \in Nat /\ page.loaded \in BOOLEAN
      /\ page.loaded => Masked(page.rows)
  BY DEF BudgetFormInv, Masked
<1>2. p.timers \in Nat /\ p.timers # 0
  BY <1>1
<1>3. p.loaded \in BOOLEAN /\ p.recalculated \in BOOLEAN /\ (p.recalculated => p.loaded)
  BY <1>1
<1>4. p.loaded => \A i \in DOMAIN p.rows : p.rows[i].masked
  BY <1>1 DEF Masked
<1> QED
  BY <1>2, <1>3, <1>4 DEF BudgetFormInv

\* scheduleBudgetTotalCalculation of a form with other rows.
LEMMA ScheduledForm ==
    ASSUME NEW p, IsBudgetForm(p)
    PROVE  LET q == scheduleBudgetTotalCalculation(p)
           IN  /\ IsBudgetForm(q) /\ q.rows = p.rows /\ q.timers = p.timers + 2
               /\ q.loaded = p.loaded /\ q.recalculated = p.loaded
<1> DEFINE c == calculateBudgetTotal(p)
<1>1. /\ IsBudgetForm(c) /\ c.rows = p.rows /\ c.timers = p.timers
      /\ c.loaded = p.loaded /\ c.recalculated = p.loaded
  BY Calculated
<1>2. scheduleBudgetTotalCalculation(p) = [c EXCEPT !.timers = c.timers + 2]
  BY DEF scheduleBudgetTotalCalculation
<1> HIDE DEF c
<1> QED
  BY <1>1, <1>2 DEF IsBudgetForm, IsPage, BudgetFormFields

LEMMA BudgetFormStep ==
    ASSUME BudgetFormInv(page), BudgetFormNext PROVE BudgetFormInv(page)'
<1>1. /\ IsBudgetForm(page) /\ IsRows(page.rows) /\ page.timers \in Nat
      /\ page.loaded \in BOOLEAN /\ page.recalculated \in BOOLEAN
      /\ page.recalculated => page.loaded
      /\ page.loaded => Masked(page.rows)
  BY DEF BudgetFormInv, Masked
<1>2. CASE WindowLoad
  <2> DEFINE rows == initializeCurrencyMasks(page.rows)
  <2>1. page' = [page EXCEPT !.loaded = TRUE, !.rows = rows] /\ ~page.recalculated
    BY <1>1, <1>2 DEF WindowLoad
  <2>2. IsRows(rows) /\ Masked(rows)
    BY <1>1, RowChanged DEF initializeCurrencyMasks, IsRows, Masked
  <2> HIDE DEF rows
  <2>3. /\ IsBudgetForm(page') /\ page'.rows = rows /\ page'.timers = page.timers
        /\ page'.loaded = TRUE /\ page'.recalculated = page.recalculated
    BY <1>1, <2>1 DEF IsBudgetForm, IsPage, BudgetFormFields
  <2>4. page'.loaded \in BOOLEAN /\ ~page'.recalculated /\ page'.recalculated \in BOOLEAN
    BY <1>1, <2>1, <2>3
  <2> QED
    BY <1>1, <2>2, <2>3, <2>4 DEF BudgetFormInv, Masked
<1>3. CASE AddRow
  <2> DEFINE new == NewIndex(DOMAIN page.rows)
             rows == [i \in DOMAIN page.rows \cup {new} |->
                        IF i = new THEN EmptyRow("none") ELSE page.rows[i]]
  <2>1. PICK q : /\ q = scheduleBudgetTotalCalculation(page)
                 /\ page' = [q EXCEPT !.rows = [i \in DOMAIN q.rows \cup {new} |->
                               IF i = new THEN EmptyRow("none") ELSE q.rows[i]]]
    BY <1>3 DEF AddRow
  <2>2. /\ IsBudgetForm(q) /\ q.rows = page.rows /\ q.timers = page.timers + 2
        /\ q.loaded = page.loaded /\ q.recalculated = page.loaded
    BY <1>1, <2>1, ScheduledForm
  <2>3. IsRows(rows) /\ (Masked(page.rows) => Masked(rows))
    BY <1>1, EmptyRowOK DEF IsRows, Masked
  <2>4. page' = [q EXCEPT !.rows = rows]
    BY <2>1, <2>2
  <2> HIDE DEF rows
  <2>5. /\ IsBudgetForm(page') /\ page'.rows = rows /\ page'.timers = q.timers
        /\ page'.loaded = q.loaded /\ page'.recalculated = q.recalculated
    BY <2>2, <2>4 DEF IsBudgetForm, IsPage, BudgetFormFields
  <2> QED
    BY <2>2, <2>3, <2>5, Scheduled
<1>4. CASE Timer
  <2> DEFINE p == [page EXCEPT !.timers = page.timers - 1]
  <2>1. page.timers > 0 /\ page' = calculateBudgetTotal(p)
    BY <1>4 DEF Timer
  <2>2. /\ IsBudgetForm(p) /\ p.rows = page.rows /\ p.timers = page.timers - 1
        /\ p.loaded = page.loaded
    BY <1>1 DEF IsBudgetForm, IsPage, BudgetFormFields
  <2> HIDE DEF p
  <2>3. /\ IsBudgetForm(page') /\ page'.rows = p.rows /\ page'.timers = p.timers
        /\ page'.loaded = p.loaded /\ page'.recalculated = p.loaded
        /\ page'.total = SumOf(p.rows, PricesRead(p.rows), Counted)
    BY <2>1, <2>2, Calculated
  <2>4. page'.timers \in Nat
    BY <1>1, <2>1, <2>2, <2>3
  <2>5. IsRows(page'.rows) /\ (page'.loaded => Masked(page'.rows))
    BY <1>1, <2>2, <2>3
  <2>6. /\ page'.loaded \in BOOLEAN /\ page'.recalculated \in BOOLEAN
        /\ page'.recalculated => page'.loaded
    BY <1>1, <2>2, <2>3
  <2>7. page'.total = SumOf(page'.rows, PricesRead(page'.rows), Counted)
    BY <2>3
  <2> QED
    BY <2>3, <2>4, <2>5, <2>6, <2>7 DEF BudgetFormInv, Masked
<1>5. ASSUME NEW i \in DOMAIN page.rows, RemoveRow(i) PROVE BudgetFormInv(page)'
  <2>1. PICK q : /\ q = scheduleBudgetTotalCalculation(page)
                 /\ page' = [q EXCEPT !.rows =
                               IF page.rows[i].destroy # "none"
                               THEN [q.rows EXCEPT ![i].destroy = "1"]
                               ELSE Restrict(q.rows, DOMAIN q.rows \ {i})]
    BY <1>5 DEF RemoveRow
  <2>2. /\ IsBudgetForm(q) /\ q.rows = page.rows /\ q.timers = page.timers + 2
        /\ q.loaded = page.loaded /\ q.recalculated = page.loaded
    BY <1>1, <2>1, ScheduledForm
  <2> DEFINE hid == [page.rows EXCEPT ![i].destroy = "1"]
             out == Restrict(page.rows, DOMAIN page.rows \ {i})
             rows == IF page.rows[i].destroy # "none" THEN hid ELSE out
  <2>3. IsRows(hid) /\ (Masked(page.rows) => Masked(hid))
    <3>1. /\ [page.rows[i] EXCEPT !.destroy = "1"] \in Row
          /\ [page.rows[i] EXCEPT !.destroy = "1"].masked = page.rows[i].masked
      BY <1>1, RowChanged DEF IsRows
    <3>2. hid = [page.rows EXCEPT ![i] = [page.rows[i] EXCEPT !.destroy = "1"]]
      OBVIOUS
    <3> HIDE DEF hid
    <3> QED
      BY <1>1, <3>1, <3>2 DEF IsRows, Masked
  <2>4. IsRows(out) /\ (Masked(page.rows) => Masked(out))
    BY <1>1 DEF Restrict, IsRows, Masked
  <2>5. page' = [q EXCEPT !.rows = rows]
    BY <2>1, <2>2
  <2> HIDE DEF hid, out
  <2>6. IsRows(rows) /\ (Masked(page.rows) => Masked(rows))
    BY <2>3, <2>4
  <2> HIDE DEF rows
  <2>7. /\ IsBudgetForm(page') /\ page'.rows = rows /\ page'.timers = q.timers
        /\ page'.loaded = q.loaded /\ page'.recalculated = q.recalculated
    BY <2>2, <2>5 DEF IsBudgetForm, IsPage, BudgetFormFields
  <2> QED
    BY <2>2, <2>6, <2>7, Scheduled
<1>6. ASSUME NEW i \in DOMAIN page.rows, NEW row \in Row, page.rows[i].masked => row.masked,
             page' = scheduleBudgetTotalCalculation([page EXCEPT !.rows[i] = row])
      PROVE  BudgetFormInv(page)'
  <2> DEFINE rows == [page.rows EXCEPT ![i] = row]
             p == [page EXCEPT !.rows = rows]
  <2>1. page' = scheduleBudgetTotalCalculation(p)
    BY <1>6
  <2>2. IsRows(rows) /\ (Masked(page.rows) => Masked(rows))
    BY <1>1, <1>6 DEF IsRows, Masked
  <2> HIDE DEF rows
  <2>3. /\ IsBudgetForm(p) /\ p.rows = rows /\ p.timers = page.timers
        /\ p.loaded = page.loaded
    BY <1>1 DEF IsBudgetForm, IsPage, BudgetFormFields
  <2> HIDE DEF p
  <2>4. /\ IsBudgetForm(page') /\ page'.rows = rows /\ page'.timers = page.timers + 2
        /\ page'.loaded = page.loaded /\ page'.recalculated = page.loaded
    BY <2>1, <2>3, ScheduledForm
  <2> QED
    BY <2>2, <2>4, Scheduled
<1>7. ASSUME NEW i \in DOMAIN page.rows, NEW q \in QUANTITIES, EditQuantity(i, q)
      PROVE  BudgetFormInv(page)'
  <2> DEFINE row == [page.rows[i] EXCEPT !.quantity = q]
  <2>1. row \in Row /\ row.masked = page.rows[i].masked
    <3>1. page.rows[i] \in Row /\ q \in Nat
      BY <1>1, PriceAssumption DEF IsRows
    <3> QED
      BY <3>1, RowChanged
  <2>2. page' = scheduleBudgetTotalCalculation([page EXCEPT !.rows[i] = row])
    BY <1>7 DEF EditQuantity
  <2> HIDE DEF row
  <2> QED
    BY <1>6, <2>1, <2>2
<1>8. ASSUME NEW i \in DOMAIN page.rows, NEW c \in PRICES, EditPrice(i, c)
      PROVE  BudgetFormInv(page)'
  <2> DEFINE row == maskCurrencyInput([page.rows[i] EXCEPT !.cents = c])
  <2>1. row \in Row /\ row.masked
    <3>1. page.rows[i] \in Row /\ c \in Nat
      BY <1>1, PriceAssumption DEF IsRows
    <3> DEFINE edited == [page.rows[i] EXCEPT !.cents = c]
    <3>2. edited \in Row
      BY <3>1, RowChanged
    <3> HIDE DEF edited
    <3>3. maskCurrencyInput(edited) \in Row /\ maskCurrencyInput(edited).masked
      BY <3>2, RowChanged
    <3> QED
      BY <3>3 DEF edited
  <2>2. page' = scheduleBudgetTotalCalculation([page EXCEPT !.rows[i] = row])
    BY <1>8 DEF EditPrice
  <2> HIDE DEF row
  <2> QED
    BY <1>6, <2>1, <2>2
<1>9. CASE SaveRefused
  <2> DEFINE drawn == {i \in DOMAIN page.rows : ~Rejected(page.rows[i])}
  <2>1. IsRows(RedrawnRows(page.rows))
    <3>1. CASE drawn = {}
      BY <3>1, EmptyRowOK, OneRowOK DEF RedrawnRows
    <3>2. CASE drawn # {}
      <4>1. RedrawnRows(page.rows) = [i \in drawn |-> Redrawn(page.rows[i])]
        BY <3>2 DEF RedrawnRows
      <4>2. \A i \in drawn : Redrawn(page.rows[i]) \in Row
        BY <1>1, RowChanged DEF IsRows
      <4> HIDE DEF drawn
      <4> QED
        BY <4>1, <4>2 DEF IsRows
    <3> QED
      BY <3>1, <3>2
  <2>2. BudgetFormInv(NewBudgetForm(RedrawnRows(page.rows)))
    BY <2>1, NewBudgetFormOK
  <2>3. page' = NewBudgetForm(RedrawnRows(page.rows))
    BY <1>9 DEF SaveRefused
  <2> QED
    BY <2>2, <2>3
<1> QED
  BY <1>2, <1>3, <1>4, <1>5, <1>7, <1>8, <1>9 DEF BudgetFormNext

----------------------------------------------------------------------------
(* The steps of the signup wizard *)

\* A request taken off the list leaves a list of requests.
LEMMA RemoveAtSeq ==
    ASSUME NEW S, NEW list \in Seq(S), NEW i \in DOMAIN list
    PROVE  RemoveAt(list, i) \in Seq(S)
<1>1. list \in Seq(S) /\ Len(list) \in Nat /\ i \in 1 .. Len(list)
  OBVIOUS
<1>2. SubSeq(list, 1, i - 1) \in Seq(S) /\ SubSeq(list, i + 1, Len(list)) \in Seq(S)
  BY <1>1
<1> QED
  BY <1>2 DEF RemoveAt

ErrorCurrent(d, f) == d.checked => d.error = ~Valid(f, d.value)

\* The answer to a lookup takes it off the list; the last one stays the last, and
\* the first is the last one if it is the only one.
LEMMA LookupAnswered ==
    ASSUME NEW S, NEW lookups \in Seq(S), NEW i \in DOMAIN lookups
    PROVE  LET rest == RemoveAt(lookups, i)
           IN  i = 1 => IF rest = <<>> THEN lookups[1] = lookups[Len(lookups)]
                        ELSE rest[Len(rest)] = lookups[Len(lookups)]
<1> DEFINE a == SubSeq(lookups, 1, i - 1)
           b == SubSeq(lookups, i + 1, Len(lookups))
<1>1. Len(lookups) \in Nat /\ i \in 1 .. Len(lookups)
  OBVIOUS
<1>2. a \in Seq(S) /\ Len(a) = i - 1
  BY <1>1
<1>3. b \in Seq(S) /\ Len(b) = Len(lookups) - i
      /\ \A j \in 1 .. Len(lookups) - i : b[j] = lookups[i + j]
  BY <1>1
<1>4. RemoveAt(lookups, i) = a \o b
  BY DEF RemoveAt
<1> HIDE DEF a, b
<1> SUFFICES ASSUME i = 1
             PROVE  LET rest == RemoveAt(lookups, i)
                    IN  IF rest = <<>> THEN lookups[1] = lookups[Len(lookups)]
                        ELSE rest[Len(rest)] = lookups[Len(lookups)]
  OBVIOUS
<1>5. a = <<>>
  BY <1>2
<1>6. RemoveAt(lookups, i) = b
  BY <1>3, <1>4, <1>5
<1>7. CASE b = <<>>
  <2>1. Len(b) = 0
    BY <1>7
  <2>2. Len(lookups) = 1
    BY <1>1, <1>3, <2>1
  <2> QED
    BY <1>6, <1>7, <2>2
<1>8. CASE b # <<>>
  <2>1. Len(b) # 0
    BY <1>3, <1>8
  <2>2. /\ Len(lookups) - i \in 1 .. Len(lookups) - i
        /\ i + (Len(lookups) - i) = Len(lookups)
    BY <1>1, <1>3, <2>1
  <2>3. b[Len(b)] = lookups[Len(lookups)]
    BY <1>3, <2>2
  <2> QED
    BY <1>6, <1>8, <2>3
<1> QED
  BY <1>7, <1>8

LEMMA CompanyStepStep ==
    ASSUME CompanyStepInv(page), CompanyStepNext PROVE CompanyStepInv(page)'
<1> USE DEF IsCompanyStep, IsPage, CompanyStepFields
<1>1. /\ IsCompanyStep(page)
      /\ page.field \in [Fields -> FieldState]
      /\ page.lookups \in Seq(CEPS)
      /\ page.disordered \in BOOLEAN
  BY DEF CompanyStepInv
<1>2. \A g \in Fields : page.focus # g => ErrorCurrent(page.field[g], g)
  BY DEF CompanyStepInv, ErrorCurrent
<1>3. ~page.disordered => IF page.lookups = <<>> THEN page.address = page.asked
                          ELSE page.lookups[Len(page.lookups)] = page.asked
  BY DEF CompanyStepInv
<1>4. Blank \notin Fields
  BY CepAssumption
\* The steps that change fields or the focus, and no lookup.
<1>5. ASSUME IsCompanyStep(page'),
             page'.field \in [Fields -> FieldState],
             \A g \in Fields : page'.focus # g => ErrorCurrent(page'.field[g], g),
             page'.lookups = page.lookups, page'.address = page.address,
             page'.asked = page.asked, page'.disordered = page.disordered
      PROVE  CompanyStepInv(page)'
  <2>1. ~page'.disordered => IF page'.lookups = <<>> THEN page'.address = page'.asked
                             ELSE page'.lookups[Len(page'.lookups)] = page'.asked
    BY <1>3, <1>5
  <2>2. page'.lookups \in Seq(CEPS) /\ page'.disordered \in BOOLEAN
    BY <1>1, <1>5
  <2>3. \A g \in Fields : page'.focus # g /\ page'.field[g].checked
                            => page'.field[g].error = ~Valid(g, page'.field[g].value)
    BY <1>5 DEF ErrorCurrent
  <2> QED
    BY <1>5, <2>1, <2>2, <2>3 DEF CompanyStepInv
\* The steps that answer a lookup.
<1>6. ASSUME IsCompanyStep(page'), page'.field = page.field, page'.focus = page.focus,
             page'.lookups \in Seq(CEPS), page'.disordered \in BOOLEAN,
             ~page'.disordered => IF page'.lookups = <<>> THEN page'.address = page'.asked
                                  ELSE page'.lookups[Len(page'.lookups)] = page'.asked
      PROVE  CompanyStepInv(page)'
  <2>1. \A g \in Fields : page'.focus # g /\ page'.field[g].checked
                            => page'.field[g].error = ~Valid(g, page'.field[g].value)
    BY <1>2, <1>6 DEF ErrorCurrent
  <2>2. page'.field \in [Fields -> FieldState]
    BY <1>1, <1>6
  <2> QED
    BY <1>6, <2>1, <2>2 DEF CompanyStepInv
<1>7. CASE NextStep
  <2> DEFINE field == [g \in Fields |->
                         IF g \in WrongFields
                         THEN [page.field[g] EXCEPT !.error = TRUE, !.checked = TRUE]
                         ELSE page.field[g]]
  <2>1. PICK f \in {Blank} \cup WrongFields :
          page' = [page EXCEPT !.onStep = FALSE, !.focus = f, !.field = field]
    BY <1>7 DEF NextStep
  <2>2. page.focus = Blank
    BY <1>7 DEF NextStep
  <2>3. ASSUME NEW g \in Fields
        PROVE  field[g] \in FieldState /\ ErrorCurrent(field[g], g)
    <3>1. page.field[g] \in FieldState /\ ErrorCurrent(page.field[g], g)
      BY <1>1, <1>2, <1>4, <2>2
    <3>2. CASE g \in WrongFields
      <4>1. field[g] = [page.field[g] EXCEPT !.error = TRUE, !.checked = TRUE]
        BY <3>2
      <4>2. ~Valid(g, page.field[g].value)
        BY <3>2 DEF WrongFields
      <4>3. /\ field[g] \in FieldState
            /\ field[g].error = TRUE /\ field[g].value = page.field[g].value
        BY <3>1, <4>1 DEF FieldState
      <4> QED
        BY <4>2, <4>3 DEF ErrorCurrent
    <3>3. CASE g \notin WrongFields
      BY <3>1, <3>3
    <3> QED
      BY <3>2, <3>3
  <2>4. field \in [Fields -> FieldState]
    BY <2>3
  <2> HIDE DEF field
  <2>5. /\ IsCompanyStep(page') /\ page'.field = field
        /\ page'.lookups = page.lookups /\ page'.address = page.address
        /\ page'.asked = page.asked /\ page'.disordered = page.disordered
    BY <1>1, <2>1
  <2> QED
    BY <1>5, <2>3, <2>4, <2>5
<1>8. CASE BackToCompany
  <2>1. /\ IsCompanyStep(page') /\ page'.field = page.field /\ page'.focus = page.focus
        /\ page'.lookups = page.lookups /\ page'.address = page.address
        /\ page'.asked = page.asked /\ page'.disordered = page.disordered
    BY <1>1, <1>8 DEF BackToCompany
  <2> QED
    BY <1>1, <1>2, <1>5, <2>1
<1>9. ASSUME NEW f \in Fields, Focus(f) PROVE CompanyStepInv(page)'
  <2>1. /\ IsCompanyStep(page') /\ page'.field = page.field /\ page'.focus = f
        /\ page'.lookups = page.lookups /\ page'.address = page.address
        /\ page'.asked = page.asked /\ page'.disordered = page.disordered
    BY <1>1, <1>9 DEF Focus
  <2>2. page.focus = Blank
    BY <1>9 DEF Focus
  <2> QED
    BY <1>1, <1>2, <1>4, <1>5, <2>1, <2>2
<1>10. ASSUME NEW f \in Fields, NEW v \in Values(f), Type(f, v) PROVE CompanyStepInv(page)'
  <2> DEFINE field == [page.field EXCEPT ![f].value = v]
  <2>1. page.focus = f /\ page' = [page EXCEPT !.field = field]
    BY <1>10 DEF Type
  <2>2. field \in [Fields -> FieldState] /\ \A g \in Fields \ {f} : field[g] = page.field[g]
    BY <1>1 DEF FieldState
  <2> HIDE DEF field
  <2>3. /\ IsCompanyStep(page') /\ page'.field = field /\ page'.focus = f
        /\ page'.lookups = page.lookups /\ page'.address = page.address
        /\ page'.asked = page.asked /\ page'.disordered = page.disordered
    BY <1>1, <2>1
  <2>4. \A g \in Fields : page'.focus # g => ErrorCurrent(page'.field[g], g)
    BY <1>2, <2>1, <2>2, <2>3
  <2> QED
    BY <1>5, <2>2, <2>3, <2>4
<1>11. ASSUME NEW f \in Fields, Blur(f) PROVE CompanyStepInv(page)'
  <2> DEFINE bad == ~Valid(f, page.field[f].value)
             field == [page.field EXCEPT ![f].error = bad, ![f].checked = TRUE]
             cep == page.field["zip_code"].value
             p == [page EXCEPT !.field = field, !.focus = Blank]
  <2>1. page.focus = f
    BY <1>11 DEF Blur
  <2>2. [Validate(page, f) EXCEPT !.focus = Blank] = p
    <3>1. Validate(page, f) = [page EXCEPT !.field = field]
      BY <1>1 DEF Validate
    <3> HIDE DEF field
    <3> QED
      BY <1>1, <3>1
  <2>3. \/ page' = p
        \/ /\ cep \in CEPS
           /\ page' = [p EXCEPT !.lookups = Append(@, cep), !.asked = cep,
                                !.disordered = @ /\ page.lookups # <<>>]
    BY <1>11, <2>2 DEF Blur
  <2>4. /\ field \in [Fields -> FieldState]
        /\ \A g \in Fields \ {f} : field[g] = page.field[g]
        /\ ErrorCurrent(field[f], f)
    <3>1. bad \in BOOLEAN
      BY DEF Valid
    <3>2. /\ field[f].value = page.field[f].value /\ field[f].error = bad
          /\ field[f].checked = TRUE
      BY <1>1 DEF FieldState
    <3>3. ErrorCurrent(field[f], f)
      BY <3>2 DEF ErrorCurrent
    <3> HIDE DEF bad
    <3>4. /\ field \in [Fields -> FieldState]
          /\ \A g \in Fields \ {f} : field[g] = page.field[g]
      BY <1>1, <3>1 DEF FieldState
    <3> QED
      BY <3>3, <3>4
  <2> HIDE DEF field, cep
  <2>5. /\ IsCompanyStep(p) /\ p.field = field /\ p.focus = Blank
        /\ p.lookups = page.lookups /\ p.address = page.address
        /\ p.asked = page.asked /\ p.disordered = page.disordered
    BY <1>1
  <2>6. \A g \in Fields : ErrorCurrent(field[g], g)
    BY <1>2, <2>1, <2>4
  <2> HIDE DEF p
  <2>7. CASE page' = p
    BY <1>5, <2>4, <2>5, <2>6, <2>7
  <2>8. CASE /\ cep \in CEPS
             /\ page' = [p EXCEPT !.lookups = Append(@, cep), !.asked = cep,
                                  !.disordered = @ /\ page.lookups # <<>>]
    <3> DEFINE more == Append(page.lookups, cep)
    <3>1. /\ more \in Seq(CEPS) /\ Len(more) = Len(page.lookups) + 1
          /\ more[Len(page.lookups) + 1] = cep
      BY <1>1, <2>8, AppendProperties
    <3>2. more # <<>>
      BY <1>1, <3>1
    <3>3. page' = [p EXCEPT !.lookups = more, !.asked = cep,
                            !.disordered = page.disordered /\ page.lookups # <<>>]
      BY <2>5, <2>8
    <3> HIDE DEF more
    <3>4. /\ IsCompanyStep(page') /\ page'.field = field /\ page'.focus = Blank
          /\ page'.lookups = more /\ page'.asked = cep
          /\ page'.disordered \in BOOLEAN
      BY <1>1, <2>5, <3>3
    <3>5. page'.lookups[Len(page'.lookups)] = page'.asked /\ page'.lookups # <<>>
      BY <3>1, <3>2, <3>4
    <3>6. \A g \in Fields : page'.focus # g /\ page'.field[g].checked
                              => page'.field[g].error = ~Valid(g, page'.field[g].value)
      BY <2>6, <3>4 DEF ErrorCurrent
    <3> QED
      BY <2>4, <3>1, <3>4, <3>5, <3>6 DEF CompanyStepInv
  <2> QED
    BY <2>3, <2>7, <2>8
<1>12. ASSUME NEW i \in DOMAIN page.lookups, AddressAnswered(i) PROVE CompanyStepInv(page)'
  <2> DEFINE rest == RemoveAt(page.lookups, i)
  <2>1. page' = [page EXCEPT !.lookups = rest, !.address = page.lookups[i],
                             !.disordered = page.disordered \/ i > 1]
    BY <1>12 DEF AddressAnswered
  <2>2. rest \in Seq(CEPS)
    BY <1>1, RemoveAtSeq
  <2>3. i = 1 => IF rest = <<>> THEN page.lookups[1] = page.lookups[Len(page.lookups)]
                 ELSE rest[Len(rest)] = page.lookups[Len(page.lookups)]
    BY <1>1, LookupAnswered
  <2>4. page.lookups # <<>> /\ i \in Nat /\ i >= 1
    BY <1>1
  <2> HIDE DEF rest
  <2>5. /\ IsCompanyStep(page') /\ page'.field = page.field /\ page'.focus = page.focus
        /\ page'.lookups = rest /\ page'.address = page.lookups[i]
        /\ page'.asked = page.asked
        /\ page'.disordered = (page.disordered \/ i > 1)
    BY <1>1, <2>1
  <2>6. page'.disordered \in BOOLEAN
    BY <2>5
  <2>7. ~page'.disordered => ~page.disordered /\ i = 1
    <3>1. ~page'.disordered => ~page.disordered /\ ~(i > 1)
      BY <2>5, Zenon
    <3> QED
      BY <2>4, <3>1
  <2>8. ~page'.disordered => IF rest = <<>> THEN page'.address = page'.asked
                             ELSE rest[Len(rest)] = page'.asked
    BY <1>3, <2>3, <2>4, <2>5, <2>7
  <2> QED
    BY <1>6, <2>2, <2>5, <2>6, <2>8
<1>13. ASSUME NEW i \in DOMAIN page.lookups, AddressMissing(i) PROVE CompanyStepInv(page)'
  <2> DEFINE rest == RemoveAt(page.lookups, i)
  <2>1. page' = [page EXCEPT !.lookups = rest, !.disordered = TRUE]
    BY <1>13 DEF AddressMissing
  <2>2. rest \in Seq(CEPS)
    BY <1>1, RemoveAtSeq
  <2> HIDE DEF rest
  <2>3. /\ IsCompanyStep(page') /\ page'.field = page.field /\ page'.focus = page.focus
        /\ page'.lookups = rest /\ page'.disordered = TRUE
    BY <1>1, <2>1
  <2> QED
    BY <1>6, <2>2, <2>3
<1> QED
  BY <1>7, <1>8, <1>9, <1>10, <1>11, <1>12, <1>13 DEF CompanyStepNext

LEMMA PlanStepStep ==
    ASSUME PlanStepInv(page), PlanStepNext PROVE PlanStepInv(page)'
<1> USE DEF IsPlanStep, IsPage, PlanStepFields
<1>1. /\ IsPlanStep(page)
      /\ page.cardForms \in Nat
      /\ page.cardFormInstance => page.cardForms > 0
      /\ page.sdk /\ page.method = "credit_card"
           => page.plan = "paid" /\ page.ccForm /\ page.cardForms > 0
      /\ page.sdk /\ page.post.method = "credit_card" => page.post.token /\ ~page.post.names
  BY DEF PlanStepInv
\* The steps that only move in the wizard.
<1>2. ASSUME IsPlanStep(page'), page'.sdk = page.sdk, page'.plan = page.plan,
             page'.method = page.method, page'.ccForm = page.ccForm,
             page'.cardForms = page.cardForms, page'.post = page.post,
             page'.cardFormInstance = page.cardFormInstance
      PROVE  PlanStepInv(page)'
  BY <1>1, <1>2 DEF PlanStepInv
<1>3. CASE TermsNext \/ ToggleTerms \/ JumpToStep
  <2>1. /\ IsPlanStep(page') /\ page'.sdk = page.sdk /\ page'.plan = page.plan
        /\ page'.method = page.method /\ page'.ccForm = page.ccForm
        /\ page'.cardForms = page.cardForms /\ page'.post = page.post
        /\ page'.cardFormInstance = page.cardFormInstance
    BY <1>1, <1>3 DEF TermsNext, ToggleTerms, JumpToStep
  <2> QED
    BY <1>2, <2>1
<1>4. CASE SignupRefused
  BY <1>4, NewPlanStepOK DEF SignupRefused
<1>5. ASSUME NEW plan \in {"free", "paid"}, ChoosePlan(plan) PROVE PlanStepInv(page)'
  <2>1. CASE plan = "paid"
    <3>1. /\ IsPlanStep(page') /\ page'.sdk = page.sdk /\ page'.plan = "paid"
          /\ page'.method = page.method /\ page'.ccForm = page.ccForm
          /\ page'.cardForms = page.cardForms /\ page'.post = page.post
          /\ page'.cardFormInstance = page.cardFormInstance
      BY <1>1, <1>5, <2>1 DEF ChoosePlan
    <3> QED
      BY <1>1, <3>1 DEF PlanStepInv
  <2>2. CASE plan # "paid"
    <3>1. /\ IsPlanStep(page') /\ page'.sdk = page.sdk /\ page'.method = "none"
          /\ page'.cardForms = page.cardForms /\ page'.post = page.post
          /\ page'.cardFormInstance = page.cardFormInstance
      BY <1>1, <1>5, <2>2 DEF ChoosePlan
    <3> QED
      BY <1>1, <3>1 DEF PlanStepInv
  <2> QED
    BY <2>1, <2>2
<1>6. ASSUME NEW method \in {"pix", "credit_card"}, ChooseMethod(method)
      PROVE  PlanStepInv(page)'
  <2> DEFINE p == [page EXCEPT !.method = method]
  <2>1. /\ page.plan = "paid"
        /\ page' = toggleCCForm(IF method = "credit_card" THEN mountCardForm(p)
                                ELSE unmountCardForm(p))
    BY <1>6 DEF ChooseMethod
  <2>2. /\ IsPlanStep(p) /\ p.sdk = page.sdk /\ p.plan = "paid" /\ p.method = method
        /\ p.cardForms = page.cardForms /\ p.post = page.post
        /\ p.cardFormInstance = page.cardFormInstance
    BY <1>1, <2>1
  <2> HIDE DEF p
  <2>3. CASE method = "credit_card"
    <3>1. PICK q :
          /\ q = mountCardForm(p) /\ page' = toggleCCForm(q)
      BY <2>1, <2>3
    <3>2. /\ IsPlanStep(q) /\ q.sdk = page.sdk /\ q.plan = "paid" /\ q.method = method
          /\ q.post = page.post
          /\ q.cardForms \in Nat /\ (q.cardFormInstance => q.cardForms > 0)
          /\ q.sdk => q.cardForms > 0
      <4>1. CASE ~p.sdk \/ p.cardFormInstance
        BY <1>1, <2>2, <3>1, <4>1 DEF mountCardForm
      <4>2. CASE ~(~p.sdk \/ p.cardFormInstance)
        <5>1. q = [p EXCEPT !.cardForms = p.cardForms + 1, !.cardFormInstance = TRUE]
          BY <3>1, <4>2 DEF mountCardForm
        <5>2. /\ IsPlanStep(q) /\ q.sdk = page.sdk /\ q.plan = "paid" /\ q.method = method
              /\ q.post = page.post /\ q.cardForms = page.cardForms + 1
          BY <2>2, <5>1
        <5> QED
          BY <1>1, <5>2
      <4> QED
        BY <4>1, <4>2
    <3>3. /\ IsPlanStep(page') /\ page'.sdk = page.sdk /\ page'.plan = "paid"
          /\ page'.method = method /\ page'.post = page.post /\ page'.ccForm = TRUE
          /\ page'.cardForms = q.cardForms /\ page'.cardFormInstance = q.cardFormInstance
      BY <2>3, <3>1, <3>2 DEF toggleCCForm
    <3> QED
      BY <1>1, <3>2, <3>3 DEF PlanStepInv
  <2>4. CASE method = "pix"
    <3>1. /\ IsPlanStep(page') /\ page'.sdk = page.sdk /\ page'.method = "pix"
          /\ page'.cardForms = page.cardForms /\ page'.post = page.post
          /\ page'.cardFormInstance = FALSE
      BY <2>1, <2>2, <2>4 DEF toggleCCForm, unmountCardForm
    <3> QED
      BY <1>1, <3>1 DEF PlanStepInv
  <2> QED
    BY <2>3, <2>4
<1>7. ASSUME NEW tokenized \in BOOLEAN, Submit(tokenized) PROVE PlanStepInv(page)'
  <2>1. CASE page.cardForms > 0 /\ shouldTokenize(page)
    <3>1. CASE ~tokenized
      <4>1. page' = page
        BY <1>7, <2>1, <3>1 DEF Submit
      <4> QED
        BY <4>1 DEF PlanStepInv
    <3>2. CASE tokenized
      <4>1. page' = Post(Tokenized(page))
        BY <1>7, <2>1, <3>2 DEF Submit
      <4>2. /\ IsPlanStep(page') /\ page'.sdk = page.sdk /\ page'.plan = page.plan
            /\ page'.method = page.method /\ page'.ccForm = page.ccForm
            /\ page'.cardForms = page.cardForms
            /\ page'.cardFormInstance = page.cardFormInstance
            /\ page'.post.token = TRUE /\ page'.post.names = FALSE
        BY <1>1, <4>1 DEF Post, Tokenized
      <4> QED
        BY <1>1, <4>2 DEF PlanStepInv
    <3> QED
      BY <3>1, <3>2
  <2>2. CASE ~(page.cardForms > 0 /\ shouldTokenize(page))
    <3>1. ~(page.sdk /\ page.method = "credit_card")
      BY <1>1, <2>2 DEF shouldTokenize
    <3>2. page' = Post(page)
      BY <1>7, <2>2 DEF Submit
    <3>3. /\ IsPlanStep(page') /\ page'.sdk = page.sdk /\ page'.plan = page.plan
          /\ page'.method = page.method /\ page'.ccForm = page.ccForm
          /\ page'.cardForms = page.cardForms
          /\ page'.cardFormInstance = page.cardFormInstance
          /\ page'.post.method = page.method
      BY <1>1, <3>2 DEF Post
    <3> QED
      BY <1>1, <3>1, <3>3 DEF PlanStepInv
  <2> QED
    BY <2>1, <2>2
<1> QED
  BY <1>3, <1>4, <1>5, <1>6, <1>7 DEF PlanStepNext

----------------------------------------------------------------------------
(* The tab *)

LEMMA PageInit == Init => PageInv
  BY NewPagesInv DEF Init

LEMMA PageNext == PageInv /\ [Next]_vars => PageInv'
<1> SUFFICES ASSUME PageInv, [Next]_vars PROVE PageInv'
  OBVIOUS
<1> USE DEF PageInv
<1>1. CASE ChecklistNext
  <2>1. page.kind = "checklist"
    BY <1>1 DEF ChecklistNext, ChecklistScript, Showing
  <2>2. IsChecklist(page)
    BY <2>1 DEF CalendarInv, BudgetFormInv, CompanyStepInv, PlanStepInv,
                IsCalendar, IsBudgetForm, IsCompanyStep, IsPlanStep, IsPage
  <2> QED
    BY <1>1, <2>2, ChecklistStep
<1>2. CASE CalendarNext
  <2>1. page.kind = "calendar"
    BY <1>2 DEF CalendarNext, CalendarScript, Showing
  <2>2. CalendarInv(page)
    BY <2>1 DEF BudgetFormInv, CompanyStepInv, PlanStepInv,
                IsChecklist, IsBudgetForm, IsCompanyStep, IsPlanStep, IsPage
  <2> QED
    BY <1>2, <2>2, CalendarStep
<1>3. CASE BudgetFormNext
  <2>1. page.kind = "budget_form"
    BY <1>3 DEF BudgetFormNext, Showing
  <2>2. BudgetFormInv(page)
    BY <2>1 DEF CalendarInv, CompanyStepInv, PlanStepInv,
                IsChecklist, IsCalendar, IsCompanyStep, IsPlanStep, IsPage
  <2> QED
    BY <1>3, <2>2, BudgetFormStep
<1>4. CASE CompanyStepNext
  <2>1. page.kind = "signup_company"
    BY <1>4 DEF CompanyStepNext, Showing
  <2>2. CompanyStepInv(page)
    BY <2>1 DEF CalendarInv, BudgetFormInv, PlanStepInv,
                IsChecklist, IsCalendar, IsBudgetForm, IsPlanStep, IsPage
  <2> QED
    BY <1>4, <2>2, CompanyStepStep
<1>5. CASE PlanStepNext
  <2>1. page.kind = "signup_plan"
    BY <1>5 DEF PlanStepNext, Showing
  <2>2. PlanStepInv(page)
    BY <2>1 DEF CalendarInv, BudgetFormInv, CompanyStepInv,
                IsChecklist, IsCalendar, IsBudgetForm, IsCompanyStep, IsPage
  <2> QED
    BY <1>5, <2>2, PlanStepStep
<1>6. CASE OpenAnotherPage
  BY <1>6, NewPagesOK DEF OpenAnotherPage
<1>7. CASE UNCHANGED vars
  <2>1. page' = page
    BY <1>7 DEF vars
  <2> QED
    BY <2>1 DEF CalendarInv, BudgetFormInv, CompanyStepInv, PlanStepInv
<1> QED
  BY <1>1, <1>2, <1>3, <1>4, <1>5, <1>6, <1>7 DEF Next

LEMMA PageInvariant == Spec => []PageInv
  BY PageInit, PageNext, PTL DEF Spec

\* In each state the invariant gives the property of the page that is open.
LEMMA OpenCalendar == PageInv /\ Showing("calendar") => CalendarInv(page)
  BY DEF PageInv, Showing, BudgetFormInv, CompanyStepInv, PlanStepInv,
         IsChecklist, IsBudgetForm, IsCompanyStep, IsPlanStep, IsPage

LEMMA OpenBudgetForm == PageInv /\ Showing("budget_form") => BudgetFormInv(page)
  BY DEF PageInv, Showing, CalendarInv, CompanyStepInv, PlanStepInv,
         IsChecklist, IsCalendar, IsCompanyStep, IsPlanStep, IsPage

LEMMA OpenCompanyStep == PageInv /\ Showing("signup_company") => CompanyStepInv(page)
  BY DEF PageInv, Showing, CalendarInv, BudgetFormInv, PlanStepInv,
         IsChecklist, IsCalendar, IsBudgetForm, IsPlanStep, IsPage

LEMMA OpenPlanStep == PageInv /\ Showing("signup_plan") => PlanStepInv(page)
  BY DEF PageInv, Showing, CalendarInv, BudgetFormInv, CompanyStepInv,
         IsChecklist, IsCalendar, IsBudgetForm, IsCompanyStep, IsPage

----------------------------------------------------------------------------
(* The safety invariants *)

\* The calendar shows the entries of the technicians selected, once nothing is
\* awaited: datesSet, the filter and the two requests of calendar_controller.js
\* interleave in any order.
THEOREM CalendarAgreesHolds == Spec => []CalendarAgrees
<1>1. PageInv => CalendarAgrees
  <2> SUFFICES ASSUME PageInv, Showing("calendar"), page.fullCalendar,
                      ~page.query.pending, ~page.failed, ~page.overlapped
               PROVE  page.shown = buildCalendarEvents(events(page.selection), page.selection)
    BY DEF CalendarAgrees
  <2>1. CalendarInv(page)
    BY OpenCalendar
  <2> QED
    BY <2>1 DEF CalendarInv
<1> QED
  BY <1>1, PageInvariant, PTL

\* The total the form of a budget shows once its timers have fired is the one a save
\* computes from the rows it keeps, if it was computed since the load event masked
\* the prices and no removed row came back with a refused save: budget_form.js and
\* application.js hear the same events in turn.
THEOREM TotalReflectsItemsHolds == Spec => []TotalReflectsItems
<1>1. PageInv => TotalReflectsItems
  <2> SUFFICES ASSUME PageInv, Showing("budget_form"), page.timers = 0, page.recalculated,
                      \A i \in DOMAIN page.rows : page.rows[i].destroy # "true"
               PROVE  page.total =
                        SumOf(page.rows, [i \in DOMAIN page.rows |-> page.rows[i].cents], Kept)
    BY DEF TotalReflectsItems
  <2>1. /\ page.total = SumOf(page.rows, PricesRead(page.rows), Counted)
        /\ \A i \in DOMAIN page.rows : page.rows[i].masked
    BY OpenBudgetForm DEF BudgetFormInv
  <2>2. PricesRead(page.rows) = [i \in DOMAIN page.rows |-> page.rows[i].cents]
    <3>1. \A i \in DOMAIN page.rows : parseMoneyMasked(page.rows[i]) = page.rows[i].cents
      BY <2>1 DEF parseMoneyMasked
    <3> QED
      BY <3>1 DEF PricesRead
  <2>3. ASSUME NEW prices
        PROVE  SumOf(page.rows, prices, Counted) = SumOf(page.rows, prices, Kept)
    <3>1. \A i \in DOMAIN page.rows :
            (page.rows[i].destroy \in Counted) = (page.rows[i].destroy \in Kept)
      BY DEF Counted, Kept
    <3>2. [i \in DOMAIN page.rows |->
             IF page.rows[i].destroy \in Counted THEN page.rows[i].quantity * prices[i] ELSE 0]
          = [i \in DOMAIN page.rows |->
               IF page.rows[i].destroy \in Kept THEN page.rows[i].quantity * prices[i] ELSE 0]
      BY <3>1
    <3> QED
      BY <3>2 DEF SumOf
  <2> QED
    BY <2>1, <2>2, <2>3
<1> QED
  BY <1>1, PageInvariant, PTL

\* A field of the company that was left shows an error exactly if what it holds is
\* not valid: the blur handlers and the next button write the same errors.
THEOREM ErrorsAreCurrentHolds == Spec => []ErrorsAreCurrent
<1>1. PageInv => ErrorsAreCurrent
  BY OpenCompanyStep DEF ErrorsAreCurrent, CompanyStepInv
<1> QED
  BY <1>1, PageInvariant, PTL

\* The address is that of the CEP looked up last once no lookup is on its way,
\* unless an answer was missing or overtaken: the blur handler sends one request
\* per complete CEP and cancels none.
THEOREM AddressUnlessOvertakenHolds == Spec => []AddressUnlessOvertaken
<1>1. PageInv => AddressUnlessOvertaken
  BY OpenCompanyStep DEF AddressUnlessOvertaken, CompanyStepInv
<1> QED
  BY <1>1, PageInvariant, PTL

\* With the SDK loaded no card is posted without a token or with its inputs,
\* however often the plan and the method changed and however many card forms of
\* card_tokenization.js were mounted.
THEOREM CardPostTokenizedHolds == Spec => []CardPostTokenized
<1>1. PageInv => CardPostTokenized
  BY OpenPlanStep DEF CardPostTokenized, PlanStepInv
<1> QED
  BY <1>1, PageInvariant, PTL

=============================================================================
