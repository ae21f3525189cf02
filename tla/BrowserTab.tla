------------------------------ MODULE BrowserTab ------------------------------
(***************************************************************************)
(* A browser tab with one page of the application open at a time: each     *)
(* page's scripts, answers and timers run while it is open, and a full     *)
(* page load ends them.  The steps of the signup wizard before and after   *)
(* the company's data share no state and count as two pages.               *)
(***************************************************************************)
EXTENDS ChecklistPage, CalendarPage, BudgetForm, SignupCompanyStep, SignupPlanStep

CONSTANT MaxPageLoads   \* bound on page loads after the first

VARIABLE pageLoads

vars == <<page, progress, pageLoads>>

\* The form of a budget with one saved item.
SavedBudgetForms == {NewBudgetForm(OneRow(SavedRow(q, c))) : q \in QUANTITIES, c \in PRICES}

\* The pages as their HTML and their first scripts leave them: with any saved
\* item, with or without the SDK of the gateway or the library of the calendar.
NewPages ==
    {NewChecklist, NewCompanyStep, NewBudgetForm(OneRow(EmptyRow("false")))}
    \cup {NewCalendar(fullCalendar) : fullCalendar \in BOOLEAN}
    \cup SavedBudgetForms
    \cup {NewPlanStep(sdk, "none", FALSE) : sdk \in BOOLEAN}

Init ==
    /\ page \in NewPages
    /\ completed = {} /\ finished = FALSE /\ overwrites = 0
    /\ pageLoads = 0

OpenAnotherPage ==
    /\ pageLoads < MaxPageLoads
    /\ pageLoads' = pageLoads + 1
    /\ page' \in NewPages
    /\ UNCHANGED progress

Next ==
    \/ ChecklistNext /\ UNCHANGED pageLoads
    \/ CalendarNext /\ UNCHANGED <<progress, pageLoads>>
    \/ BudgetFormNext /\ UNCHANGED <<progress, pageLoads>>
    \/ CompanyStepNext /\ UNCHANGED <<progress, pageLoads>>
    \/ PlanStepNext /\ UNCHANGED <<progress, pageLoads>>
    \/ OpenAnotherPage

Spec == Init /\ [][Next]_vars

\* Intervals fire and requests are answered or fail, those of the checklist not all
\* for ever; nothing is asked of the user.
FairSpec == Spec /\ ChecklistFairness /\ CalendarFairness

=============================================================================
