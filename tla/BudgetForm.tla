------------------------------ MODULE BudgetForm ------------------------------
(***************************************************************************)
(* The form of a budget: its rows of service items and the total that the  *)
(* page computes while the user edits them.  budget_form.js recalculates   *)
(* in the capture phase, before the handlers of application.js mask a      *)
(* price, add a row or remove one, and once more from two timers.  The     *)
(* server writes the price of a saved row as a plain decimal, which the    *)
(* load event turns into a masked one; the total is first computed before  *)
(* that, from the digits of the decimal.  A save that is refused answers   *)
(* with the form drawn again from what was posted.                         *)
(***************************************************************************)
EXTENDS Integers, Functions, OpenPage

CONSTANTS
    PRICES,       \* prices, in cents
    QUANTITIES,
    ROWS,         \* the indices a row can have in the names of its inputs
    MaxTimers     \* bound on the timers pending at a time

ASSUME PriceAssumption == PRICES \subseteq Nat /\ QUANTITIES \subseteq Nat
ASSUME RowsAssumption == ROWS # {}

\* The index of a new row: the time of day in the page, the next number on the server.
NewIndex(used) == CHOOSE i \in ROWS \ used : TRUE

\* A form of one row.
OneRow(row) == [i \in {NewIndex({})} |-> row]

\* A row: masked as the page formats a price; destroy is the value of the hidden
\* input _destroy, "none" in a row of the template, which has no such input.
EmptyRow(destroy) ==
    [quantity |-> 0, cents |-> 0, masked |-> TRUE, saved |-> FALSE, destroy |-> destroy]

SavedRow(q, c) ==
    [quantity |-> q, cents |-> c, masked |-> FALSE, saved |-> TRUE, destroy |-> "false"]

\* The rows budget_form.js counts (a removed one has '1' and is hidden), and those a
\* save keeps: the server reads the flag as a boolean.
Counted == {"none", "false", "true"}
Kept == {"none", "false"}

\* parseMoneyMasked: the digits of the input, as cents.  "1,50" has the digits of
\* its cents; a decimal drops its last zero: "1.5".
parseMoneyMasked(row) ==
    IF row.masked \/ row.cents % 10 # 0 THEN row.cents ELSE row.cents \div 10

\* The sum over the rows whose flag is one of flags, with the price read in each.
SumOf(rows, prices, flags) ==
    FoldFunction(LAMBDA amount, sum : amount + sum, 0,
                 [i \in DOMAIN rows |->
                    IF rows[i].destroy \in flags THEN rows[i].quantity * prices[i] ELSE 0])

calculateBudgetTotal(p) ==
    LET prices == [i \in DOMAIN p.rows |-> parseMoneyMasked(p.rows[i])]
    IN  [p EXCEPT !.total = SumOf(p.rows, prices, Counted), !.recalculated = p.loaded]

\* The page at DOMContentLoaded.
NewBudgetForm(rows) ==
    calculateBudgetTotal([kind |-> "budget_form", rows |-> rows, total |-> 0, timers |-> 0,
                          loaded |-> FALSE,
                          recalculated |-> FALSE])  \* history: computed since the masks

\* (A definition named ..._mutant is a wrong variant of the one that follows it.)
scheduleBudgetTotalCalculation_mutant(p) == calculateBudgetTotal(p)    \* no timers

\* setTimeout, 20 and 80 ms.
scheduleBudgetTotalCalculation(p) == [calculateBudgetTotal(p) EXCEPT !.timers = @ + 2]

MaySchedule == page.timers + 2 <= MaxTimers

maskCurrencyInput(row) == [row EXCEPT !.masked = TRUE]

\* Reads what the input shows as a number, and masks it.
initializeCurrencyMasks(rows) == [i \in DOMAIN rows |-> maskCurrencyInput(rows[i])]

\* The load event: the masks, without a new total.
WindowLoad ==
    /\ ~page.loaded
    /\ page' = [page EXCEPT !.loaded = TRUE, !.rows = initializeCurrencyMasks(@)]

\* handleFieldEvent; then the mask, which keeps the digits.
EditQuantity(i, q) ==
    /\ MaySchedule
    /\ page.rows[i].destroy # "1"
    /\ page' = scheduleBudgetTotalCalculation([page EXCEPT !.rows[i].quantity = q])

EditPrice(i, c) ==
    /\ MaySchedule
    /\ page.rows[i].destroy # "1"
    /\ page' = scheduleBudgetTotalCalculation(
                 [page EXCEPT !.rows[i] = maskCurrencyInput([@ EXCEPT !.cents = c])])

\* The click on #add-service-item: the total first, then the row.
AddRow ==
    /\ MaySchedule
    /\ ROWS \ DOMAIN page.rows # {}
    /\ LET new == NewIndex(DOMAIN page.rows)
       IN  page' = [scheduleBudgetTotalCalculation(page) EXCEPT
                      !.rows = [i \in DOMAIN @ \cup {new} |->
                                  IF i = new THEN EmptyRow("none") ELSE @[i]]]

\* The click on .remove-item: the total first; then a row of the server is
\* flagged and hidden, another one is taken out.
RemoveRow(i) ==
    /\ MaySchedule
    /\ page.rows[i].destroy # "1"
    /\ page' = [scheduleBudgetTotalCalculation(page) EXCEPT
                  !.rows = IF page.rows[i].destroy # "none"
                           THEN [@ EXCEPT ![i].destroy = "1"]
                           ELSE Restrict(@, DOMAIN @ \ {i})]

Timer ==
    /\ page.timers > 0
    /\ page' = calculateBudgetTotal([page EXCEPT !.timers = @ - 1])

\* What the server draws again: a new row that is blank or was removed is rejected
\* (reject_if, allow_destroy); a saved one that was removed is drawn like any other,
\* with the flag true, the decimal price and no style.
Redrawn(row) ==
    [row EXCEPT !.masked = FALSE, !.destroy = IF @ \in Kept THEN "false" ELSE "true"]

Rejected(row) == ~row.saved /\ (row.destroy \notin Kept \/ row.quantity + row.cents = 0)

RedrawnRows(rows) ==
    LET drawn == {i \in DOMAIN rows : ~Rejected(rows[i])}
    IN  IF drawn = {} THEN OneRow(EmptyRow("false"))
        ELSE [i \in drawn |-> Redrawn(rows[i])]

\* The form is posted and refused for another field: 422 and the page drawn again.
SaveRefused == page' = NewBudgetForm(RedrawnRows(page.rows))

BudgetFormNext ==
    /\ Showing("budget_form")
    /\ \/ WindowLoad \/ AddRow \/ Timer \/ SaveRefused
       \/ \E i \in DOMAIN page.rows :
            \/ RemoveRow(i)
            \/ \E q \in QUANTITIES : EditQuantity(i, q)
            \/ \E c \in PRICES : EditPrice(i, c)

----------------------------------------------------------------------------
(* Properties *)

\* Once the timers have fired, the total shown is the one a save would compute, that
\* of the rows it keeps, if it was computed at all after the prices were masked and
\* no removed row came back with a refused save.  Before the first, the form shows a
\* tenth of a saved price that ends in a zero; a row that came back is visible and
\* counted, and the next save destroys it.
TotalReflectsItems ==
    /\ Showing("budget_form")
    /\ page.timers = 0 /\ page.recalculated
    /\ \A i \in DOMAIN page.rows : page.rows[i].destroy # "true"
    => page.total = SumOf(page.rows, [i \in DOMAIN page.rows |-> page.rows[i].cents], Kept)

=============================================================================
