----------------------------- MODULE CalendarPage -----------------------------
(***************************************************************************)
(* The calendar of orders: FullCalendar asks for the events of a range     *)
(* each time the range or the technician filter changes, and drops the     *)
(* answers of all queries but the last; the list of technicians is asked   *)
(* for once the first query has been answered.  The range itself, and the  *)
(* colours and titles of the events, are left out.                         *)
(***************************************************************************)
EXTENDS Naturals, FiniteSets, OpenPage

CONSTANTS
    TECHNICIANS,
    TechniciansOf,   \* the technicians of each order that has a start
    MaxListLoads     \* bound on requests for the technicians at a time

ASSUME OrdersAssumption == \A o \in DOMAIN TechniciansOf : TechniciansOf[o] \subseteq TECHNICIANS

NoQuery == [pending |-> FALSE, ids |-> {}]

\* The page as connect leaves it: render has sent the first query, unless the library
\* did not load, when nothing at all happens.
NewCalendar(fullCalendar) ==
    [kind |-> "calendar", fullCalendar |-> fullCalendar, wrapperRevealed |-> FALSE, techniciansLoaded |-> FALSE,
     options |-> "placeholder", enabled |-> TRUE, selection |-> {},
     selectedTechnicianIdsState |-> {}, query |-> [pending |-> fullCalendar, ids |-> {}],
     shown |-> {}, listLoads |-> 0,
     failed |-> FALSE,       \* history: the query answered last has failed
     overlapped |-> FALSE]   \* history: two requests for the technicians overlapped

\* CalendarController#events.
events(ids) ==
    {o \in DOMAIN TechniciansOf : ids = {} \/ TechniciansOf[o] \cap ids # {}}

\* One entry per order, or one for each selected technician of an order.
buildCalendarEvents(orders, ids) ==
    IF ids = {} THEN {<<o, {}>> : o \in orders}
    ELSE UNION {{<<o, {t}>> : t \in TechniciansOf[o] \cap ids} : o \in orders}

\* fetchCalendarEvents up to its await.
fetchCalendarEvents(p) ==
    [p EXCEPT !.query = [pending |-> TRUE, ids |-> p.selectedTechnicianIdsState]]

syncSelectedTechnicianIds(p) == [p EXCEPT !.selectedTechnicianIdsState = p.selection]

reloadEvents_mutant(p) == fetchCalendarEvents(p)      \* without the sync

reloadEvents(p) == fetchCalendarEvents(syncSelectedTechnicianIds(p))

\* loadTechnicians up to its await.
loadTechnicians(p) ==
    [p EXCEPT !.options = "loading", !.enabled = FALSE, !.selection = {},
              !.listLoads = @ + 1, !.overlapped = @ \/ p.listLoads > 0]

\* loading(false): nothing is awaited any more.
loading(p) ==
    LET q == [p EXCEPT !.wrapperRevealed = TRUE]
    IN  IF p.techniciansLoaded THEN q ELSE loadTechnicians(q)

EventsAnswered_mutant(ok) ==     \* an error leaves before the callbacks
    /\ page.query.pending
    /\ page.techniciansLoaded \/ page.listLoads < MaxListLoads
    /\ LET ids == page.query.ids
       IN  page' = IF ok THEN loading([page EXCEPT !.shown = buildCalendarEvents(events(ids), ids),
                                                   !.query = NoQuery, !.failed = FALSE])
                   ELSE [page EXCEPT !.query = NoQuery, !.failed = TRUE]

\* The last query is answered: successCallback, or an alert and failureCallback;
\* then FullCalendar is not loading any more.
EventsAnswered(ok) ==
    /\ page.query.pending
    /\ page.techniciansLoaded \/ page.listLoads < MaxListLoads
    /\ LET ids == page.query.ids
       IN  page' = loading([page EXCEPT
                      !.shown = IF ok THEN buildCalendarEvents(events(ids), ids) ELSE @,
                      !.query = NoQuery, !.failed = ~ok])

\* The rest of loadTechnicians: new options select nobody; the filter is enabled
\* also after an error.
TechniciansAnswered(ok) ==
    LET p == [page EXCEPT !.listLoads = @ - 1, !.enabled = TRUE, !.selection = {}]
    IN  /\ page.listLoads > 0
        /\ page' = IF ok THEN [syncSelectedTechnicianIds(p) EXCEPT
                                  !.options = "technicians", !.techniciansLoaded = TRUE]
                   ELSE [p EXCEPT !.options = "failed"]

\* The user selects or clears a technician.
SelectTechnician(t) ==
    /\ page.enabled
    /\ page.options = "technicians"
    /\ LET chosen == IF t \in page.selection THEN page.selection \ {t}
                     ELSE page.selection \cup {t}
       IN  page' = reloadEvents([page EXCEPT !.selection = chosen,
                                             !.overlapped = @ /\ page.listLoads > 0])

\* prev, next, today, another view.
Navigate ==
    /\ page.fullCalendar
    /\ page' = fetchCalendarEvents(page)

CalendarScript ==
    /\ Showing("calendar")
    /\ \E ok \in BOOLEAN : EventsAnswered(ok) \/ TechniciansAnswered(ok)

CalendarNext ==
    \/ CalendarScript
    \/ /\ Showing("calendar")
       /\ Navigate \/ \E t \in TECHNICIANS : SelectTechnician(t)

\* Queries are answered, or fail.
CalendarFairness ==
    /\ WF_page(Showing("calendar") /\ \E ok \in BOOLEAN : EventsAnswered(ok))
    /\ WF_page(Showing("calendar") /\ \E ok \in BOOLEAN : TechniciansAnswered(ok))

----------------------------------------------------------------------------
(* Properties *)

\* Once nothing is awaited, the entries shown are those of the technicians
\* selected in the filter, unless the last query failed, or two requests for the
\* technicians overlapped and the filter was not used since: the later answer
\* then empties the filter and keeps the entries.
CalendarAgrees ==
    /\ Showing("calendar") /\ page.fullCalendar
    /\ ~page.query.pending /\ page.listLoads = 0
    /\ ~page.failed /\ ~page.overlapped
    => page.shown = buildCalendarEvents(events(page.selection), page.selection)

\* The page is drawn invisible: it is revealed, also when no query ever succeeds, if
\* the library loaded.  (Without it connect returns and the page stays invisible.)
PageRevealed ==
    LET Loaded == Showing("calendar") /\ page.fullCalendar
    IN  Loaded ~> (~Loaded \/ page.wrapperRevealed)

=============================================================================
