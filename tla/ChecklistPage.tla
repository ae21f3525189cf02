---------------------------- MODULE ChecklistPage ----------------------------
(***************************************************************************)
(* The onboarding checklist of the dashboard: a Stimulus controller that   *)
(* asks the server for the completed steps when it connects, every 20      *)
(* seconds and whenever the tab becomes visible, without waiting for the   *)
(* answers of earlier requests, and shows each answer as it comes.         *)
(***************************************************************************)
EXTENDS Naturals, SequencesExt, OpenPage

CONSTANTS
    CHECKLIST_STEPS,
    MaxAnswers,     \* bound on the requests on their way at a time
    MaxOverwrites   \* bound on steps lost to a save from an older copy of the row

ASSUME AnswersAssumption == MaxAnswers \in Nat \ {0}

VARIABLES
    completed,      \* the steps completed, in the user's row
    finished,       \* its finished_at is set: once set it stays
    overwrites

progress == <<completed, finished, overwrites>>

Asked == [at |-> "asked", steps |-> {}, finished |-> FALSE]

\* The page as connect leaves it.  details is visible until the first answer,
\* whatever detailsExpanded says.
NewChecklist ==
    [kind |-> "checklist", shown |-> {}, summary |-> FALSE, detailsExpanded |-> FALSE,
     details |-> TRUE, error |-> FALSE, answers |-> <<Asked>>]

\* (A definition named ..._mutant is a wrong variant of the one that follows it.)
refresh_mutant ==                \* asks again only after an error
    /\ page.error
    /\ Len(page.answers) < MaxAnswers
    /\ page' = [page EXCEPT !.answers = Append(@, Asked)]

\* The interval, or the tab becomes visible.
refresh ==
    /\ Len(page.answers) < MaxAnswers
    /\ page' = [page EXCEPT !.answers = Append(@, Asked)]

\* The server reads the row.
ReadProgress(i) ==
    /\ page.answers[i].at = "asked"
    /\ page' = [page EXCEPT !.answers[i] =
                  [at |-> "read", steps |-> completed, finished |-> finished]]

\* The request or its answer is lost, or the server fails: any number of times.
FailProgress(i) ==
    /\ page.answers[i].at # "failed"
    /\ page' = [page EXCEPT !.answers[i] = [Asked EXCEPT !.at = "failed"]]

\* An answer comes: renderSteps, the summary, applyDetailsVisibility, hideError.
renderPayload(i) ==
    LET data == page.answers[i]
        expanded == page.detailsExpanded /\ ~data.finished
    IN  /\ data.at = "read"
        /\ page' = [page EXCEPT !.shown = data.steps, !.summary = data.finished,
                                !.detailsExpanded = expanded, !.details = expanded,
                                !.error = FALSE, !.answers = RemoveAt(@, i)]

showError(i) ==
    /\ page.answers[i].at = "failed"
    /\ page' = [page EXCEPT !.error = TRUE, !.answers = RemoveAt(@, i)]

toggleDetails ==
    page' = [page EXCEPT !.detailsExpanded = ~@, !.details = ~page.detailsExpanded]

\* complete_step!, in another tab or by another request, on the copy of the row it
\* loaded: a step completed meanwhile is lost, finished_at is not.
CompleteStep ==
    /\ \E k \in CHECKLIST_STEPS : \E loaded \in SUBSET (completed \ {k}) :
         LET steps == loaded \cup {k}
             overwrites_some == ~(completed \subseteq steps)
         IN  /\ overwrites_some => overwrites < MaxOverwrites
             /\ completed' = steps
             /\ finished' = (finished \/ steps = CHECKLIST_STEPS)
             /\ overwrites' = IF overwrites_some THEN overwrites + 1 ELSE overwrites
    /\ UNCHANGED page

Answered(i) == ReadProgress(i) \/ renderPayload(i) \/ showError(i)

ChecklistScript ==
    /\ Showing("checklist")
    /\ refresh \/ \E i \in DOMAIN page.answers : Answered(i)
    /\ UNCHANGED progress

ChecklistNext ==
    \/ ChecklistScript
    \/ /\ Showing("checklist")
       /\ \/ CompleteStep
          \/ (toggleDetails \/ \E i \in DOMAIN page.answers : FailProgress(i))
             /\ UNCHANGED progress

\* The interval goes on firing, what has failed is handled, and of the requests sent
\* again and again some are answered and some answers arrive.
ChecklistFairness ==
    LET fields == <<page, progress>>
        Step(A) == Showing("checklist") /\ A /\ UNCHANGED progress
    IN  /\ WF_fields(Step(refresh))
        /\ WF_fields(Step(\E i \in DOMAIN page.answers : Answered(i)))
        /\ SF_fields(Step(\E i \in DOMAIN page.answers : ReadProgress(i)))
        /\ SF_fields(Step(\E i \in DOMAIN page.answers : renderPayload(i)))

----------------------------------------------------------------------------
(* Properties *)

\* Answers may be shown out of order, any number of them may fail, and a step may
\* be lost after finished_at was set: as long as the page stays open and not every
\* request fails, the checklist comes to show the completed steps again, with the
\* summary exactly if finished_at is set, and without an error.
ChecklistCatchesUp ==
    []<>(Showing("checklist") =>
           page.shown = completed /\ page.summary = finished /\ ~page.error)

=============================================================================
