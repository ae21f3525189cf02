------------------------------ MODULE Onboarding ------------------------------
(***************************************************************************)
(* First steps of a user: the row of user_onboarding_progresses, the       *)
(* requests that change it (controllers that mark a step, PATCHes of the   *)
(* dashboard), and the Stimulus controllers that send them: the welcome    *)
(* modal and the tour.  The checklist, which only shows the row, is in     *)
(* ChecklistPage.  Bootstrap and intro.js are taken to be loaded.          *)
(*                                                                         *)
(* A request is sent, loads the row, and saves the attributes it changed.  *)
(* PATCHes of the tour are not awaited, so several are on their way at a   *)
(* time and in any order.  They outlive the page.  Every navigation is a   *)
(* full page load.                                                         *)
(***************************************************************************)
EXTENDS Naturals, SequencesExt

CONSTANTS
    STEP_KEYS,    \* the steps of the onboarding
    NoStep,
    TourSteps,    \* the persist key of each stop of the tour found on the page
    MaxCalls,     \* bound on the requests on their way at a time
    MaxOps,       \* bound on steps marked or shown after the tour has started
    MaxLoads,     \* bound on page loads
    MaxFailures   \* bound on lost requests and failed answers

ASSUME StepAssumption == STEP_KEYS # {} /\ NoStep \notin STEP_KEYS
ASSUME TourAssumption == \* the first stop is the dashboard, which is no step
    TourSteps \in Seq(STEP_KEYS \cup {NoStep}) /\ Len(TourSteps) > 1 /\ TourSteps[1] = NoStep

VARIABLES
    progress,   \* the row
    calls,      \* requests that change it
    page,       \* the dashboard open in the browser
    failures,
    ops,
    loads,
    latest,     \* history: the step last marked or shown, until either of the two below
    overlapped, \* history: two requests about steps were on their way at once
    lost        \* history: a request about a step was lost

history == <<latest, overlapped, lost>>
vars == <<progress, calls, page, failures, ops, loads, history>>

Starters == {"auto", "welcome"}     \* what starts a tour: connect, the modal
N == Len(TourSteps)

Untouched == [done |-> {}, last_seen |-> NoStep, dismissed |-> FALSE, finished |-> FALSE]
Free == [at |-> "free"]
NoTour == [at |-> "off", index |-> 0]

\* set_onboarding_welcome_modal: the modal of a row without progress.
onboarding_welcome_eligible == progress = Untouched

Slots == 1 .. MaxCalls

\* A dashboard just loaded: the modal, and startTour up to its first await if the
\* URL asks to start the tour ("tour") or to start and resume it ("resume").
Loaded(welcome, url) ==
    [welcome |-> IF welcome THEN "shown" ELSE "hidden",
     resume_url |-> url = "resume",
     tours |-> [t \in Starters |->
                  [at |-> IF t = "welcome" THEN "off"
                          ELSE CASE url = "plain" -> "off"
                                 [] url = "tour" -> "fetching"
                                 [] url = "resume" -> "resuming",
                   index |-> 0]],
     persistable |-> FALSE]

----------------------------------------------------------------------------
(* Requests that change the row *)

AboutStep(op) == op \in {"complete_step", "set_last_seen"}
StepCallInFlight == \E s \in Slots : calls[s] # Free /\ AboutStep(calls[s].op)

\* sendOperation: a PATCH, in a free place; by is who awaits its answer.
NewCall(op, step, by) == [at |-> "sent", op |-> op, step |-> step, by |-> by]
FreeSlot == CHOOSE s \in Slots : calls[s] = Free

Send(op, step, by) ==
    /\ \E s \in Slots : calls[s] = Free
    /\ calls' = [calls EXCEPT ![FreeSlot] = NewCall(op, step, by)]
    /\ IF AboutStep(op)
         THEN /\ overlapped' = (overlapped \/ StepCallInFlight)
              /\ latest' = IF overlapped' \/ lost THEN NoStep ELSE step
              /\ UNCHANGED lost
         ELSE UNCHANGED history

Init ==
    /\ progress = Untouched
    /\ \E url \in {"plain", "tour", "resume"} :
         /\ page = Loaded(TRUE, url)
         /\ calls = [s \in Slots |-> IF s = 1 /\ url = "resume"
                                       THEN NewCall("resume", NoStep, "auto") ELSE Free]
    /\ failures = 0 /\ ops = 0 /\ loads = 0
    /\ latest = NoStep
    /\ overlapped = FALSE
    /\ lost = FALSE

\* The model's methods on a row loaded as p.
\* (A definition named ..._mutant is a wrong variant of the one that follows it.)
complete_step_finish_mutant(p, step) ==      \* asks finished? of the old steps
    [p EXCEPT !.done = @ \cup {step}, !.last_seen = step,
              !.finished = @ \/ p.done = STEP_KEYS]

complete_step_hash_mutant(p, step) ==        \* starts from an empty hash
    [p EXCEPT !.done = {step}, !.last_seen = step, !.finished = @ \/ {step} = STEP_KEYS]

complete_step(p, step) ==
    LET done == p.done \cup {step}
    IN  [p EXCEPT !.done = done, !.last_seen = step, !.finished = @ \/ done = STEP_KEYS]

set_last_seen_step_mutant(p, step) ==        \* last_seen_step ||= key
    [p EXCEPT !.last_seen = IF @ = NoStep THEN step ELSE @]

set_last_seen_step(p, step) == [p EXCEPT !.last_seen = step]

Changed(op, step, p) ==
    CASE op = "complete_step" -> complete_step(p, step)
      [] op = "set_last_seen" -> set_last_seen_step(p, step)
      [] op = "dismiss" -> [p EXCEPT !.dismissed = TRUE]
      [] op = "resume" -> [p EXCEPT !.dismissed = FALSE]

\* The server loads the row.  It will write the attributes that differ, and the
\* time of a dismissal in any case.
LoadRow(s) ==
    LET c == calls[s]
        new == Changed(c.op, c.step, progress)
        writes == {a \in DOMAIN new : \/ new[a] # progress[a]
                                      \/ a = "dismissed" /\ c.op = "dismiss"}
    IN  /\ c.at = "sent"
        /\ calls' = [calls EXCEPT ![s] = [at |-> "loaded", op |-> c.op, by |-> c.by,
                                          writes |-> Restrict(new, writes)]]
        /\ UNCHANGED <<progress, page, failures, ops, loads, history>>

\* The await of a request ends, answered or not: sendOperation swallows errors.
\* start and dismiss hide the modal; startTour goes on to fetchProgress.
Continue(by) ==
    page' = CASE by = "start" -> [page EXCEPT !.welcome = "closing"]
              [] by = "dismiss" -> [page EXCEPT !.welcome = "hidden"]
              [] by \in Starters -> [page EXCEPT !.tours[by].at = "fetching"]
              [] by = "nobody" -> page

\* The row after an UPDATE of some of its columns.
updated(row, writes) ==
    [a \in DOMAIN row |-> IF a \in DOMAIN writes THEN writes[a] ELSE row[a]]

\* The UPDATE and the answer.
SaveRow(s) ==
    LET c == calls[s]
    IN  /\ c.at = "loaded"
        /\ progress' = updated(progress, c.writes)
        /\ calls' = [calls EXCEPT ![s] = Free]
        /\ Continue(c.by)
        /\ UNCHANGED <<failures, ops, loads, history>>

Lose_mutant(s) ==                \* an error that is not rescued ends the handler
    /\ calls[s] # Free
    /\ failures < MaxFailures
    /\ failures' = failures + 1
    /\ calls' = [calls EXCEPT ![s] = Free]
    /\ UNCHANGED <<progress, page, ops, loads, history>>

\* The request is lost, dies, or is refused (the row created twice at once).
Lose(s) ==
    /\ calls[s] # Free
    /\ failures < MaxFailures
    /\ failures' = failures + 1
    /\ calls' = [calls EXCEPT ![s] = Free]
    /\ Continue(calls[s].by)
    /\ lost' = (lost \/ AboutStep(calls[s].op))
    /\ latest' = IF lost' THEN NoStep ELSE latest
    /\ UNCHANGED <<progress, ops, loads, overlapped>>

\* mark_onboarding_step of another page or tab, where the user works.
mark_onboarding_step(k) ==
    /\ ops < MaxOps
    /\ ops' = ops + 1
    /\ Send("complete_step", k, "nobody")
    /\ UNCHANGED <<progress, page, failures, loads>>

----------------------------------------------------------------------------
(* The welcome modal *)

Comecar ==
    /\ page.welcome = "shown"
    /\ page' = [page EXCEPT !.welcome = "busy"]
    /\ Send("resume", NoStep, "start")
    /\ UNCHANGED <<progress, failures, ops, loads>>

Pular ==
    /\ page.welcome = "shown"
    /\ page' = [page EXCEPT !.welcome = "busy"]
    /\ Send("dismiss", NoStep, "dismiss")
    /\ UNCHANGED <<progress, failures, ops, loads>>

----------------------------------------------------------------------------
(* The tour *)

\* onWelcomeStarted, 220 ms after the modal is hidden: startTour up to its first
\* await.
onWelcomeStarted ==
    /\ page.welcome = "closing"
    /\ page' = [page EXCEPT !.welcome = "hidden",
                            !.tours["welcome"].at =
                                IF page.resume_url THEN "resuming" ELSE "fetching"]
    /\ IF page.resume_url
         THEN Send("resume", NoStep, "welcome")
         ELSE UNCHANGED <<calls, history>>
    /\ UNCHANGED <<progress, failures, ops, loads>>

\* The stop after the one of the step seen last, the first one if there is none.
findResumeIndex(last) ==
    IF last \in STEP_KEYS /\ last \in Range(TourSteps)
      THEN LET p == CHOOSE i \in 1 .. N : TourSteps[i] = last
           IN  IF p < N THEN p + 1 ELSE N
      ELSE 1

\* The answer of fetchProgress: where to resume; 0 stands for null.
fetchProgress(t) ==
    /\ page.tours[t].at = "fetching"
    /\ \/ /\ page' = [page EXCEPT !.tours[t] =
                        [at |-> "fetched", index |-> findResumeIndex(progress.last_seen)]]
          /\ UNCHANGED failures
       \/ /\ failures < MaxFailures
          /\ failures' = failures + 1
          /\ page' = [page EXCEPT !.tours[t] = [at |-> "fetched", index |-> 0]]
    /\ UNCHANGED <<progress, calls, ops, loads, history>>

\* onchange: the stop i is shown, and saved if it stands for a step.
ShowStop(t, i, persistable) ==
    /\ page' = [page EXCEPT !.tours[t] = [at |-> "running", index |-> i],
                            !.persistable = persistable]
    /\ IF persistable /\ TourSteps[i] # NoStep
         THEN Send("set_last_seen", TourSteps[i], "nobody")
         ELSE UNCHANGED <<calls, history>>

\* The rest of startTour: start and goToStep.  Without the answer nothing is
\* persistable, in either tour of the page.
RunTour(t) ==
    LET index == page.tours[t].index
    IN  /\ page.tours[t].at = "fetched"
        /\ ShowStop(t, IF index = 0 THEN 1 ELSE index, index # 0)
        /\ UNCHANGED <<progress, failures, ops, loads>>

MoveTour(t, i) ==
    /\ page.tours[t].at = "running"
    /\ i \in {page.tours[t].index - 1, page.tours[t].index + 1} \cap (1 .. N)
    /\ ops < MaxOps
    /\ ops' = ops + 1
    /\ ShowStop(t, i, page.persistable)
    /\ UNCHANGED <<progress, failures, loads>>

\* onexit, oncomplete: clearAutoStartParam.
ExitTour(t) ==
    /\ page.tours[t].at = "running"
    /\ page' = [page EXCEPT !.tours[t] = NoTour, !.resume_url = FALSE]
    /\ UNCHANGED <<progress, calls, failures, ops, loads, history>>

----------------------------------------------------------------------------
\* The user opens the dashboard again; nobody awaits the old requests any more.
LoadPage(url) ==
    LET old == [s \in Slots |-> IF calls[s] = Free THEN Free
                                ELSE [calls[s] EXCEPT !.by = "nobody"]]
    IN  /\ loads < MaxLoads
        /\ loads' = loads + 1
        /\ page' = Loaded(onboarding_welcome_eligible, url)
        /\ IF url = "resume"
             THEN /\ \E s \in Slots : calls[s] = Free
                  /\ calls' = [old EXCEPT ![FreeSlot] = NewCall("resume", NoStep, "auto")]
             ELSE calls' = old
        /\ UNCHANGED <<progress, failures, ops, history>>

Server(s) == LoadRow(s) \/ SaveRow(s)
Tour(t) == fetchProgress(t) \/ RunTour(t)

User == \/ \E k \in STEP_KEYS : mark_onboarding_step(k)
        \/ Comecar \/ Pular
        \/ \E t \in Starters : ExitTour(t) \/ \E i \in 1 .. N : MoveTour(t, i)
        \/ \E url \in {"plain", "tour", "resume"} : LoadPage(url)

Next == \/ User
        \/ \E s \in Slots : Server(s) \/ Lose(s)
        \/ \E t \in Starters : Tour(t)
        \/ onWelcomeStarted

Spec == Init /\ [][Next]_vars

\* Requests run to their end, timers fire, answers are handled; nothing is asked
\* of the user.
Fairness == /\ \A s \in Slots : WF_vars(Server(s))
            /\ \A t \in Starters : WF_vars(Tour(t))
            /\ WF_vars(onWelcomeStarted)

FairSpec == Spec /\ Fairness

----------------------------------------------------------------------------
(* Properties *)

\* The user who has done every step has finished, whatever updates were lost on
\* the way: finished_at is saved by the request that completes the set.
FinishedWithLastStep == progress.done = STEP_KEYS => progress.finished

\* Once nothing is on its way, last_seen_step is the step last marked or shown,
\* unless two requests about steps overlapped or one was lost: the tour resumes
\* after it.
LastSeenIsLatest ==
    ~overlapped /\ ~lost /\ ~StepCallInFlight => progress.last_seen = latest

\* A completed step is not undone, whatever was lost, unless two requests about
\* steps overlapped: each writes the whole hash.
StepsStick == [][overlapped \/ progress.done \subseteq progress'.done]_vars

\* The modal and the tour never wait for ever, also when requests are lost: the
\* modal is hidden and the tour starts, or the user has opened the page again.
Waiting ==
    \/ page.welcome \in {"busy", "closing"}
    \/ \E t \in Starters : page.tours[t].at \in {"resuming", "fetching", "fetched"}
ScreenNeverHangs == Waiting ~> ~Waiting

=============================================================================
