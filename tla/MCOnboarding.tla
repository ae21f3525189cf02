---------------------------- MODULE MCOnboarding ----------------------------
EXTENDS Onboarding

\* One step the tour shows, between two stops that are no steps; the other step
\* (as created_first_work_order) is not on the tour.
MCTourSteps == <<NoStep, "created_budget", NoStep>>
=============================================================================
