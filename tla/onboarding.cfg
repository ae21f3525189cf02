CHECK_DEADLOCK FALSE
SPECIFICATION FairSpec
CONSTANTS
    STEP_KEYS = {"created_budget", "created_first_work_order"}
    NoStep = "none"
    TourSteps <- MCTourSteps
    MaxCalls = 2
    MaxOps = 2
    MaxLoads = 1
    MaxFailures = 1
INVARIANTS FinishedWithLastStep LastSeenIsLatest
PROPERTIES StepsStick ScreenNeverHangs
