SPECIFICATION FairSpec
CONSTANTS
    Period = 2
    CycleLead = 1
    WarnAfter = 0
    ExpireAfter = 1
    MaxSubs = 1
    MaxCharges = 1
    Handlers = {h1}
    Methods = {"pix"}
    Plans = {"paid"}
    Jobs = {"cycle", "finalize", "reconcile"}
    MaxDay = 4
    MaxFailures = 1
INVARIANTS TypeOK AccessAgrees
PROPERTIES  DueCancellationTakesEffect PaymentEventuallyApplied
CHECK_DEADLOCK FALSE
