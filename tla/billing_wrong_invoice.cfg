SPECIFICATION Spec
CONSTANTS
    Period = 2
    CycleLead = 1
    WarnAfter = 0
    ExpireAfter = 1
    MaxSubs = 3
    MaxCharges = 3
    Handlers = {h1}
    Methods = {"pix"}
    Plans = {"free"}
    Jobs = {"cycle"}
    MaxDay = 4
    MaxFailures = 0
INVARIANT InvoiceOfOwnPlan
CHECK_DEADLOCK FALSE
