SPECIFICATION Spec
CONSTANTS
    Period = 2
    CycleLead = 1
    WarnAfter = 0
    ExpireAfter = 1
    MaxSubs = 2
    MaxCharges = 1
    Handlers = {h1}
    Methods = {"pix"}
    Plans = {"free"}
    Jobs = {}
    MaxDay = 2
    MaxFailures = 0
INVARIANT StarterGivesAccess
CHECK_DEADLOCK FALSE
