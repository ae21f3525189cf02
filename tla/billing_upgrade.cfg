SPECIFICATION Spec
CONSTANTS
    Period = 2
    CycleLead = 1
    WarnAfter = 0
    ExpireAfter = 1
    MaxSubs = 3
    MaxCharges = 2
    Handlers = {h1, h2}
    Methods = {"pix"}
    Plans = {"free"}
    Jobs = {}
    MaxDay = 1
    MaxFailures = 0
INVARIANT StarterNeverBilled
PROPERTIES OnlyOverlapDoubles StarterKeptUntilPaid
SYMMETRY HandlerSymmetry
CHECK_DEADLOCK FALSE
