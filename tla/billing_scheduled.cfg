SPECIFICATION Spec
CONSTANTS
    Period = 2
    CycleLead = 1
    WarnAfter = 0
    ExpireAfter = 1
    MaxSubs = 1
    MaxCharges = 2
    Handlers = {h1}
    Methods = {"pix"}
    Plans = {"paid"}
    Jobs = {"cycle"}
    MaxDay = 4
    MaxFailures = 0
PROPERTY ScheduledStaysActive
CHECK_DEADLOCK FALSE
