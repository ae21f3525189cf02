SPECIFICATION Spec
CONSTANTS
    Period = 2
    CycleLead = 1
    WarnAfter = 0
    ExpireAfter = 1
    MaxSubs = 2
    MaxCharges = 2
    Handlers = {h1}
    Methods = {"pix","credit_card"}
    Plans = {"free","paid"}
    Jobs = {"notify", "finalize"}
    MaxDay = 3
    MaxFailures = 1
INVARIANTS PaidPlanWasPaid 
PROPERTIES  StarterKeptUntilPaid
CHECK_DEADLOCK FALSE
