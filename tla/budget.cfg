SPECIFICATION Spec
CONSTANTS
    Requests = {r1, r2}
    MaxOrders = 2
    MaxEdits = 2
SYMMETRY RequestSymmetry
INVARIANTS
    OneOrder
    StampsAgree
PROPERTY
    ApprovalStands
