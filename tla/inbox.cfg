SPECIFICATION FairSpec
CONSTANTS
    Keys = {k1, k2}
    Handlers = {h1, h2}
    NoKey = NoKey
    NoHandler = NoHandler
    MaxCrashes = 1
INVARIANTS TypeOK AppliedOnce AckedWasApplied OneProcessor SyncedOrLost
PROPERTIES EventuallyAcked ImplementsLedger
