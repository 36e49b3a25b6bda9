SPECIFICATION FairSpec
CONSTANTS
    RowsLimit = 2
    QueueLimit = 2
    MaxRows = 6
    MaxRuns = 3
INVARIANTS EveryRowSaved NewestKept
PROPERTIES DestructorReturns
CHECK_DEADLOCK FALSE
