SPECIFICATION FairSpec
CONSTANTS
    w1 = w1
    w2 = w2
    w3 = w3
    u1 = u1
    u2 = u2
    j1 = j1
    j2 = j2
    j3 = j3
    NoJob = NoJob
    Workers <- ThreeWorkers
    Users <- TwoUsers
    Jobs <- ThreeJobs
INVARIANTS TypeOK NoIdleHands NothingForgotten
PROPERTIES ImplementsTaskQueue EveryJobRuns DestructorEnds
CHECK_DEADLOCK FALSE
