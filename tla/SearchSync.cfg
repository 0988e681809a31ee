SPECIFICATION FairSpec
CONSTANTS
    e1 = e1
    ta = ta
    Entries = {e1}
    Types = {ta}
    TypeOf <- OneTypeOf
    Workers = {w1}
    Operators = {o1}
    MaxWrites = 2
    MaxFailures = 1
    NoWorker = NoWorker
    NoJob = NoJob
INVARIANTS
    
    ReindexRepairs

    
CHECK_DEADLOCK FALSE
