SPECIFICATION FairSpec
CONSTANTS
    Types = {a}
    Lists = {l}
    Queries = {q}
    Depends <- SameDepends
    Harvested <- SameHarvested
    Readers = {r1, r2}
    Workers = {w1}
    MaxVersion = 1
    Ttl = 2
    NoValue = NoValue
    NoJob = NoJob
    a = a
    b = b
    l = l
    q = q
INVARIANTS
    MissedChangesAreAhead
    IndexOutlivesValues
PROPERTIES
    StaleValuesGo
