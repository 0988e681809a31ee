SPECIFICATION GSpec
CONSTANTS
    Builds = {b1, b2}
    Clients = {c1, c2}
    Editors = {e1}
    NoBuild = NoBuild
    NoSchema = NoSchema
    MaxTypes = 2
    MaxOrder = 1
    TypeIds = {A, B, C}
    TypesAt <- MCTypesAt
    Entries = {p, q, r}
    TypeOf <- MCTypeOf
    LastVersion <- MCLastVersion
    ContentOf <- MCContentOf
    Nobody = Nobody
    NoNumber = NoNumber
    NoFilter = NoFilter
    MaxFilterDepth = 2
    Wheres <- MCWheres
    A = A
    B = B
    C = C
    p = p
    q = q
    r = r
INVARIANTS
    EveryAnswerIsHarvested
