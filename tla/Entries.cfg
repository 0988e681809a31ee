SPECIFICATION CSpec
CONSTANTS
    Entries = {e1}
    Versions = {v1, v2, v3, v4}
    Requests = {r1, r2}
    Fields = {f1}
    Values = {unset, a}
    Unset = unset
    Times = {t1, t2}
    NoEntry = NoEntry
    NoVersion = NoVersion
    NoData = NoData
    Never = Never
    Contested = Contested
SYMMETRY Interchangeable
ACTION_CONSTRAINT OneRace
INVARIANTS
    TableIsRegular
    VersionsFillTheirSlots
PROPERTIES
    OutboxKeepsUp
    ArchivedIsHistory
    PublishesContent
