SPECIFICATION Spec
CONSTANTS
    Deliveries = {d1, d2}
    External = {x}
    Internal = {}
    Handlers = {}
    Ticks = {t1, t2}
    Editors = {c1}
    MaxAttempts = 2
    BatchSize = 1
    MaxCrashes = 0
    MaxSeen = 3
    NoDelivery = NoDelivery
    NoWebhook = NoWebhook
SYMMETRY OverlapSymmetry
INVARIANTS
    OutboxIsSound
