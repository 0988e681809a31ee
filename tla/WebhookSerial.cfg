SPECIFICATION FairSpec
CONSTANTS
    Deliveries = {d1, d2}
    External = {x}
    Internal = {i, j}
    Handlers = {i}
    Ticks = {t1}
    Editors = {}
    MaxAttempts = 4
    BatchSize = 2
    MaxCrashes = 1
    MaxSeen = 6
    NoDelivery = NoDelivery
    NoWebhook = NoWebhook

    
    
PROPERTIES
    
    EveryDeliveryIsSettled
