SPECIFICATION FairSpec
CONSTANTS
    Events = {e1, e2, bad}
    Poison = {bad}
    TypeOf <- MCTypeOf
    Handlers <- MCHandlers
    Subscribed <- MCSubscribed
    Limit = 2
    MaxFaults = 1
    MaxUnsubscribes = 1
    MayStop = TRUE
INVARIANT HandedOver
PROPERTY EventsPublished
CHECK_DEADLOCK FALSE
