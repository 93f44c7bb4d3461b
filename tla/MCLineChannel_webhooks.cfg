\* Webhooks that fail and are delivered again.
SPECIFICATION FairSpec
CONSTANTS
    Server = {s1, s2}
    Worker = {w1}
    Delivery = {d1, d2}
    Body <- Bodies
    None = None
    MaxFaults = 1
    MaxDeliveries = 2
    MaxPushes = 1
INVARIANTS PromisesKept AckedIsHandled
PROPERTY FirstBecomesTask
CHECK_DEADLOCK FALSE
