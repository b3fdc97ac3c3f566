SPECIFICATION FairSpec
CONSTANTS
    c1 = c1
    Keys <- MCKeys
    Surface <- MCSurface
    Limits <- MCLimits
    Window = 3
    Second = 2
    GcEvery = 2
    t1 = t1
    t2 = t2
    Tasks = {t1, t2}
    Menu <- MCMenu
    Circuits = {c1}
    Functions = {"f1"}
    Invocations = {"v1", "v2"}
    MaxClock <- MCMaxClock
    MaxBoots = 2
    MaxRequests <- MCMaxRequests
    Faults = TRUE
CHECK_DEADLOCK FALSE
INVARIANTS
    WindowRespected
    RowsRefer
    InvocationsSettle
    RetryHelps
PROPERTIES
    EveryRequestAnswered
