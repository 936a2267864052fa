SPECIFICATION Safety
CONSTANTS
    Nil = Nil
    Images = {"img"}
    Sizes = {"1Gi", "2Gi"}
    Hosts = {"h"}
    Scenarios <- Recreate
    UserSpecs <- SpecsGiven
    Budget <- Allowed
INVARIANTS
    AccountedInv
    WorkerHoldsLiveSession
    FinalizerGuardsChildren
PROPERTIES
    ImplementsLifecycleSafely
CHECK_DEADLOCK FALSE
