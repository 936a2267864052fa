SPECIFICATION Spec
CONSTANTS
    Nil = Nil
    Images = {"img"}
    Sizes = {"1Gi", "2Gi"}
    Hosts = {"h"}
    Scenarios <- Settles
    UserSpecs <- SpecsGiven
    Budget <- Allowed
INVARIANT WritesAreCaused
PROPERTIES
    Converges
    BlockedIsReported
    ImplementsLifecycle
CHECK_DEADLOCK FALSE
