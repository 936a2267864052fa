SPECIFICATION Safety
CONSTANTS
    Nil = Nil
    Images = {"img"}
    Sizes = {"1Gi", "2Gi"}
    Hosts = {"h"}
    Scenarios <- Edits
    UserSpecs <- SpecsGiven
    Budget <- Allowed
INVARIANTS
    TypeOK
    NeverForgotten
PROPERTIES
    NoLostEdit
    StatusDescribesSpec
CHECK_DEADLOCK FALSE
