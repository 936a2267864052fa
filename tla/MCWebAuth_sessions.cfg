SPECIFICATION Spec
CONSTANTS
    Nil = Nil
    Users = {"ann", "bob"}
    Privileged = {"ann"}
    Scenarios <- Mixed
INVARIANTS
    TypeOK
    ContentIsConfirmed
PROPERTIES
    GuardDecides
    LoginGetsIn
    
CHECK_DEADLOCK FALSE
