SPECIFICATION Safety
CONSTANTS
    Nil = Nil
    Users = {"ann", "bob"}
    Privileged = {"ann"}
    Scenarios <- Once
INVARIANT SingleSourceOfTruth
CHECK_DEADLOCK FALSE
