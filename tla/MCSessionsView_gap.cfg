SPECIFICATION Safety
CONSTANTS
    Nil = Nil
    Namespaces <- Two
    KeyOrder <- OneEach
    MaxChains = 2
    MaxReplicas = 1
    Scenarios <- Gone
INVARIANT SettledIsCurrent
CHECK_DEADLOCK FALSE
