SPECIFICATION Spec
CONSTANTS
    Nil = Nil
    Namespaces <- Two
    KeyOrder <- OneEach
    MaxChains = 2
    MaxReplicas = 1
    Scenarios <- Lively
INVARIANTS
    TypeOK
    LoadingMeansAsked
    ViewInv
PROPERTIES
    SyncIsKept
    ListSyncs
    RefreshHeals
    
CHECK_DEADLOCK FALSE
