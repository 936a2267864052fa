SPECIFICATION Spec
CONSTANTS
    Nil = Nil
    Ids = {"i1", "i2"}
    Servers = {"s1", "s2", "wide", "anon"}
    IdOf <- TwoIds
    ClusterScope = {"wide"}
    Asks <- AllAsks
    Ides = {"vscode"}
    Images = {"a", "b"}
    MaxInt32 = 2
    TooBig <- Saturates
    Requests = {"r1", "r2"}
    Attempts = 3
    Loads <- ScaleLoads
PROPERTY RetrySucceeds
CHECK_DEADLOCK FALSE
