SPECIFICATION Safety
CONSTANTS
    Nil = Nil
    r1 = r1
    r2 = r2
    r3 = r3
    Ids = {"i1", "i2"}
    Servers = {"s1", "s2", "wide", "anon"}
    IdOf <- TwoIds
    ClusterScope = {"wide"}
    Asks <- AllAsks
    Ides = {"vscode"}
    Images = {"a", "b"}
    MaxInt32 = 2
    TooBig <- WrapsRound
    Requests = {r1, r2, r3}
    Attempts = 3
    Loads <- EditLoads
INVARIANT TypeOK
PROPERTIES
    UpdatesAreAtomic
    ScopedServersKeepToTheirOwn
    
CHECK_DEADLOCK FALSE
SYMMETRY Alike
