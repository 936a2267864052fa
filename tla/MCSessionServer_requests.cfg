SPECIFICATION Safety
CONSTANTS
    Nil = Nil
    r1 = r1
    r2 = r2
    Ids = {"i1", "i2"}
    Servers = {"s1", "s2", "wide", "anon"}
    IdOf <- TwoIds
    ClusterScope = {"wide"}
    Asks <- AllAsks
    Ides = {"vscode"}
    Images = {"a", "b"}
    MaxInt32 = 2
    TooBig <- Saturates
    Requests = {r1, r2}
    Attempts = 3
    Loads <- OddAndAdopt
INVARIANT IInv
PROPERTIES
    ImplementsAtomicSessions
    AdoptionRespectsOwners
    AdoptedFromTheLastOwner
CHECK_DEADLOCK FALSE
SYMMETRY Alike
