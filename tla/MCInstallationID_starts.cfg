SPECIFICATION Safety
CONSTANTS
    Nil = Nil
    Replicas = {"p1", "p2", "p3"}
    Situations <- Sane
    Restarts = 2
INVARIANTS
    TypeOK
    OneInstallation
PROPERTY StoredIdStands
CHECK_DEADLOCK FALSE
