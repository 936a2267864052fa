SPECIFICATION Safety
CONSTANTS
    Nil = Nil
    Namespaces <- Two
    Situations <- Regrants
    Reloads = 1
INVARIANTS
    TypeOK
    
PROPERTIES
    OfferedChoiceSticks
    CreateIsNotRefused
    RememberedStands
CHECK_DEADLOCK FALSE
