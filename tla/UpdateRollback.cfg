SPECIFICATION Spec
CONSTANTS
    Calls = {u1}
    ExeFollows = FALSE
    ChecksPerLife = 1
    MaxLives = 2
PROPERTY
    RolledBackAfterCrash
CHECK_DEADLOCK FALSE
