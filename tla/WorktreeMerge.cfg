SPECIFICATION Spec
CONSTANTS
    Tasks = {t1}
    Calls = {c1}
    User = User
    MaxCommits = 2
    MaxRestarts = 0
PROPERTY
    MainOnlyGrows
CHECK_DEADLOCK FALSE
