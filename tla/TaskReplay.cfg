SPECIFICATION Spec
CONSTANTS
    Calls = {c1, c2}
    Kinds = {"active", "needs_approval", "code_review", "granted", "qa"}
    CheckpointEvery = 2
    MaxAppends = 4
    MaxCrashes = 0
INVARIANT
    ReplayEqualsFold
CHECK_DEADLOCK FALSE
