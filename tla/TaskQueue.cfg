SPECIFICATION FairSpec
CONSTANTS
    None = None
    Tasks = {t1}
    Agents = {a1, a2}
    Settable = {"pending", "in_progress", "in_qa", "done"}
    FileStatuses = {"pending", "in_progress", "blocked"}
    Timeout = 1
    Visible = 1
    MaxCrashes = 1
INVARIANTS
    TypeOK
    OneAgentPerTask
    ClaimedHasHeartbeat
PROPERTIES
    AbandonedIsInterrupted
    DoneIsArchived
