CONSTANTS
    NoRepo = NoRepo
    Repos = {r1, r2}
    Kinds = {"work"}
    NPages = 2
    PushLevels = {0, 1, 2}
    KeepGoing = {TRUE, FALSE}
    StopOnMods = {FALSE}
    Faults = {"page"}
    MaxChanges = 1
    MaxRuns = 1
CHECK_DEADLOCK FALSE
SPECIFICATION Spec
INVARIANTS SuccessMeansMerged
