CONSTANTS
    NoRepo = NoRepo
    r1 = r1
    r2 = r2
    Repos = {r1, r2}
    Kinds = {"unknown", "own", "noDir", "noRemote", "noOrigin", "noBranch", "likeBranch", "work"}
    NPages = 2
    PushLevels = {0, 1, 2}
    KeepGoing = {TRUE, FALSE}
    StopOnMods = {TRUE, FALSE}
    Faults = {"tool", "remotes", "checkout", "merge", "push", "restore", "kill"}
    MaxChanges = 3
    MaxRuns = 2
\* the program has ended, and no more invocations or changes are left
CHECK_DEADLOCK FALSE
SPECIFICATION MCSpec
INVARIANTS TypeOK SuccessMeansMerged ProcessedRestored MissingIsError
PROPERTIES NoLostCommits LeavesAlone Terminates MergesInTurn
