CONSTANTS
    NoRepo = NoRepo
    Repos = {r1, r2}
    Kinds = {"work"}
    NPages = 1
    PushLevels = {0}
    KeepGoing = {FALSE}
    StopOnMods = {FALSE}
    Faults = {}
    MaxChanges = 1
    MaxRuns = 1
SPECIFICATION Spec
CHECK_DEADLOCK FALSE
PROPERTIES Terminates
