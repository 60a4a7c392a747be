CONSTANTS
    NoRepo = NoRepo
    Repos = {r1, r2}
    CloneOpts = {TRUE, FALSE}
    MissingOpts = {TRUE, FALSE}
    UpstreamOpts = {TRUE, FALSE}
    Faults = {"list", "clone", "remote", "query", "add", "fetch", "kill"}
    MaxChanges = 2
    MaxRuns = 2
CHECK_DEADLOCK FALSE
SPECIFICATION Spec
INVARIANTS TypeOK MissingOnly SuccessMeansFetched RequestedIsThere
PROPERTIES LeavesTreesAlone FetchesInTurn
