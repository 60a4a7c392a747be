CONSTANTS
    NoRepo = NoRepo
    Repos = {r1, r2}
    CloneOpts = {TRUE, FALSE}
    MissingOpts = {TRUE, FALSE}
    UpstreamOpts = {TRUE, FALSE}
    Faults = {"fetch"}
    MaxChanges = 1
    MaxRuns = 1
CHECK_DEADLOCK FALSE
SPECIFICATION Spec
INVARIANTS FailureIsReported
