SPECIFICATION Spec
CONSTANTS
    MaxPage = 4
    MaxBg = 3
    CachedOnly = TRUE
    MaxClears = 1
    MayBeKilled = FALSE
PROPERTY Terminates
\* an invocation ends
CHECK_DEADLOCK FALSE
