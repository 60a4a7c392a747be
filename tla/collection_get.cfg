SPECIFICATION Spec
CONSTANTS
    MaxPage = 4
    MaxBg = 2
    CachedOnly = FALSE
    MaxClears = 0
    MayBeKilled = TRUE
INVARIANTS
    TypeOK
    BoundedChildren
    TmpOutlivesChildren
    FreshPages
    SecondPassFinds
    NoTroubleNoFailure
PROPERTY StreamSpec
\* an invocation ends
CHECK_DEADLOCK FALSE
