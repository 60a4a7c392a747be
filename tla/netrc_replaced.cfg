SPECIFICATION UserSpec
CONSTANTS
    Arguments <- MCArguments
    OtherOpts <- MCOtherOpts
    I32_MAX = 4
    FileWords <- MCFileWords
    Ports = {"443"}
    Broken = Broken
    Leftover <- MCLeftover
    Situations <- MCPlainSituations
    Later <- MCLater
    MaxReplaced = 1
    Mangled = Mangled
    KindOf <- MCKindOf
    LinesOf <- MCLinesOf
    PROG = "parse-netrc"
    ApiHost = "api"
INVARIANTS
    OwnCache
CHECK_DEADLOCK FALSE
