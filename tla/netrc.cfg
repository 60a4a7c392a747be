SPECIFICATION UserSpec
CONSTANTS
    Arguments <- MCArguments
    OtherOpts <- MCOtherOpts
    I32_MAX = 4
    FileWords <- MCFileWords
    Ports = {"443"}
    Broken = Broken
    Leftover <- MCLeftover
    Situations <- MCSituations
    Later <- MCLater
    MaxReplaced = 1
    Mangled = Mangled
    KindOf <- MCKindOf
    LinesOf <- MCLinesOf
    PROG = "parse-netrc"
    ApiHost = "api"
INVARIANTS
    TypeOK
    EveryArgumentCounts
    UserFollowsOption
    CurrentIsThere
    FirstMatchPrinted
    ParsedAsDeclared
    PlainFileIsAnswered
    NoMatchIsQuiet
    UserInEffect
PROPERTIES
    GrepLike
    Terminates
\* a run of the program ends
CHECK_DEADLOCK FALSE
