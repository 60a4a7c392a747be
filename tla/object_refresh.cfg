SPECIFICATION Spec
CONSTANTS
    Writers = {w1}
    Readers = {r1}
    Clearers = {}
    Versions = {1, 2, 3, 4}
    MayRevert = FALSE
    MaxDeaths = 1
    Absent = Absent
    Empty = Empty
    Partial = Partial
    NoTag = NoTag
    NoProc = NoProc
    r1 = r1
    w1 = w1
INVARIANTS
    TypeOK
    FreshGet
    FallThroughInCache
    StoredPairMatches
