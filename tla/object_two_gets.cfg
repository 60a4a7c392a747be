SPECIFICATION Spec
CONSTANTS
    Writers = {w1, w2}
    Readers = {}
    Clearers = {}
    Versions = {1, 2}
    MayRevert = FALSE
    MaxDeaths = 0
    Absent = Absent
    Empty = Empty
    Partial = Partial
    NoTag = NoTag
    NoProc = NoProc
    w2 = w2
    w1 = w1
INVARIANTS
    FreshGetAlone
