SPECIFICATION MCSpec
CONSTANTS
    Writers = {w1}
    Readers = {}
    Clearers = {c1}
    Versions = {1, 2}
    MayRevert = TRUE
    MaxDeaths = 1
    Absent = Absent
    Empty = Empty
    Partial = Partial
    NoTag = NoTag
    NoProc = NoProc
    c1 = c1
    w1 = w1
PROPERTIES
    FreshSinceClear
