CONSTANTS
    a = a
    b = b
    c = c
    x = x
    Absent = Absent
    NoHash = NoHash
    Source = {a, b}
    External = {x}
    Content = {1, 2}
    Bad = {}
    Size <- SizeWithEmpty
    Uses <- ChainUses
    MaxStamp = 1
    MayCrash = TRUE
    MayRevert = FALSE
    MayRemove = FALSE
    MayLose = FALSE
    MayFailWrite = FALSE
SPECIFICATION Spec
INVARIANTS TypeOK UpToDate
PROPERTY ImplementsBuildService
