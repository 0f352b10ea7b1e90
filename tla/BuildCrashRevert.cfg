CONSTANTS
    a = a
    b = b
    c = c
    x = x
    Absent = Absent
    NoHash = NoHash
    Source = {a}
    External = {}
    Content = {1, 2}
    Bad = {}
    Size <- SizeOfContent
    Uses <- ChainUses
    MaxStamp = 0
    MayCrash = TRUE
    MayRevert = TRUE
    MayRemove = FALSE
    MayLose = FALSE
    MayFailWrite = FALSE
SPECIFICATION Spec
PROPERTY ImplementsBuildService
