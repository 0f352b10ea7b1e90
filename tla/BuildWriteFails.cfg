CONSTANTS
    a = a
    b = b
    c = c
    x = x
    Absent = Absent
    NoHash = NoHash
    Source = {a}
    External = {}
    Content = {1, 2}
    Bad = {}
    Size <- SizeOfContent
    Uses <- ChainUses
    MaxStamp = 1
    MayCrash = FALSE
    MayRevert = FALSE
    MayRemove = FALSE
    MayLose = FALSE
    MayFailWrite = TRUE
SPECIFICATION Spec
PROPERTY ImplementsBuildService
