CONSTANTS
    a = a
    b = b
    c = c
    x = x
    Absent = Absent
    NoHash = NoHash
    Source = {a, b}
    External = {}
    Content = {1}
    Bad = {}
    Size <- SizeOfContent
    Uses <- ChainUses
    MaxStamp = 0
    MayCrash = FALSE
    MayRevert = TRUE
    MayRemove = TRUE
    MayLose = FALSE
    MayFailWrite = FALSE
SPECIFICATION Spec
PROPERTY ImplementsBuildService
