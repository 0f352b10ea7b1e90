CONSTANTS
    a = a
    b = b
    c = c
    x = x
    Absent = Absent
    NoHash = NoHash
    Source = {a, b}
    External = {}
    Content = {1, 2, 3}
    Bad = {3}
    Size <- SizeOfContent
    Uses <- ChainUses
    MaxStamp = 0
    MayCrash = FALSE
    MayRevert = TRUE
    MayRemove = FALSE
    MayLose = FALSE
    MayFailWrite = FALSE
SPECIFICATION Spec
INVARIANTS UpToDate EntriesDescribeOutput SettlesSoon
PROPERTY ImplementsBuildService
