CONSTANTS
    a = a
    b = b
    c = c
    x = x
    Absent = Absent
    NoHash = NoHash
    Source = {a, b}
    External = {}
    Content = {1, 2}
    Bad = {}
    Size <- SizeOfContent
    Uses <- ChainUses
    MaxStamp = 0
    MayCrash = TRUE
    MayRevert = TRUE
    MayRemove = TRUE
    MayLose = TRUE
    MayFailWrite = TRUE
SPECIFICATION Spec
PROPERTY CompilesFresh
