CONSTANTS
    m = m
    a = a
    b = b
    s = s
    Module <- FourModules
    Imports <- TreeImports
    Linked = {s}
    Script = {a}
    ScriptImports <- TreeScripts
    Setting = {32, 64}
    Default = 64
    MaxTask = 22
SPECIFICATION Spec
INVARIANT GetDownloads
