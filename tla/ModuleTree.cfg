CONSTANTS
    m = m
    a = a
    b = b
    s = s
    Module <- FourModules
    Imports <- TreeImports
    Linked = {s}
    Script = {a, b}
    ScriptImports <- TreeScripts
    Setting = {32, 64}
    Default = 64
    MaxTask = 22
SPECIFICATION FairSpec
INVARIANTS TypeOK EveryTaskAwaited SettingsBack OutputsInPlace LinksBuilt LinksComplete
PROPERTIES ImplementsModuleService BuildReturns
