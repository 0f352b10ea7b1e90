----------------------------- MODULE ModuleBuild -----------------------------
(***************************************************************************)
(* ModuleFile::BuildModule and DownloadModules: a module is built after    *)
(* the modules it imports, each by a task of its own, and all of them with *)
(* one Compiler, whose settings they share.                                *)
(*                                                                         *)
(* The pool of tasks has no threads: who waits for a task runs the tasks   *)
(* added first, whosever they are, on top of its own (module TaskManger).  *)
(* So a task is taken in the order of its id, the tasks that run are the   *)
(* frames of one stack, and a frame above another has the greater id.      *)
(* Frame 0 is the request itself.                                          *)
(*                                                                         *)
(* One action is what the thread does from one wait to the next.           *)
(***************************************************************************)
EXTENDS Integers, Sequences, Functions

CONSTANTS
    Module,
    Imports,        \* ModuleDependencies of each module
    Linked,         \* the modules that are imported with a WebLink
    Script,         \* the modules with a build script
    ScriptImports,  \* what these scripts import
    Setting,        \* the compiler's settings: target and optimizations
    Default,        \* CompilationSettings()
    MaxTask         \* bound: the tasks of one request

Id == 0 .. MaxTask

ASSUME ModulesAssumption ==
    /\ Imports \in [Module -> Seq(Module)]
    /\ ScriptImports \in [Module -> Seq(Module)]
    /\ Module # {}
    /\ Linked \subseteq Module
    /\ Script \subseteq Module
ASSUME SettingAssumption == Default \in Setting
ASSUME BoundAssumption == MaxTask \in Nat

VARIABLES
    index,      \* the modules in the global index
    dirs,       \* the modules with a directory among the downloads
    broken,     \* modules with errors in their sources
    failing,    \* modules whose script does not compile or returns false
    known,      \* the index as the request was given it
    asked,      \* the settings of the request
    settings,   \* Compiler::_Settings now
    count,      \* tasks are 1 .. count,
    taken,      \* 1 .. taken were taken,
    done,       \* and these frames have returned
    work,       \* what each frame is for
    stage,      \* how far BuildModule is: which tasks it added and waits for
    next, last, \* the task it waits for, and the last one it added
    good,       \* whether what it waited for succeeded; at last its result
    saved,      \* OldSettings
    paths,      \* the settings GetPaths used for the files of the module
    outpath,    \* and those it used for the path its user links
    links,      \* ExternFiles: modules, each with the settings of its path
    compiled    \* history: what was compiled for this request

world    == <<index, dirs, broken, failing>>
given    == <<known, asked>>
pool     == <<count, taken, done, work>>
progress == <<stage, next, last>>
frames   == <<pool, progress, good, saved, paths, outpath, links>>
vars     == <<world, given, settings, frames, compiled>>

Work == [what: {"build", "get"}, module: Module]

Init ==
    /\ index \in SUBSET Module
    /\ dirs \in SUBSET Linked
    /\ broken \in SUBSET Module
    /\ failing \in SUBSET Script
    /\ known = index
    /\ asked = Default
    /\ settings = Default
    /\ count = 0 /\ taken = 0 /\ done = {0}
    /\ work = [t \in Id |-> [what |-> "get", module |-> CHOOSE x \in Module : TRUE]]
    /\ stage = [t \in Id |-> "get"]
    /\ next = [t \in Id |-> 1]
    /\ last = [t \in Id |-> 0]
    /\ good = [t \in Id |-> FALSE]
    /\ saved = [t \in Id |-> Default]
    /\ paths = [t \in Id |-> Default]
    /\ outpath = [t \in Id |-> Default]
    /\ links = [t \in Id |-> {}]
    /\ compiled = {}

-----------------------------------------------------------------------------
(* The pool *)

Running(t) == t \in 0 .. taken /\ t \notin done

\* The frame on top of the stack.
Top(t) == Running(t) /\ \A u \in t + 1 .. taken : u \in done

Waits(t) == next[t] <= last[t]

\* The frame adds a task for each module, runs them and will wait for them.
AddTasks(t, what, modules) ==
    /\ count + Len(modules) <= MaxTask
    /\ count' = count + Len(modules)
    /\ next' = [next EXCEPT ![t] = count + 1]
    /\ last' = [last EXCEPT ![t] = count + Len(modules)]
    /\ work' = [u \in Id |-> IF u \in count + 1 .. count + Len(modules)
                             THEN [what |-> what, module |-> modules[u - count]]
                             ELSE work[u]]

Enter(t, s) ==
    /\ stage' = [stage EXCEPT ![t] = s]
    /\ good' = [good EXCEPT ![t] = TRUE]

\* Mutant: the path is asked for without the settings.
ReturnByDefault(t, ok) ==
    /\ done' = done \union {t}
    /\ good' = [good EXCEPT ![t] = ok]
    /\ outpath' = [outpath EXCEPT ![t] = Default]
    /\ UNCHANGED <<count, taken, work, progress, saved, paths, links>>

\* The frame returns; the task around it then asks for the path to link.
Return(t, ok) ==
    /\ done' = done \union {t}
    /\ good' = [good EXCEPT ![t] = ok]
    /\ outpath' = [outpath EXCEPT ![t] = settings']
    /\ UNCHANGED <<count, taken, work, progress, saved, paths, links>>

-----------------------------------------------------------------------------
(* The request and the tasks *)

\* BuildModule or DownloadModules is called.  All that is left of an earlier
\* call is in the index and the directories.
Request ==
    /\ 0 \in done
    /\ \E w \in Work, s \in Setting :
         /\ asked' = s
         /\ settings' = s
         /\ Len(Imports[w.module]) <= MaxTask
         /\ count' = Len(Imports[w.module])
         /\ work' = [t \in Id |-> IF t \in 1 .. Len(Imports[w.module])
                                  THEN [what |-> "get", module |-> Imports[w.module][t]]
                                  ELSE w]
         /\ last' = [t \in Id |-> IF t = 0 THEN Len(Imports[w.module]) ELSE 0]
    /\ known' = index
    /\ taken' = 0
    /\ done' = {}
    /\ stage' = [t \in Id |-> "get"]
    /\ next' = [t \in Id |-> 1]
    /\ good' = [t \in Id |-> TRUE]
    /\ saved' = [t \in Id |-> Default]
    /\ paths' = [t \in Id |-> Default]
    /\ outpath' = [t \in Id |-> Default]
    /\ links' = [t \in Id |-> {}]
    /\ compiled' = {}
    /\ UNCHANGED world

\* Mutant: the waiting ends at the first failure.
TakeUntilFailure(t) ==
    /\ Top(t)
    /\ Waits(t)
    /\ next[t] \in done
    /\ next' = [next EXCEPT ![t] = IF good[next[t]] THEN @ + 1 ELSE last[t] + 1]
    /\ good' = [good EXCEPT ![t] = @ /\ good[next[t]]]
    /\ links' = [links EXCEPT ![t] =
         IF stage[t] = "deps" /\ good[next[t]]
         THEN @ \union {<<work[next[t]].module, outpath[next[t]]>>} ELSE @]
    /\ UNCHANGED <<world, given, settings, pool, stage, last, saved, paths, outpath, compiled>>

\* Mutant: a task that failed is waited for again.
TakeAgain(t) ==
    /\ Top(t)
    /\ Waits(t)
    /\ next[t] \in done
    /\ next' = [next EXCEPT ![t] = IF good[next[t]] THEN @ + 1 ELSE @]
    /\ good' = [good EXCEPT ![t] = @ /\ good[next[t]]]
    /\ links' = [links EXCEPT ![t] =
         IF stage[t] = "deps" /\ good[next[t]]
         THEN @ \union {<<work[next[t]].module, outpath[next[t]]>>} ELSE @]
    /\ UNCHANGED <<world, given, settings, pool, stage, last, saved, paths, outpath, compiled>>

\* The awaited task has a result: it is taken, and the next one awaited.
Take(t) ==
    /\ Top(t)
    /\ Waits(t)
    /\ next[t] \in done
    /\ next' = [next EXCEPT ![t] = @ + 1]
    /\ good' = [good EXCEPT ![t] = @ /\ good[next[t]]]
    /\ links' = [links EXCEPT ![t] =
         IF stage[t] = "deps" /\ good[next[t]]
         THEN @ \union {<<work[next[t]].module, outpath[next[t]]>>} ELSE @]
    /\ UNCHANGED <<world, given, settings, pool, stage, last, saved, paths, outpath, compiled>>

\* The awaited task has no result yet: the next task is run meanwhile.
Help(t, u) ==
    /\ Top(t)
    /\ Waits(t)
    /\ next[t] \notin done
    /\ u = taken + 1
    /\ u <= count
    /\ taken' = u

\* BuildModule is called, and it begins with DownloadModules.
Begin(t, u) ==
    /\ Help(t, u)
    /\ work[u].what = "build"
    /\ Enter(u, "get")
    /\ AddTasks(u, "get", Imports[work[u].module])
    /\ UNCHANGED <<world, given, settings, done, saved, paths, outpath, links, compiled>>

(***************************************************************************)
(* The task that downloads module m.  Only a module that is NOT the one    *)
(* asked for is added to the index; it may be another one by its version   *)
(* alone, which the index does not look at.                                *)
(***************************************************************************)
Present(m) == m \in known \/ m \notin Linked \/ m \in dirs

\* Mutant: the directory is made before anybody looks for a WebLink.
GetDirectoryFirst(t, u) ==
    LET item == work[u].module IN
    /\ Help(t, u)
    /\ work[u].what = "get"
    /\ \E ok \in BOOLEAN : good' = [good EXCEPT ![u] = ok]
    /\ dirs' = IF item \in known THEN dirs ELSE dirs \union {item}
    /\ done' = done \union {u}
    /\ UNCHANGED <<index, broken, failing, given, settings, count, work, progress,
                   saved, paths, outpath, links, compiled>>

Get(t, u) ==
    LET item == work[u].module IN
    /\ Help(t, u)
    /\ work[u].what = "get"
    /\ \E ok \in BOOLEAN :
         /\ good' = [good EXCEPT ![u] = ok]
         /\ \/ Present(item) /\ ok /\ UNCHANGED <<index, dirs>>
            \/ ~Present(item) /\ ~ok /\ UNCHANGED index /\ dirs' = dirs \union {item}
            \/ ~Present(item) /\ ~ok /\ UNCHANGED <<index, dirs>>
            \/ /\ ~Present(item) /\ ok
               /\ dirs' = dirs \union {item}
               /\ \E n \in Module : index' = index \union {n}
    /\ done' = done \union {u}
    /\ UNCHANGED <<broken, failing, given, settings, count, work, progress,
                   saved, paths, outpath, links, compiled>>

-----------------------------------------------------------------------------
(* BuildModule after each of its waits *)

EndOf(t, s) == Top(t) /\ ~Waits(t) /\ stage[t] = s

CanGoOn(t, modules) == good[t] /\ Range(modules) \subseteq known

\* A request to download only.
Downloaded(t) ==
    /\ EndOf(t, "get")
    /\ work[t].what = "get"
    /\ UNCHANGED <<world, given, settings, compiled>>
    /\ Return(t, good[t])

Unobtainable(t) ==
    /\ EndOf(t, "get")
    /\ work[t].what = "build"
    /\ ~CanGoOn(t, Imports[work[t].module])
    /\ UNCHANGED <<world, given, settings, compiled>>
    /\ Return(t, FALSE)

\* Mutant: what this request compiled before is not asked for again.
BuildNewDependencies(t) ==
    LET new == SelectSeq(Imports[work[t].module], LAMBDA m : \A c \in compiled : c.module # m) IN
    /\ EndOf(t, "get")
    /\ work[t].what = "build"
    /\ CanGoOn(t, Imports[work[t].module])
    /\ Enter(t, "deps")
    /\ AddTasks(t, "build", new)
    /\ paths' = [paths EXCEPT ![t] = settings]
    /\ UNCHANGED <<world, given, settings, taken, done, saved, outpath, links, compiled>>

BuildModuleDependencies(t) ==
    /\ EndOf(t, "get")
    /\ work[t].what = "build"
    /\ CanGoOn(t, Imports[work[t].module])
    /\ Enter(t, "deps")
    /\ AddTasks(t, "build", Imports[work[t].module])
    /\ paths' = [paths EXCEPT ![t] = settings]
    /\ UNCHANGED <<world, given, settings, taken, done, saved, outpath, links, compiled>>

\* CompileFiles_UseIntDir (module IncrementalBuild).
CompileFiles(t, with) ==
    compiled' = IF work[t].module \in broken THEN compiled
                ELSE compiled \union {[module |-> work[t].module, with |-> with,
                                       to |-> paths[t], links |-> links[t]]}

\* Mutant: a failed dependency is only reported.
DependencyWarned(t) ==
    /\ EndOf(t, "deps")
    /\ ~good[t]
    /\ CompileFiles(t, settings)
    /\ UNCHANGED <<world, given, settings>>
    /\ Return(t, work[t].module \notin broken)

DependencyFailed(t) ==
    /\ EndOf(t, "deps")
    /\ ~good[t]
    /\ UNCHANGED <<world, given, settings, compiled>>
    /\ Return(t, FALSE)

Compile(t) ==
    /\ EndOf(t, "deps")
    /\ good[t]
    /\ work[t].module \notin Script
    /\ CompileFiles(t, settings)
    /\ UNCHANGED <<world, given, settings>>
    /\ Return(t, work[t].module \notin broken)

\* The script is compiled with settings of its own: BuildFile.
BuildFile(t) ==
    /\ EndOf(t, "deps")
    /\ good[t]
    /\ work[t].module \in Script
    /\ saved' = [saved EXCEPT ![t] = settings]
    /\ settings' = Default
    /\ Enter(t, "script get")
    /\ AddTasks(t, "get", ScriptImports[work[t].module])
    /\ UNCHANGED <<world, given, taken, done, paths, outpath, links, compiled>>

\* Mutant: the early return forgets the settings.
ScriptAbandoned(t) ==
    /\ EndOf(t, "script get")
    /\ ~CanGoOn(t, ScriptImports[work[t].module])
    /\ UNCHANGED <<world, given, settings, compiled>>
    /\ Return(t, FALSE)

ScriptUnobtainable(t) ==
    /\ EndOf(t, "script get")
    /\ ~CanGoOn(t, ScriptImports[work[t].module])
    /\ settings' = saved[t]
    /\ UNCHANGED <<world, given, compiled>>
    /\ Return(t, FALSE)

BuildScriptDependencies(t) ==
    /\ EndOf(t, "script get")
    /\ CanGoOn(t, ScriptImports[work[t].module])
    /\ Enter(t, "script deps")
    /\ AddTasks(t, "build", ScriptImports[work[t].module])
    /\ UNCHANGED <<world, given, settings, taken, done, saved, paths, outpath, links, compiled>>

\* The script has errors, or its `build' returns false, before or after it
\* had the module compiled.
ScriptFailed(t) ==
    /\ EndOf(t, "script deps")
    /\ \/ ~good[t] /\ UNCHANGED compiled
       \/ good[t] /\ work[t].module \in failing /\ UNCHANGED compiled
       \/ good[t] /\ work[t].module \in failing /\ CompileFiles(t, saved[t])
    /\ settings' = saved[t]
    /\ UNCHANGED <<world, given>>
    /\ Return(t, FALSE)

\* Mutant: the module is compiled before the settings are put back.
RunScriptEarly(t) ==
    /\ EndOf(t, "script deps")
    /\ good[t]
    /\ work[t].module \notin failing
    /\ settings' = saved[t]
    /\ CompileFiles(t, settings)
    /\ UNCHANGED <<world, given>>
    /\ Return(t, work[t].module \notin broken)

\* The compiled script is run, and has the module compiled.
RunScript(t) ==
    /\ EndOf(t, "script deps")
    /\ good[t]
    /\ work[t].module \notin failing
    /\ settings' = saved[t]
    /\ CompileFiles(t, saved[t])
    /\ UNCHANGED <<world, given>>
    /\ Return(t, work[t].module \notin broken)

BuildModule(t) ==
    \/ Downloaded(t) \/ Unobtainable(t) \/ BuildModuleDependencies(t) \/ DependencyFailed(t)
    \/ Compile(t) \/ BuildFile(t) \/ ScriptUnobtainable(t) \/ BuildScriptDependencies(t)
    \/ ScriptFailed(t) \/ RunScript(t)

\* What the one thread does, always in the frame on top.
Thread ==
    \E t \in 0 .. taken :
        \/ Take(t)
        \/ BuildModule(t)
        \/ \E u \in taken + 1 .. count : Begin(t, u) \/ Get(t, u)

Next == Request \/ Thread

Spec == Init /\ [][Next]_vars

\* The thread goes on: nothing it runs waits for anything outside.
FairSpec == Spec /\ WF_vars(Thread)

-----------------------------------------------------------------------------
(* Properties *)

Link     == Module \X Setting
Stages   == {"get", "deps", "script get", "script deps"}
Compiled == [module: Module, with: Setting, to: Setting, links: SUBSET Link]

TypeOK ==
    /\ index \subseteq Module /\ dirs \subseteq Linked /\ broken \subseteq Module
    /\ failing \subseteq Script /\ known \subseteq Module
    /\ asked \in Setting /\ settings \in Setting
    /\ count \in Id /\ taken \in Id /\ taken <= count
    /\ done \subseteq 0 .. taken
    /\ work \in [Id -> Work]
    /\ stage \in [Id -> Stages]
    /\ next \in [Id -> Nat] /\ last \in [Id -> Id]
    /\ good \in [Id -> BOOLEAN]
    /\ saved \in [Id -> Setting] /\ paths \in [Id -> Setting] /\ outpath \in [Id -> Setting]
    /\ links \in [Id -> SUBSET Link]
    /\ compiled \subseteq Compiled

\* No task is left behind: each one that was added and has not returned is
\* still to be waited for by a frame under it on the stack.
EveryTaskAwaited ==
    \A u \in 1 .. count : u \notin done =>
        \E t \in 0 .. u - 1 : Running(t) /\ u \in next[t] .. last[t]

\* A build gives the compiler back with the settings it came with, however
\* many build scripts set others meanwhile and wherever they failed.
SettingsBack == 0 \in done => settings = asked

\* Each output lies in the directory named for the settings it was compiled
\* with, though GetPaths looks at the settings long before CompileFiles does.
OutputsInPlace == \A c \in compiled : c.with = c.to

\* What a module was linked with is what this request compiled at that path:
\* the path is asked for after the build, when the settings could be others.
LinksBuilt ==
    \A c \in compiled : \A l \in c.links : \E d \in compiled : d.module = l[1] /\ d.to = l[2]

\* A module is compiled with all its dependencies, and nothing else.
LinksComplete == \A c \in compiled : {l[1] : l \in c.links} = Range(Imports[c.module])

\* The nested tasks on one compiler come to what ModuleService promises.
Service == INSTANCE ModuleService WITH
    request  <- work[0],
    building <- 0 \notin done,
    result   <- 0 \in done /\ good[0]

ImplementsModuleService == Service!Spec

\* A request comes to an end, if no module needs itself.
BuildReturns == 0 \notin done ~> 0 \in done

\* What a successful build is linked with was built with the settings the
\* build was asked for.
SettingsAsAsked ==
    0 \in done /\ good[0] /\ work[0].what = "build" => \A l \in links[0] : l[2] = asked

\* A successful `get' leaves every dependency that has a link in the index.
GetDownloads ==
    0 \in done /\ good[0] /\ work[0].what = "get" =>
        Range(Imports[work[0].module]) \intersect Linked \subseteq index
=============================================================================
