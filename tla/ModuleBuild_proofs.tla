------------------------- MODULE ModuleBuild_proofs -------------------------
(***************************************************************************)
(* TLAPS proofs about ModuleBuild, for every tree of modules, every set of *)
(* scripts and settings, and every bound on the tasks of a request.        *)
(***************************************************************************)
EXTENDS ModuleBuildInvariant, SequenceTheorems, TLAPS

USE DEF Id

-----------------------------------------------------------------------------
(* The lists of modules.                                                   *)

(***************************************************************************)
(* The modules that a frame at some stage waits for.                       *)
(***************************************************************************)
LEMMA ListFacts ==
    ASSUME NEW s, NEW x \in Module
    PROVE  /\ ListAt(s, x) \in Seq(Module)
           /\ Len(ListAt(s, x)) \in Nat
           /\ \A i \in 1 .. Len(ListAt(s, x)) : ListAt(s, x)[i] \in Module
           /\ Range(ListAt(s, x)) = {ListAt(s, x)[i] : i \in 1 .. Len(ListAt(s, x))}
           /\ Range(ListAt(s, x)) \subseteq Module
<1>1. ListAt(s, x) \in Seq(Module)
  BY ModulesAssumption DEF ListAt
<1> DEFINE q == ListAt(s, x)
<1> HIDE DEF q
<1>2. q \in Seq(Module)
  BY <1>1 DEF q
<1>3. DOMAIN q = 1 .. Len(q) /\ Len(q) \in Nat /\ \A i \in 1 .. Len(q) : q[i] \in Module
  BY <1>2
<1>4. Range(q) = {q[i] : i \in 1 .. Len(q)}
  BY <1>3 DEF Range
<1>5. Range(q) \subseteq Module
  BY <1>3, <1>4
<1> QED
  BY <1>2, <1>3, <1>4, <1>5 DEF q

-----------------------------------------------------------------------------
(* Types.                                                                  *)

LEMMA InitTypeOK == Init => TypeOK
<1> SUFFICES ASSUME Init PROVE TypeOK
  OBVIOUS
<1> USE BoundAssumption, SettingAssumption, ModulesAssumption DEF Init
<1>1. work \in [Id -> Work]
  BY DEF Work
<1>2. stage \in [Id -> Stages]
  BY DEF Stages
<1>3. taken \in Id /\ count \in Id /\ done \subseteq 0 .. taken
  OBVIOUS
<1>4. next \in [Id -> Nat] /\ last \in [Id -> Id] /\ good \in [Id -> BOOLEAN]
  OBVIOUS
<1>5. /\ saved \in [Id -> Setting] /\ paths \in [Id -> Setting] /\ outpath \in [Id -> Setting]
      /\ links \in [Id -> SUBSET Link] /\ compiled \subseteq Compiled
  OBVIOUS
<1>6. index \subseteq Module /\ dirs \subseteq Linked /\ broken \subseteq Module
      /\ failing \subseteq Script /\ known \subseteq Module
      /\ asked \in Setting /\ settings \in Setting /\ taken <= count
  OBVIOUS
<1> QED
  BY <1>1, <1>2, <1>3, <1>4, <1>5, <1>6 DEF TypeOK

LEMMA TakenIds ==
    ASSUME TypeOK
    PROVE  /\ taken \in Nat /\ count \in Nat /\ taken <= count /\ count <= MaxTask
           /\ \A t \in 0 .. taken : t \in Id
           /\ \A t \in done : t \in 0 .. taken /\ t \in Id
<1>1. taken \in 0 .. MaxTask /\ count \in 0 .. MaxTask /\ taken <= count /\ done \subseteq 0 .. taken
  BY DEF TypeOK
<1> QED
  BY <1>1, BoundAssumption

LEMMA AddTasksTypes ==
    ASSUME TypeOK, NEW t \in Id, NEW what \in {"build", "get"}, NEW q \in Seq(Module),
           AddTasks(t, what, q)
    PROVE  /\ count' \in Id /\ count <= count' /\ taken <= count'
           /\ work' \in [Id -> Work]
           /\ next' \in [Id -> Nat] /\ last' \in [Id -> Id]
<1>1. Len(q) \in Nat /\ \A i \in 1 .. Len(q) : q[i] \in Module
  BY ElementOfSeq, LenProperties
<1>2. count' \in Id /\ count <= count' /\ taken <= count'
  <2>1. /\ count \in 0 .. MaxTask /\ count' = count + Len(q) /\ count + Len(q) <= MaxTask
        /\ taken \in 0 .. MaxTask /\ taken <= count
    BY DEF TypeOK, AddTasks
  <2> QED
    BY <1>1, <2>1, BoundAssumption
<1> USE BoundAssumption DEF TypeOK, AddTasks
<1>3. ASSUME NEW u \in Id
      PROVE  (IF u \in count + 1 .. count + Len(q)
              THEN [what |-> what, module |-> q[u - count]] ELSE work[u]) \in Work
  <2>1. CASE u \in count + 1 .. count + Len(q)
    <3>1. u - count \in 1 .. Len(q)
      BY <1>1, <2>1
    <3> QED
      BY <1>1, <2>1, <3>1 DEF Work
  <2> QED
    BY <2>1
<1>4. work' \in [Id -> Work]
  BY <1>3
<1>5. count + 1 \in Nat /\ count + Len(q) \in Id
  BY <1>1, <1>2
<1>6. next' \in [Id -> Nat] /\ last' \in [Id -> Id]
  BY <1>5
<1> QED
  BY <1>2, <1>4, <1>6

LEMMA ReturnTypes ==
    ASSUME TypeOK, NEW t \in Id, NEW ok \in BOOLEAN, settings' \in Setting, Running(t),
           Return(t, ok)
    PROVE  /\ done' \subseteq 0 .. taken' /\ taken' \in Id /\ count' \in Id /\ taken' <= count'
           /\ good' \in [Id -> BOOLEAN]
           /\ outpath' \in [Id -> Setting]
           /\ work' \in [Id -> Work] /\ stage' \in [Id -> Stages]
           /\ next' \in [Id -> Nat] /\ last' \in [Id -> Id]
           /\ saved' \in [Id -> Setting] /\ paths' \in [Id -> Setting]
           /\ links' \in [Id -> SUBSET Link]
  BY DEF TypeOK, Return, Running, progress

LEMMA CompileFilesTypes ==
    ASSUME TypeOK, NEW t \in Id, NEW s \in Setting, CompileFiles(t, s)
    PROVE  compiled' \subseteq Compiled
<1>1. [module |-> work[t].module, with |-> s, to |-> paths[t], links |-> links[t]] \in Compiled
  BY DEF TypeOK, Compiled, Work
<1> QED
  BY <1>1 DEF TypeOK, CompileFiles

LEMMA NextTypeOK == TypeOK /\ [Next]_vars => TypeOK'
<1> SUFFICES ASSUME TypeOK, [Next]_vars PROVE TypeOK'
  OBVIOUS
<1> USE BoundAssumption, SettingAssumption, ModulesAssumption
<1>1. CASE UNCHANGED vars
  BY <1>1 DEF TypeOK, vars, world, given, pool, progress, frames
<1>2. CASE Request
  <2>1. PICK w \in Work, s \in Setting :
          /\ asked' = s /\ settings' = s
          /\ Len(Imports[w.module]) <= MaxTask
          /\ count' = Len(Imports[w.module])
          /\ work' = [t \in Id |-> IF t \in 1 .. Len(Imports[w.module])
                        THEN [what |-> "get", module |-> Imports[w.module][t]] ELSE w]
          /\ last' = [t \in Id |-> IF t = 0 THEN Len(Imports[w.module]) ELSE 0]
    BY <1>2 DEF Request
  <2>2. Len(Imports[w.module]) \in Id
        /\ \A i \in 1 .. Len(Imports[w.module]) : Imports[w.module][i] \in Module
    <3>1. Imports[w.module] \in Seq(Module)
      BY DEF Work
    <3> QED
      BY <2>1, <3>1
  <2>3. work' \in [Id -> Work]
    BY <2>1, <2>2 DEF Work
  <2>4. last' \in [Id -> Id]
    BY <2>1, <2>2
  <2>5. next' \in [Id -> Nat] /\ stage' \in [Id -> Stages] /\ good' \in [Id -> BOOLEAN]
        /\ taken' \in Id /\ count' \in Id /\ taken' <= count' /\ done' \subseteq 0 .. taken'
    BY <1>2, <2>1, <2>2 DEF Request, Stages
  <2>6. saved' \in [Id -> Setting] /\ paths' \in [Id -> Setting] /\ outpath' \in [Id -> Setting]
        /\ links' \in [Id -> SUBSET Link] /\ compiled' \subseteq Compiled
    BY <1>2 DEF Request
  <2>7. index' \subseteq Module /\ dirs' \subseteq Linked /\ broken' \subseteq Module
        /\ failing' \subseteq Script /\ known' \subseteq Module
        /\ asked' \in Setting /\ settings' \in Setting
    BY <1>2, <2>1 DEF Request, world, TypeOK
  <2> QED
    BY <2>3, <2>4, <2>5, <2>6, <2>7 DEF TypeOK
<1>3. ASSUME NEW t \in 0 .. taken, Take(t) PROVE TypeOK'
  <2>0. next[t] \in done
    BY <1>3 DEF Take
  <2> USE <1>3 DEF TypeOK, Take, Top, Running, Waits
  <2>1. t \in Id /\ next[t] \in Id
    BY <2>0, TakenIds
  <2>2. next' \in [Id -> Nat] /\ good' \in [Id -> BOOLEAN]
    <3>1. next' = [next EXCEPT ![t] = next[t] + 1]
          /\ good' = [good EXCEPT ![t] = good[t] /\ good[next[t]]]
      OBVIOUS
    <3>2. next \in [Id -> Nat] /\ good \in [Id -> BOOLEAN]
      OBVIOUS
    <3> HIDE <1>3 DEF TypeOK, Take
    <3>3. next[t] + 1 \in Nat /\ (good[t] /\ good[next[t]]) \in BOOLEAN
      BY <2>1, <3>2
    <3>4. next' \in [Id -> Nat]
      BY <3>1, <3>2, <3>3
    <3>5. good' \in [Id -> BOOLEAN]
      BY <3>1, <3>2, <3>3, Zenon
    <3> QED
      BY <3>4, <3>5
  <2>3. <<work[next[t]].module, outpath[next[t]]>> \in Link
    BY <2>1 DEF Work, Link
  <2>4. links' \in [Id -> SUBSET Link]
    BY <2>1, <2>3
  <2> QED
    BY <2>2, <2>4 DEF world, given, pool
<1>4. ASSUME NEW t \in 0 .. taken, NEW u \in taken + 1 .. count, Begin(t, u) PROVE TypeOK'
  <2> USE <1>4 DEF Begin
  <2>1. u \in Id /\ Imports[work[u].module] \in Seq(Module)
    BY DEF TypeOK, Work
  <2>2. /\ count' \in Id /\ count <= count' /\ work' \in [Id -> Work]
        /\ next' \in [Id -> Nat] /\ last' \in [Id -> Id]
    BY <2>1, AddTasksTypes
  <2>3. stage' \in [Id -> Stages] /\ good' \in [Id -> BOOLEAN]
    BY <2>1 DEF TypeOK, Enter, Stages
  <2>4. taken' = u /\ u <= count /\ u \in taken + 1 .. count
    BY DEF Help
  <2>5. taken' \in Id /\ taken' <= count' /\ done' \subseteq 0 .. taken'
    BY <2>1, <2>2, <2>4 DEF TypeOK
  <2> QED
    BY <2>2, <2>3, <2>5 DEF TypeOK, world, given
<1>5. ASSUME NEW t \in 0 .. taken, NEW u \in taken + 1 .. count, Get(t, u) PROVE TypeOK'
  <2> USE <1>5 DEF Get, Help
  <2>1. u \in Id /\ work[u].module \in Module
    BY DEF TypeOK, Work
  <2>2. index' \subseteq Module /\ dirs' \subseteq Linked /\ good' \in [Id -> BOOLEAN]
    BY <2>1 DEF TypeOK, Present
  <2>3. taken' \in Id /\ taken' <= count /\ done' \subseteq 0 .. taken'
    <3>1. taken' = u /\ taken' <= count /\ done' = done \union {u}
      OBVIOUS
    <3>2. \A v \in done : v \in 0 .. u
      BY TakenIds
    <3> QED
      BY <2>1, <3>1, <3>2
  <2> QED
    BY <2>2, <2>3 DEF TypeOK, given, progress
<1>6. ASSUME NEW t \in 0 .. taken, BuildModule(t) PROVE TypeOK'
  <2>0. t \in Id
    BY TakenIds
  <2>1. t \in Id /\ work[t].module \in Module /\ saved[t] \in Setting
    BY <2>0 DEF TypeOK, Work
  <2>2. Imports[work[t].module] \in Seq(Module) /\ ScriptImports[work[t].module] \in Seq(Module)
    BY <2>1
  <2>3. CASE Downloaded(t)
    <3>1. Running(t) /\ good[t] \in BOOLEAN /\ settings' \in Setting /\ Return(t, good[t])
      BY <2>1, <2>3 DEF Downloaded, EndOf, Top, TypeOK, given
    <3> QED
      BY <2>1, <2>3, <3>1, ReturnTypes DEF TypeOK, Downloaded, world, given
  <2>4. CASE Unobtainable(t)
    <3>1. Running(t) /\ settings' \in Setting /\ Return(t, FALSE)
      BY <2>4 DEF Unobtainable, EndOf, Top, TypeOK, given
    <3> QED
      BY <2>1, <2>4, <3>1, ReturnTypes DEF TypeOK, Unobtainable, world, given
  <2>5. CASE BuildModuleDependencies(t)
    <3>1. /\ count' \in Id /\ taken <= count' /\ work' \in [Id -> Work]
          /\ next' \in [Id -> Nat] /\ last' \in [Id -> Id]
      BY <2>1, <2>2, <2>5, AddTasksTypes DEF BuildModuleDependencies
    <3>2. stage' \in [Id -> Stages] /\ good' \in [Id -> BOOLEAN] /\ paths' \in [Id -> Setting]
      BY <2>1, <2>5 DEF TypeOK, BuildModuleDependencies, Enter, Stages
    <3>3. taken' = taken /\ done' = done
      BY <2>5 DEF BuildModuleDependencies
    <3>4. taken' <= count'
      BY <3>1, <3>3
    <3> QED
      BY <2>5, <3>1, <3>2, <3>3, <3>4 DEF TypeOK, BuildModuleDependencies, world, given
  <2>6. CASE DependencyFailed(t)
    <3>1. Running(t) /\ settings' \in Setting /\ Return(t, FALSE)
      BY <2>6 DEF DependencyFailed, EndOf, Top, TypeOK, given
    <3> QED
      BY <2>1, <2>6, <3>1, ReturnTypes DEF TypeOK, DependencyFailed, world, given
  <2>7. CASE Compile(t)
    <3>1. Running(t) /\ settings' \in Setting /\ Return(t, work[t].module \notin broken)
      BY <2>7 DEF Compile, EndOf, Top, TypeOK, given
    <3>2. compiled' \subseteq Compiled
      BY <2>1, <2>7, CompileFilesTypes DEF Compile, TypeOK
    <3> QED
      BY <2>1, <2>7, <3>1, <3>2, ReturnTypes DEF TypeOK, Compile, world, given
  <2>8. CASE BuildFile(t)
    <3>1. /\ count' \in Id /\ taken <= count' /\ work' \in [Id -> Work]
          /\ next' \in [Id -> Nat] /\ last' \in [Id -> Id]
      BY <2>1, <2>2, <2>8, AddTasksTypes DEF BuildFile
    <3>2. stage' \in [Id -> Stages] /\ good' \in [Id -> BOOLEAN] /\ saved' \in [Id -> Setting]
          /\ settings' \in Setting
      BY <2>1, <2>8 DEF TypeOK, BuildFile, Enter, Stages
    <3>3. taken' = taken /\ done' = done
      BY <2>8 DEF BuildFile
    <3>4. taken' <= count'
      BY <3>1, <3>3
    <3> QED
      BY <2>8, <3>1, <3>2, <3>3, <3>4 DEF TypeOK, BuildFile, world, given
  <2>9. CASE ScriptUnobtainable(t)
    <3>1. Running(t) /\ settings' \in Setting /\ Return(t, FALSE)
      BY <2>1, <2>9 DEF ScriptUnobtainable, EndOf, Top
    <3> QED
      BY <2>1, <2>9, <3>1, ReturnTypes DEF TypeOK, ScriptUnobtainable, world, given
  <2>10. CASE BuildScriptDependencies(t)
    <3>1. /\ count' \in Id /\ taken <= count' /\ work' \in [Id -> Work]
          /\ next' \in [Id -> Nat] /\ last' \in [Id -> Id]
      BY <2>1, <2>2, <2>10, AddTasksTypes DEF BuildScriptDependencies
    <3>2. stage' \in [Id -> Stages] /\ good' \in [Id -> BOOLEAN]
      BY <2>1, <2>10 DEF TypeOK, BuildScriptDependencies, Enter, Stages
    <3>3. taken' = taken /\ done' = done
      BY <2>10 DEF BuildScriptDependencies
    <3>4. taken' <= count'
      BY <3>1, <3>3
    <3> QED
      BY <2>10, <3>1, <3>2, <3>3, <3>4 DEF TypeOK, BuildScriptDependencies, world, given
  <2>11. CASE ScriptFailed(t)
    <3>1. Running(t) /\ settings' \in Setting /\ Return(t, FALSE)
      BY <2>1, <2>11 DEF ScriptFailed, EndOf, Top
    <3>2. compiled' \subseteq Compiled
      BY <2>1, <2>11, CompileFilesTypes DEF ScriptFailed, TypeOK
    <3> QED
      BY <2>1, <2>11, <3>1, <3>2, ReturnTypes DEF TypeOK, ScriptFailed, world, given
  <2>12. CASE RunScript(t)
    <3>1. Running(t) /\ settings' \in Setting /\ Return(t, work[t].module \notin broken)
      BY <2>1, <2>12 DEF RunScript, EndOf, Top
    <3>2. compiled' \subseteq Compiled
      BY <2>1, <2>12, CompileFilesTypes DEF RunScript, TypeOK
    <3> QED
      BY <2>1, <2>12, <3>1, <3>2, ReturnTypes DEF TypeOK, RunScript, world, given
  <2> QED
    BY <1>6, <2>3, <2>4, <2>5, <2>6, <2>7, <2>8, <2>9, <2>10, <2>11, <2>12 DEF BuildModule
<1> QED
  BY <1>1, <1>2, <1>3, <1>4, <1>5, <1>6 DEF Next, Thread

(***************************************************************************)
(* Types, for any tree of modules: the tasks of a request are numbered in  *)
(* the order they are taken, and no directory is made for a module without *)
(* a WebLink.                                                              *)
(***************************************************************************)
THEOREM TypesCorrect == Spec => []TypeOK
<1>1. Init => TypeOK
  BY InitTypeOK
<1>2. TypeOK /\ [Next]_vars => TypeOK'
  BY NextTypeOK
<1> QED
  BY <1>1, <1>2, PTL DEF Spec

-----------------------------------------------------------------------------
(* What a module needs.                                                    *)

LEMMA NeedsFacts ==
    ASSUME NEW x \in Module
    PROVE  /\ Service!Needs(x) = Range(Imports[x]) \union
                (IF x \in Script THEN Range(ScriptImports[x]) ELSE {})
           /\ Service!Needs(x) \subseteq Module
<1>1. \A y \in Range(Imports[x]) : y \in Module
  <2>1. ListAt("deps", x) = Imports[x]
    BY DEF ListAt
  <2> QED
    BY <2>1, ListFacts
<1>2. \A y \in Range(ScriptImports[x]) : y \in Module
  <2>1. ListAt("script deps", x) = ScriptImports[x]
    BY DEF ListAt
  <2> QED
    BY <2>1, ListFacts
<1>3. Service!Needs(x) = Range(Imports[x]) \union
                (IF x \in Script THEN Range(ScriptImports[x]) ELSE {})
  BY DEF Service!Needs, Service!Range, Range
<1> QED
  BY <1>1, <1>2, <1>3

(***************************************************************************)
(* What keeps a module from being built keeps those that need it from it.  *)
(***************************************************************************)
LEMMA NotBuildable ==
    ASSUME NEW x \in Module
    PROVE  /\ x \in broken \/ x \in failing \/ ~(Service!Needs(x) \subseteq known)
                => ~Service!Buildable(x)
           /\ \A y \in Service!Needs(x) : ~Service!Buildable(y) => ~Service!Buildable(x)
<1>1. x \in Service!Reach(x)
  BY DEF Service!Reach
<1>2. ASSUME NEW y \in Service!Needs(x) PROVE Service!Reach(y) \subseteq Service!Reach(x)
  <2>1. ASSUME NEW n \in Service!Reach(y), NEW S \in SUBSET Module,
               x \in S, \A z \in S : Service!Needs(z) \subseteq S
        PROVE  n \in S
    <3>1. y \in S
      BY <2>1
    <3> QED
      BY <2>1, <3>1 DEF Service!Reach
  <2> QED
    BY <2>1 DEF Service!Reach
<1> QED
  BY <1>1, <1>2 DEF Service!Buildable

(***************************************************************************)
(* The modules that were built successfully are closed under what they     *)
(* need, so each of them is one that ModuleService calls buildable.        *)
(***************************************************************************)
LEMMA BuiltIsBuildable ==
    ASSUME TypeOK, Results, NEW u \in done, good[u], work[u].what = "build"
    PROVE  Service!Buildable(work[u].module)
<1> DEFINE S == {x \in Module : Built(x)}
<1>0. ASSUME NEW v \in done, work[v].what = "build"
      PROVE  work[v] = [what |-> "build", module |-> work[v].module] /\ work[v].module \in Module
  <2>1. v \in Id
    BY TakenIds
  <2>2. work[v] \in Work
    BY <2>1 DEF TypeOK
  <2> QED
    BY <1>0, <2>2 DEF Work
<1>1. ASSUME NEW x \in S
      PROVE  /\ x \notin broken /\ x \notin failing
             /\ Service!Needs(x) \subseteq known /\ Service!Needs(x) \subseteq S
  <2>1. PICK v \in done : good[v] /\ work[v] = [what |-> "build", module |-> x]
    BY DEF Built
  <2>2. ResultAt(v) /\ work[v].what = "build" /\ work[v].module = x
    BY <2>1 DEF Results
  <2>3. /\ x \notin broken /\ x \notin failing /\ Service!Needs(x) \subseteq known
        /\ \A y \in Service!Needs(x) : Built(y)
    BY <2>1, <2>2 DEF ResultAt
  <2> QED
    BY <2>3, NeedsFacts
<1>2. work[u].module \in S
  BY <1>0 DEF Built
<1>3. Service!Reach(work[u].module) \subseteq S
  BY <1>1, <1>2 DEF Service!Reach
<1> QED
  BY <1>1, <1>3 DEF Service!Buildable

-----------------------------------------------------------------------------
(* The frame on top.                                                       *)

LEMMA TopFacts ==
    ASSUME TypeOK, NEW t \in 0 .. taken, Top(t)
    PROVE  /\ t \in Id /\ t \in Nat /\ Running(t)
           /\ \A r \in Id : Running(r) => r \in 0 .. t
           /\ \A r \in Id : Running(r) /\ r # t => r \in 0 .. t - 1
<1>1. t \in Id /\ t \in Nat /\ taken \in Nat
  BY TakenIds
<1>2. ASSUME NEW r \in Id, Running(r) PROVE r \in 0 .. t
  BY <1>1, <1>2 DEF Top, Running
<1> QED
  BY <1>1, <1>2 DEF Top

(***************************************************************************)
(* The frame on top finds the settings it is to work with, or has saved    *)
(* them.                                                                   *)
(***************************************************************************)
LEMMA SettingsAtTop ==
    ASSUME TypeOK, SettingsNow, NEW t \in 0 .. taken, Top(t)
    PROVE  /\ ~InScript(t) => settings = Base(t)
           /\ InScript(t) => saved[t] = Base(t)
<1>1. t \in Id /\ \A r \in Id : Running(r) /\ r # t => r \in 0 .. t - 1
  BY TopFacts
<1>2. \A r \in 0 .. t - 1 : r \in Id
  BY <1>1, BoundAssumption
<1>3. ~InScript(t) => ((\E r \in Id : InScript(r)) <=> \E r \in 0 .. t - 1 : InScript(r))
  BY <1>1, <1>2 DEF InScript
<1>4. ~InScript(t) => settings = Base(t)
  BY <1>3 DEF SettingsNow, Base
<1> QED
  BY <1>1, <1>4 DEF SettingsNow

-----------------------------------------------------------------------------
(* What a step leaves alone.                                               *)

\* The world, the request and the results so far are kept.
Kept ==
    /\ UNCHANGED <<broken, failing, given>>
    /\ count <= count' /\ count' \in Nat
    /\ \A v \in 0 .. count : work'[v] = work[v]
    /\ done \subseteq done'
    /\ \A v \in done : good'[v] = good[v] /\ outpath'[v] = outpath[v]
    /\ compiled \subseteq compiled'

LEMMA ServiceKept ==
    ASSUME Kept
    PROVE  /\ \A x : Service!Needs(x)' = Service!Needs(x)
           /\ \A x : Service!Buildable(x)' <=> Service!Buildable(x)
  BY DEF Kept, given, Service!Needs, Service!Buildable, Service!Reach

LEMMA BuiltKept ==
    ASSUME TypeOK, Kept
    PROVE  /\ \A x : Built(x) => Built(x)'
           /\ \A l : Linkable(l) => Linkable(l)'
<1>1. \A v \in done : v \in 0 .. count
  BY TakenIds
<1> QED
  BY <1>1 DEF Kept, Built, Linkable

LEMMA ResultKept ==
    ASSUME TypeOK, Kept, NEW u \in done, ResultAt(u)
    PROVE  ResultAt(u)'
<1>1. u \in 0 .. count
  BY TakenIds
<1>2. work'[u] = work[u] /\ good'[u] = good[u] /\ outpath'[u] = outpath[u]
      /\ broken' = broken /\ failing' = failing /\ known' = known
  BY <1>1 DEF Kept, given
<1> QED
  BY <1>2, ServiceKept, BuiltKept DEF ResultAt

\* The frame r keeps where it is.
FrameStays(r) ==
    /\ stage'[r] = stage[r] /\ next'[r] = next[r] /\ last'[r] = last[r]
    /\ good'[r] = good[r] /\ links'[r] = links[r]

LEMMA FrameKept ==
    ASSUME TypeOK, Kept, NEW r \in Id, Running(r), FrameStays(r),
           WaitingAt(r), LearnedAt(r), CollectedAt(r)
    PROVE  WaitingAt(r)' /\ LearnedAt(r)' /\ CollectedAt(r)'
<1>1. r \in 0 .. count
  BY TakenIds DEF Running
<1>2. /\ work'[r] = work[r] /\ stage'[r] = stage[r] /\ next'[r] = next[r]
      /\ last'[r] = last[r] /\ good'[r] = good[r] /\ links'[r] = links[r]
      /\ known' = known
  BY <1>1 DEF Kept, FrameStays, given
<1>3. List(r)' = List(r) /\ First(r)' = First(r)
  BY <1>2 DEF List, First, ListAt
<1>4. last[r] \in Nat /\ Len(List(r)) \in Nat /\ count \in Nat /\ First(r) \in Nat
  <2>1. work[r].module \in Module /\ last[r] \in Nat
    BY BoundAssumption DEF TypeOK, Work
  <2> QED
    BY <2>1, ListFacts, TakenIds DEF List, First, WaitingAt
<1>5. \A i \in 1 .. Len(List(r)) : work'[First(r) + i] = work[First(r) + i]
  <2>1. last[r] <= count /\ last[r] = First(r) + Len(List(r))
    BY <1>4 DEF WaitingAt, First
  <2>2. ASSUME NEW i \in 1 .. Len(List(r)) PROVE First(r) + i \in 0 .. count
    BY <1>4, <2>1
  <2> QED
    BY <2>2 DEF Kept
<1>6. \A u \in done : u \in done' /\ good'[u] = good[u]
  BY DEF Kept
<1>7. WaitingAt(r)'
  <2>1. last'[r] <= count'
    BY <1>2, <1>4 DEF WaitingAt, Kept
  <2>2. \A i \in 1 .. Len(List(r)) :
          work'[First(r) + i] = [what |-> WhatAt(stage[r]), module |-> List(r)[i]]
    BY <1>5 DEF WaitingAt
  <2>3. \A u \in First(r) + 1 .. next[r] - 1 : u \in done' /\ (good[r] => good'[u])
    BY <1>6 DEF WaitingAt
  <2> QED
    BY <1>2, <1>3, <2>1, <2>2, <2>3 DEF WaitingAt, WhatAt
<1>8. LearnedAt(r)'
  BY <1>2, ServiceKept, BuiltKept DEF LearnedAt
<1>9. CollectedAt(r)'
  <2>1. {l[1] : l \in links'[r]} = {l[1] : l \in links[r]}
    BY <1>2
  <2>2. {List(r)'[i] : i \in 1 .. next'[r] - 1 - First(r)'}
          = {List(r)[i] : i \in 1 .. next[r] - 1 - First(r)}
    BY <1>2, <1>3
  <2> QED
    BY <1>2, <2>1, <2>2 DEF CollectedAt
<1> QED
  BY <1>7, <1>8, <1>9

(***************************************************************************)
(* Only the frame on top may change whether it is in a script; the frames  *)
(* under it will find what they would have found before.                   *)
(***************************************************************************)
LEMMA SettingsStep ==
    ASSUME TypeOK, SettingsNow, NEW t \in 0 .. taken, Top(t),
           asked' = asked,
           \A r \in Id : r # t => (InScript(r)' <=> InScript(r)),
           settings' = IF InScript(t)' THEN Default ELSE Base(t),
           InScript(t)' => saved'[t] = Base(t),
           \A r \in Id : r # t /\ InScript(r) => saved'[r] = saved[r],
           \A r \in Id : r # t /\ Running(r)' /\ stage'[r] # "get" =>
               Running(r) /\ stage[r] # "get" /\ paths'[r] = paths[r],
           Running(t)' /\ stage'[t] # "get" => paths'[t] = Base(t)
    PROVE  SettingsNow'
<1>1. t \in Id /\ t \in Nat /\ \A r \in Id : Running(r) /\ r # t => r \in 0 .. t - 1
  BY TopFacts
<1>2. ASSUME NEW r \in 0 .. t PROVE Base(r)' = Base(r)
  <2>1. \A q \in 0 .. r - 1 : q \in Id /\ q # t
    BY <1>1, BoundAssumption
  <2> QED
    BY <2>1 DEF Base
<1>3. \A r \in 0 .. t - 1 : r \in Id /\ r # t /\ r \in 0 .. t
  BY <1>1, BoundAssumption
<1>4. (\E r \in Id : InScript(r)') <=>
          InScript(t)' \/ \E r \in 0 .. t - 1 : InScript(r)
  BY <1>1, <1>3 DEF InScript
<1>5. settings' = IF \E r \in Id : InScript(r)' THEN Default ELSE asked'
  BY <1>4 DEF Base
<1>6. ASSUME NEW r \in Id, InScript(r)' PROVE saved'[r] = Base(r)'
  <2>1. CASE r = t
    BY <1>1, <1>2, <1>6, <2>1
  <2>2. CASE r # t
    <3>1. InScript(r) /\ r \in 0 .. t
      BY <1>1, <1>3, <1>6, <2>2 DEF InScript
    <3> QED
      BY <1>2, <2>2, <3>1 DEF SettingsNow
  <2> QED
    BY <2>1, <2>2
<1>7. ASSUME NEW r \in Id, Running(r)', stage'[r] # "get" PROVE paths'[r] = Base(r)'
  <2>1. CASE r = t
    BY <1>1, <1>2, <1>7, <2>1
  <2>2. CASE r # t
    <3>1. Running(r) /\ stage[r] # "get" /\ paths'[r] = paths[r] /\ r \in 0 .. t
      BY <1>1, <1>3, <1>7, <2>2
    <3> QED
      BY <1>2, <3>1 DEF SettingsNow
  <2> QED
    BY <2>1, <2>2
<1> QED
  BY <1>5, <1>6, <1>7 DEF SettingsNow

-----------------------------------------------------------------------------
(* A frame returns.                                                        *)

\* What the frame on top compiles when it returns.
Output(t) == [module |-> work[t].module, with |-> Base(t), to |-> Base(t), links |-> links[t]]

\* What the ways to return have in common.
Returning(t, ok) ==
    /\ Top(t) /\ ~Waits(t)
    /\ UNCHANGED <<world, given>>
    /\ Return(t, ok)
    /\ settings' = Base(t)
    /\ compiled' \in {compiled, compiled \union {Output(t)}}
    /\ compiled' # compiled =>
         {l[1] : l \in links[t]} = Range(Imports[work[t].module])
    /\ ok /\ work[t].what = "build" =>
         /\ Output(t) \in compiled'
         /\ work[t].module \notin broken /\ work[t].module \notin failing
         /\ Service!Needs(work[t].module) \subseteq known
         /\ \A y \in Service!Needs(work[t].module) : Built(y)
    /\ ~ok /\ work[t].what = "build" => ~Service!Buildable(work[t].module)

LEMMA ReturnStep ==
    ASSUME IInv, TypeOK', NEW t \in 0 .. taken, NEW ok \in BOOLEAN, Returning(t, ok)
    PROVE  IInv'
<1>1. /\ t \in Id /\ t \in Nat /\ Running(t)
      /\ \A r \in Id : Running(r) => r \in 0 .. t
  BY TopFacts DEF IInv, Returning
<1>2. /\ done' = done \union {t} /\ good' = [good EXCEPT ![t] = ok]
      /\ outpath' = [outpath EXCEPT ![t] = settings']
      /\ count' = count /\ taken' = taken /\ work' = work
      /\ stage' = stage /\ next' = next /\ last' = last
      /\ saved' = saved /\ paths' = paths /\ links' = links
      /\ broken' = broken /\ failing' = failing /\ known' = known /\ asked' = asked
  BY DEF Returning, Return, progress, world, given
<1>3. Kept
  <2>1. t \notin done /\ done \subseteq Id /\ count \in Nat
    BY <1>1, TakenIds DEF Running, IInv
  <2>2. good \in [Id -> BOOLEAN] /\ outpath \in [Id -> Setting]
    BY DEF IInv, TypeOK
  <2>3. \A v \in done : good'[v] = good[v] /\ outpath'[v] = outpath[v]
    BY <1>2, <2>1, <2>2
  <2>4. compiled \subseteq compiled'
    BY DEF Returning
  <2> QED
    BY <1>2, <2>1, <2>3, <2>4 DEF Kept, given
<1>4. \A r : Running(r)' <=> Running(r) /\ r # t
  BY <1>2 DEF Running
<1>5. EveryTaskAwaited'
  <2>1. ASSUME NEW u \in 1 .. count, u \notin done'
        PROVE  \E r \in 0 .. u - 1 : Running(r)' /\ u \in next'[r] .. last'[r]
    <3>1. PICK r \in 0 .. u - 1 : Running(r) /\ u \in next[r] .. last[r]
      BY <1>2, <2>1 DEF IInv, EveryTaskAwaited
    <3>2. next[t] \in Nat /\ last[t] \in Nat
      BY <1>1, BoundAssumption DEF IInv, TypeOK
    <3>3. r # t
      BY <3>1, <3>2 DEF Returning, Waits
    <3> QED
      BY <1>2, <1>4, <3>1, <3>3
  <2> QED
    BY <1>2, <2>1 DEF EveryTaskAwaited
<1>6. RootLast'
  <2>1. CASE 0 \in done
    BY <1>2, <2>1 DEF IInv, RootLast
  <2>2. CASE t = 0
    <3>1. ASSUME NEW u \in 1 .. count, u \notin done PROVE FALSE
      <4>1. PICK r \in 0 .. u - 1 : Running(r) /\ u \in next[r] .. last[r]
        BY <3>1 DEF IInv, EveryTaskAwaited
      <4>2. r \in Id
        BY <4>1, TakenIds DEF IInv, Running
      <4>3. r = t
        BY <1>1, <2>2, <4>1, <4>2
      <4>4. next[t] \in Nat /\ last[t] \in Nat
        BY <1>1, BoundAssumption DEF IInv, TypeOK
      <4> QED
        BY <4>1, <4>3, <4>4 DEF Returning, Waits
    <3> QED
      BY <1>2, <3>1 DEF RootLast
  <2>3. 0 \in done' => 0 \in done \/ t = 0
    BY <1>2
  <2> QED
    BY <2>1, <2>2, <2>3 DEF RootLast
<1>7. SettingsNow'
  <2>1. \A r \in Id : r # t => (InScript(r)' <=> InScript(r))
    BY <1>2, <1>4 DEF InScript
  <2>2. ~InScript(t)' /\ ~Running(t)'
    BY <1>4 DEF InScript
  <2>3. \A r \in Id : Running(r)' => Running(r)
    BY <1>4
  <2>4. TypeOK /\ SettingsNow /\ Top(t) /\ settings' = Base(t)
    BY DEF IInv, Returning
  <2> QED
    BY <1>2, <2>1, <2>2, <2>3, <2>4, SettingsStep
<1>8. Frames'
  <2>1. ASSUME NEW r \in Id, Running(r)' PROVE WaitingAt(r)' /\ LearnedAt(r)' /\ CollectedAt(r)'
    <3>1. Running(r) /\ r # t
      BY <1>4, <2>1
    <3>2. FrameStays(r)
      BY <1>2, <3>1 DEF FrameStays, IInv, TypeOK
    <3> QED
      BY <1>3, <3>1, <3>2, FrameKept DEF IInv, Frames
  <2> QED
    BY <2>1 DEF Frames
<1>9. LinksFound'
  BY <1>2, <1>3, BuiltKept DEF IInv, LinksFound
<1>10. Results'
  <2>1. \A u \in done : ResultAt(u)'
    BY <1>3, ResultKept DEF IInv, Results
  <2>2. work'[t] = work[t] /\ good'[t] = ok /\ outpath'[t] = Base(t)
    <3>1. good \in [Id -> BOOLEAN] /\ outpath \in [Id -> Setting] /\ settings' = Base(t)
      BY DEF IInv, TypeOK, Returning
    <3> QED
      BY <1>1, <1>2, <3>1
  <2>3. ok /\ work[t].what = "build" =>
          \E d \in compiled' : d.module = work[t].module /\ d.to = Base(t)
    BY DEF Returning, Output
  <2>4. t > 0 => work[t].what = "build"
    BY <1>1 DEF IInv, Frames, WaitingAt
  <2>5. ResultAt(t)'
    <3>1. ok /\ work[t].what = "build" =>
            /\ work[t].module \notin broken /\ work[t].module \notin failing
            /\ Service!Needs(work[t].module) \subseteq known
            /\ \A y \in Service!Needs(work[t].module) : Built(y)
      BY DEF Returning
    <3>2. ~ok /\ work[t].what = "build" => ~Service!Buildable(work[t].module)
      BY DEF Returning
    <3>3. \A x : Built(x) => Built(x)'
      BY <1>3, BuiltKept DEF IInv
    <3> QED
      BY <1>2, <1>3, <2>2, <2>3, <2>4, <3>1, <3>2, <3>3, ServiceKept DEF ResultAt, Linkable
  <2> QED
    BY <1>2, <2>1, <2>5 DEF Results
<1>11. OutputsInPlace'
  BY DEF IInv, OutputsInPlace, Returning, Output
<1>12. LinksBuilt'
  <2>1. \A l \in links[t] : Linkable(l)'
    BY <1>1, <1>3, BuiltKept DEF IInv, LinksFound
  <2>2. \A l : (\E d \in compiled : d.module = l[1] /\ d.to = l[2]) => Linkable(l)'
    BY <1>3, BuiltKept DEF IInv, Linkable
  <2>3. \A c \in compiled' : c \in compiled \/ c.links = links[t]
    BY DEF Returning, Output
  <2> QED
    BY <2>1, <2>2, <2>3 DEF IInv, LinksBuilt, Linkable
<1>13. LinksComplete'
  <2>1. \A c \in compiled' : c \in compiled \/
          (c.links = links[t] /\ c.module = work[t].module /\ compiled' # compiled)
    BY DEF Returning, Output
  <2> QED
    BY <2>1 DEF IInv, LinksComplete, Returning
<1> QED
  BY <1>5, <1>6, <1>7, <1>8, <1>9, <1>10, <1>11, <1>12, <1>13 DEF IInv

(***************************************************************************)
(* At the end of a stage all that the frame waited for has returned; if    *)
(* the frame is still good they all succeeded, and it has a link to each.  *)
(***************************************************************************)
LEMMA AllReturned ==
    ASSUME IInv, NEW t \in 0 .. taken, Top(t), ~Waits(t)
    PROVE  /\ stage[t] \in {"deps", "script deps"} /\ good[t] =>
                \A x \in Range(List(t)) : Built(x)
           /\ stage[t] = "deps" /\ good[t] =>
                {l[1] : l \in links[t]} = Range(Imports[work[t].module])
<1>1. t \in Id /\ WaitingAt(t) /\ CollectedAt(t)
  BY TopFacts DEF IInv, Frames
<1>2. work[t].module \in Module /\ next[t] \in Nat /\ last[t] \in Nat
  BY <1>1, BoundAssumption DEF IInv, TypeOK, Work
<1>3. Len(List(t)) \in Nat /\ Range(List(t)) = {List(t)[i] : i \in 1 .. Len(List(t))}
  BY <1>2, ListFacts DEF List
<1>4. next[t] = last[t] + 1 /\ First(t) \in Nat /\ last[t] - First(t) = Len(List(t))
  BY <1>1, <1>2, <1>3 DEF WaitingAt, First, Waits
<1>5. next[t] - 1 = First(t) + Len(List(t))
  BY <1>2, <1>3, <1>4
<1>6. ASSUME stage[t] \in {"deps", "script deps"}, good[t], NEW x \in Range(List(t))
      PROVE  Built(x)
  <2>1. PICK i \in 1 .. Len(List(t)) : x = List(t)[i]
    BY <1>3
  <2>2. First(t) + i \in First(t) + 1 .. next[t] - 1
    BY <1>3, <1>4, <1>5
  <2>3. First(t) + i \in done /\ good[First(t) + i]
    BY <1>1, <1>6, <2>2 DEF WaitingAt
  <2>4. WhatAt(stage[t]) = "build"
    BY <1>6 DEF WhatAt
  <2>5. work[First(t) + i] = [what |-> "build", module |-> x]
    BY <1>1, <2>1, <2>4 DEF WaitingAt
  <2> QED
    BY <2>3, <2>5 DEF Built
<1>7. ASSUME stage[t] = "deps", good[t]
      PROVE  {l[1] : l \in links[t]} = Range(Imports[work[t].module])
  <2>1. List(t) = Imports[work[t].module]
    BY <1>7 DEF List, ListAt
  <2>2. next[t] - 1 - First(t) = Len(List(t))
    BY <1>2, <1>4
  <2>3. {l[1] : l \in links[t]} = {List(t)[i] : i \in 1 .. next[t] - 1 - First(t)}
    BY <1>1, <1>7 DEF CollectedAt
  <2> QED
    BY <1>3, <2>1, <2>2, <2>3
<1> QED
  BY <1>6, <1>7

LEMMA CompilesOutput ==
    ASSUME NEW t, NEW s, CompileFiles(t, s), s = Base(t), paths[t] = Base(t)
    PROVE  /\ compiled' \in {compiled, compiled \union {Output(t)}}
           /\ work[t].module \notin broken => Output(t) \in compiled'
  BY DEF CompileFiles, Output

(***************************************************************************)
(* Each way out of BuildModule.                                            *)
(***************************************************************************)
LEMMA ReturningActions ==
    ASSUME IInv, NEW t \in 0 .. taken,
           \/ Downloaded(t) \/ Unobtainable(t) \/ DependencyFailed(t) \/ Compile(t)
           \/ ScriptUnobtainable(t) \/ ScriptFailed(t) \/ RunScript(t)
    PROVE  \E ok \in BOOLEAN : Returning(t, ok)
<1> DEFINE x == work[t].module
<1>1. Top(t) /\ ~Waits(t) /\ t \in Id /\ x \in Module /\ Running(t)
  <2>1. Top(t) /\ ~Waits(t)
    BY DEF EndOf, Downloaded, Unobtainable, DependencyFailed, Compile, ScriptUnobtainable,
           ScriptFailed, RunScript
  <2> QED
    BY <2>1, TakenIds DEF IInv, TypeOK, Work, Top
<1>2. WaitingAt(t) /\ LearnedAt(t) /\ CollectedAt(t)
  BY <1>1 DEF IInv, Frames
<1>3. /\ ~InScript(t) => settings = Base(t)
      /\ InScript(t) => saved[t] = Base(t)
      /\ stage[t] # "get" => paths[t] = Base(t) /\ work[t].what = "build"
  BY <1>1, <1>2, SettingsAtTop DEF IInv, SettingsNow, WaitingAt
<1>4. good \in [Id -> BOOLEAN] /\ failing \subseteq Script
  BY DEF IInv, TypeOK
<1>5. ~good[t] /\ work[t].what = "build" => ~Service!Buildable(x)
  BY <1>2 DEF LearnedAt
<1>6. /\ ~(Range(Imports[x]) \subseteq known) => ~Service!Buildable(x)
      /\ x \in Script /\ ~(Range(ScriptImports[x]) \subseteq known) => ~Service!Buildable(x)
      /\ x \in broken \/ x \in failing => ~Service!Buildable(x)
  BY <1>1, NeedsFacts, NotBuildable
<1>7. stage[t] = "deps" => ~InScript(t) /\ List(t) = Imports[x]
  BY DEF InScript, List, ListAt
<1>8. stage[t] = "script deps" => InScript(t) /\ List(t) = ScriptImports[x]
  BY <1>1 DEF InScript, List, ListAt
<1>9. CASE Downloaded(t)
  <2>1. ~InScript(t) /\ work[t].what # "build" /\ good[t] \in BOOLEAN
    BY <1>1, <1>4, <1>9 DEF Downloaded, EndOf, InScript
  <2>2. /\ UNCHANGED <<world, given, compiled>> /\ settings' = Base(t)
        /\ Return(t, good[t])
    BY <1>3, <1>9, <2>1 DEF Downloaded
  <2>3. Returning(t, good[t])
    BY <1>1, <2>1, <2>2 DEF Returning
  <2> QED
    BY <2>1, <2>3
<1>10. CASE Unobtainable(t)
  <2>1. /\ ~InScript(t) /\ work[t].what = "build" /\ ~CanGoOn(t, Imports[x])
        /\ UNCHANGED <<world, given, settings, compiled>> /\ Return(t, FALSE)
    BY <1>10 DEF Unobtainable, EndOf, InScript
  <2>2. ~Service!Buildable(x)
    BY <1>5, <1>6, <2>1 DEF CanGoOn
  <2>3. Returning(t, FALSE)
    BY <1>1, <1>3, <2>1, <2>2 DEF Returning
  <2> QED
    BY <2>3
<1>11. CASE DependencyFailed(t)
  <2>1. /\ stage[t] = "deps" /\ ~good[t]
        /\ UNCHANGED <<world, given, settings, compiled>> /\ Return(t, FALSE)
    BY <1>11 DEF DependencyFailed, EndOf
  <2>2. Returning(t, FALSE)
    BY <1>1, <1>3, <1>5, <1>7, <2>1 DEF Returning
  <2> QED
    BY <2>2
<1>12. CASE Compile(t)
  <2>1. /\ stage[t] = "deps" /\ good[t] /\ x \notin Script /\ CompileFiles(t, settings)
        /\ UNCHANGED <<world, given, settings>> /\ Return(t, x \notin broken)
    BY <1>12 DEF Compile, EndOf
  <2>2. /\ {l[1] : l \in links[t]} = Range(Imports[x])
        /\ \A y \in Range(Imports[x]) : Built(y)
    BY <1>1, <1>7, <2>1, AllReturned
  <2>3. Service!Needs(x) = Range(Imports[x]) /\ Range(Imports[x]) \subseteq known
    BY <1>1, <1>2, <2>1, NeedsFacts DEF LearnedAt
  <2>4. settings = Base(t) /\ paths[t] = Base(t)
    BY <1>3, <1>7, <2>1
  <2>5. /\ compiled' \in {compiled, compiled \union {Output(t)}}
        /\ x \notin broken => Output(t) \in compiled'
    BY <2>1, <2>4, CompilesOutput
  <2>6. Returning(t, x \notin broken)
    BY <1>1, <1>4, <1>6, <2>1, <2>2, <2>3, <2>4, <2>5 DEF Returning
  <2>7. (x \notin broken) \in BOOLEAN
    OBVIOUS
  <2> QED
    BY <2>6, <2>7
<1>13. CASE ScriptUnobtainable(t)
  <2>1. /\ stage[t] = "script get" /\ ~CanGoOn(t, ScriptImports[x])
        /\ settings' = saved[t] /\ UNCHANGED <<world, given, compiled>> /\ Return(t, FALSE)
    BY <1>13 DEF ScriptUnobtainable, EndOf
  <2>2. InScript(t) /\ x \in Script
    BY <1>1, <1>2, <2>1 DEF InScript, LearnedAt
  <2>3. ~Service!Buildable(x)
    BY <1>3, <1>5, <1>6, <2>1, <2>2 DEF CanGoOn
  <2>4. Returning(t, FALSE)
    BY <1>1, <1>3, <2>1, <2>2, <2>3 DEF Returning
  <2> QED
    BY <2>4
<1>14. CASE ScriptFailed(t)
  <2>1. /\ stage[t] = "script deps"
        /\ ~good[t] \/ x \in failing
        /\ settings' = saved[t] /\ UNCHANGED <<world, given>> /\ Return(t, FALSE)
        /\ UNCHANGED compiled \/ CompileFiles(t, saved[t])
    BY <1>14 DEF ScriptFailed, EndOf
  <2>2. InScript(t) /\ {l[1] : l \in links[t]} = Range(Imports[x])
    BY <1>2, <1>8, <2>1 DEF CollectedAt
  <2>3. ~Service!Buildable(x)
    BY <1>3, <1>5, <1>6, <2>1
  <2>4. compiled' \in {compiled, compiled \union {Output(t)}}
    BY <1>3, <2>1, <2>2, CompilesOutput
  <2>5. Returning(t, FALSE)
    BY <1>1, <1>3, <2>1, <2>2, <2>3, <2>4 DEF Returning
  <2> QED
    BY <2>5
<1>15. CASE RunScript(t)
  <2>1. /\ stage[t] = "script deps" /\ good[t] /\ x \notin failing /\ settings' = saved[t]
        /\ CompileFiles(t, saved[t]) /\ UNCHANGED <<world, given>> /\ Return(t, x \notin broken)
    BY <1>15 DEF RunScript, EndOf
  <2>2. /\ InScript(t) /\ {l[1] : l \in links[t]} = Range(Imports[x])
        /\ x \in Script /\ \A y \in Range(Imports[x]) : Built(y)
        /\ Range(Imports[x]) \subseteq known /\ Range(ScriptImports[x]) \subseteq known
    BY <1>2, <1>8, <2>1 DEF CollectedAt, LearnedAt
  <2>3. \A y \in Range(ScriptImports[x]) : Built(y)
    BY <1>1, <1>8, <2>1, AllReturned
  <2>4. Service!Needs(x) \subseteq known /\ \A y \in Service!Needs(x) : Built(y)
    BY <1>1, <2>2, <2>3, NeedsFacts
  <2>5. /\ compiled' \in {compiled, compiled \union {Output(t)}}
        /\ x \notin broken => Output(t) \in compiled'
    BY <1>3, <2>1, <2>2, CompilesOutput
  <2>6. Returning(t, x \notin broken)
    BY <1>1, <1>3, <1>6, <2>1, <2>2, <2>4, <2>5 DEF Returning
  <2>7. (x \notin broken) \in BOOLEAN
    OBVIOUS
  <2> QED
    BY <2>6, <2>7
<1> QED
  BY <1>9, <1>10, <1>11, <1>12, <1>13, <1>14, <1>15

-----------------------------------------------------------------------------
(* A frame adds tasks and goes on to the next stage.                       *)

\* What AddTasks leaves to know about the frame and its tasks.
LEMMA AddTasksFacts ==
    ASSUME TypeOK, NEW t \in Id, NEW s \in Stages, NEW x \in Module,
           AddTasks(t, WhatAt(s), ListAt(s, x))
    PROVE  LET q == ListAt(s, x) IN
           /\ Len(q) \in Nat
           /\ count' = count + Len(q) /\ count' \in Nat
           /\ \A v \in 0 .. count : work'[v] = work[v]
           /\ \A i \in 1 .. Len(q) : work'[count + i] = [what |-> WhatAt(s), module |-> q[i]]
           /\ next'[t] = count + 1 /\ last'[t] = count + Len(q)
           /\ \A r \in Id : r # t => next'[r] = next[r] /\ last'[r] = last[r]
<1> DEFINE q == ListAt(s, x)
<1>1. Len(q) \in Nat
  BY ListFacts
<1> HIDE DEF q
<1>2. /\ count' = count + Len(q) /\ count + Len(q) <= MaxTask
      /\ next' = [next EXCEPT ![t] = count + 1]
      /\ last' = [last EXCEPT ![t] = count + Len(q)]
      /\ work' = [u \in Id |-> IF u \in count + 1 .. count + Len(q)
                     THEN [what |-> WhatAt(s), module |-> q[u - count]] ELSE work[u]]
  BY DEF AddTasks, q
<1>3. count \in Nat /\ next \in [Id -> Nat] /\ last \in [Id -> Id]
  BY TakenIds DEF TypeOK
<1>4. ASSUME NEW v \in 0 .. count PROVE work'[v] = work[v]
  <2>1. v \in Id /\ v \notin count + 1 .. count + Len(q)
    BY <1>1, <1>2, <1>3, BoundAssumption
  <2> QED
    BY <1>2, <2>1
<1>5. ASSUME NEW i \in 1 .. Len(q)
      PROVE  work'[count + i] = [what |-> WhatAt(s), module |-> q[i]]
  <2>1. PICK k \in Id : k = count + i /\ k \in count + 1 .. count + Len(q) /\ k - count = i
    BY <1>1, <1>2, <1>3, BoundAssumption
  <2>2. work'[k] = [what |-> WhatAt(s), module |-> q[k - count]]
    BY <1>2, <2>1
  <2> QED
    BY <2>1, <2>2
<1>6. next'[t] = count + 1 /\ last'[t] = count + Len(q)
      /\ \A r \in Id : r # t => next'[r] = next[r] /\ last'[r] = last[r]
  BY <1>2, <1>3
<1>7. count' = count + Len(q) /\ count' \in Nat
  BY <1>1, <1>2, <1>3
<1> QED
  BY <1>1, <1>4, <1>5, <1>6, <1>7 DEF q

\* A frame that has just added its tasks waits for all of them.
LEMMA WaitingBegins ==
    ASSUME TypeOK, NEW t \in 0 .. count, NEW s \in Stages,
           AddTasks(t, WhatAt(s), ListAt(s, work[t].module)),
           stage'[t] = s, work[t].what = "build"
    PROVE  /\ WaitingAt(t)' /\ next'[t] - 1 - First(t)' = 0
           /\ \A u \in count + 1 .. count' : u \in next'[t] .. last'[t]
<1> DEFINE q == ListAt(s, work[t].module)
<1>1. t \in Id /\ work[t].module \in Module /\ count \in Nat /\ t \in Nat
  <2>1. t \in Id /\ count \in Nat /\ t \in Nat
    BY TakenIds, BoundAssumption
  <2> QED
    BY <2>1 DEF TypeOK, Work
<1>2. /\ Len(q) \in Nat /\ count' = count + Len(q)
      /\ \A v \in 0 .. count : work'[v] = work[v]
      /\ \A i \in 1 .. Len(q) : work'[count + i] = [what |-> WhatAt(s), module |-> q[i]]
      /\ next'[t] = count + 1 /\ last'[t] = count + Len(q)
  BY <1>1, AddTasksFacts
<1>3. work'[t] = work[t]
  BY <1>2
<1> HIDE DEF q
<1>4. List(t)' = q
  BY <1>3 DEF List, ListAt, q
<1>5. First(t)' = count
  BY <1>1, <1>2, <1>4 DEF First
<1>6. WaitingAt(t)'
  <2>1. \A u \in count + 1 .. count : FALSE
    BY <1>1
  <2>2. count + 1 \in count + 1 .. count + Len(q) + 1
    BY <1>1, <1>2
  <2>3. WhatAt(stage[t])' = WhatAt(s)
    BY DEF WhatAt
  <2>4. next'[t] - 1 = count
    BY <1>1, <1>2
  <2> QED
    BY <1>1, <1>2, <1>3, <1>4, <1>5, <2>1, <2>2, <2>3, <2>4 DEF WaitingAt
<1> QED
  BY <1>1, <1>2, <1>5, <1>6

\* What the ways to go on have in common.
Entering(t, s) ==
    LET x == work[t].module IN
    /\ Top(t) /\ ~Waits(t)
    /\ work[t].what = "build"
    /\ UNCHANGED <<world, given, taken, done, outpath, links, compiled>>
    /\ Enter(t, s)
    /\ AddTasks(t, WhatAt(s), ListAt(s, x))
    /\ settings' = IF s \in {"script get", "script deps"} THEN Default ELSE Base(t)
    /\ s \in {"script get", "script deps"} => saved'[t] = Base(t)
    /\ paths'[t] = Base(t)
    /\ \A r \in Id : r # t => saved'[r] = saved[r] /\ paths'[r] = paths[r]
    /\ Range(Imports[x]) \subseteq known
    /\ s = "deps" => links[t] = {}
    /\ s \in {"script get", "script deps"} =>
         /\ x \in Script
         /\ \A y \in Range(Imports[x]) : Built(y)
         /\ {l[1] : l \in links[t]} = Range(Imports[x])
    /\ s = "script deps" => Range(ScriptImports[x]) \subseteq known

LEMMA EnterStep ==
    ASSUME IInv, TypeOK', NEW t \in 0 .. taken, NEW s \in Stages, s # "get",
           Entering(t, s)
    PROVE  IInv'
<1> DEFINE x == work[t].module
<1>0. TypeOK /\ taken \in Nat /\ count \in Nat /\ taken <= count
  <2>1. TypeOK
    BY DEF IInv
  <2> QED
    BY <2>1, TakenIds
<1>1. /\ t \in Id /\ t \in Nat /\ Running(t) /\ t \in 0 .. count /\ s \in Stages /\ x \in Module
  <2>1. t \in Id /\ t \in Nat /\ Running(t)
    BY TopFacts DEF IInv, Entering
  <2>2. t \in 0 .. count
    BY <1>0
  <2>3. x \in Module
    BY <2>1 DEF IInv, TypeOK, Work
  <2> QED
    BY <2>1, <2>2, <2>3 DEF Stages
<1>2. /\ taken' = taken /\ done' = done /\ outpath' = outpath /\ links' = links
      /\ compiled' = compiled /\ known' = known /\ asked' = asked
      /\ broken' = broken /\ failing' = failing
  BY DEF Entering, world, given
<1>3. /\ stage' = [stage EXCEPT ![t] = s] /\ good' = [good EXCEPT ![t] = TRUE]
      /\ AddTasks(t, WhatAt(s), ListAt(s, x))
  BY DEF Entering, Enter
<1>4. /\ stage'[t] = s /\ good'[t] = TRUE
      /\ \A r \in Id : r # t => stage'[r] = stage[r] /\ good'[r] = good[r]
  BY <1>1, <1>3 DEF IInv, TypeOK
<1>5. /\ count \in Nat /\ count <= count' /\ count' \in Nat
      /\ \A v \in 0 .. count : work'[v] = work[v]
      /\ \A r \in Id : r # t => next'[r] = next[r] /\ last'[r] = last[r]
  <2> DEFINE q == ListAt(s, x)
  <2>1. /\ Len(q) \in Nat /\ count' = count + Len(q)
        /\ \A v \in 0 .. count : work'[v] = work[v]
        /\ \A r \in Id : r # t => next'[r] = next[r] /\ last'[r] = last[r]
    BY <1>0, <1>1, <1>3, AddTasksFacts
  <2> HIDE DEF q
  <2> QED
    BY <1>0, <2>1
<1>6. WaitingAt(t)' /\ next'[t] - 1 - First(t)' = 0
      /\ \A u \in count + 1 .. count' : u \in next'[t] .. last'[t]
  BY <1>1, <1>3, <1>4, WaitingBegins DEF IInv, Entering
<1>7. Kept
  <2>1. \A v \in done : v \in Id /\ v # t
    BY <1>1, TakenIds DEF Running, IInv
  <2> QED
    BY <1>2, <1>4, <1>5, <2>1 DEF Kept, given, Entering
<1>8. \A r : Running(r)' <=> Running(r)
  BY <1>2 DEF Running
<1>9. EveryTaskAwaited'
  <2>1. ASSUME NEW u \in 1 .. count', u \notin done'
        PROVE  \E r \in 0 .. u - 1 : Running(r)' /\ u \in next'[r] .. last'[r]
    <3>1. CASE u \in 1 .. count
      <4>1. PICK r \in 0 .. u - 1 : Running(r) /\ u \in next[r] .. last[r]
        BY <1>2, <2>1, <3>1 DEF IInv, EveryTaskAwaited
      <4>2. next[t] \in Nat /\ last[t] \in Nat /\ ~(next[t] <= last[t])
        <5>1. next[t] \in Nat /\ last[t] \in 0 .. MaxTask
          BY <1>0, <1>1 DEF TypeOK
        <5>2. last[t] \in Nat
          BY <5>1, BoundAssumption
        <5>3. ~(next[t] <= last[t])
          BY DEF Entering, Waits
        <5> QED
          BY <5>1, <5>2, <5>3
      <4>3. r # t
        BY <4>1, <4>2
      <4>4. r \in Id
        BY <4>1, TakenIds DEF IInv, Running
      <4> QED
        BY <1>5, <1>8, <4>1, <4>3, <4>4
    <3>2. CASE u \notin 1 .. count
      <4>1. t \in Nat /\ t <= count
        BY <1>0, <1>1
      <4>2. u \in count + 1 .. count' /\ t \in 0 .. u - 1
        BY <1>5, <3>2, <4>1
      <4> QED
        BY <1>1, <1>6, <1>8, <4>2
    <3> QED
      BY <3>1, <3>2
  <2> QED
    BY <2>1 DEF EveryTaskAwaited
<1>10. RootLast'
  <2>1. t \notin done /\ (t = 0 \/ t \in 1 .. count)
    <3>1. t \notin done
      BY <1>1 DEF Running
    <3> QED
      BY <1>0, <1>1, <3>1
  <2>2. 0 \notin done
    BY <2>1 DEF IInv, RootLast
  <2> QED
    BY <1>2, <2>2 DEF RootLast
<1>11. SettingsNow'
  <2>1. \A r \in Id : r # t => (InScript(r)' <=> InScript(r))
    BY <1>4, <1>8 DEF InScript
  <2>2. InScript(t)' <=> s \in {"script get", "script deps"}
    BY <1>1, <1>4, <1>8 DEF InScript
  <2>3. /\ settings' = IF s \in {"script get", "script deps"} THEN Default ELSE Base(t)
        /\ s \in {"script get", "script deps"} => saved'[t] = Base(t)
        /\ paths'[t] = Base(t)
        /\ \A r \in Id : r # t => saved'[r] = saved[r] /\ paths'[r] = paths[r]
    BY DEF Entering
  <2>4. \A r \in Id : r # t /\ Running(r)' /\ stage'[r] # "get" =>
           Running(r) /\ stage[r] # "get" /\ paths'[r] = paths[r]
    BY <1>4, <1>8, <2>3
  <2>5. TypeOK /\ SettingsNow /\ Top(t)
    BY DEF IInv, Entering
  <2> QED
    BY <1>2, <2>1, <2>2, <2>3, <2>4, <2>5, SettingsStep
<1>12. Frames'
  <2>1. ASSUME NEW r \in Id, Running(r)', r # t
        PROVE  WaitingAt(r)' /\ LearnedAt(r)' /\ CollectedAt(r)'
    <3>1. Running(r) /\ FrameStays(r)
      BY <1>2, <1>4, <1>5, <1>8, <2>1 DEF FrameStays
    <3> QED
      BY <1>7, <3>1, FrameKept DEF IInv, Frames
  <2>2. work'[t] = work[t]
    BY <1>1, <1>5
  <2>3. LearnedAt(t)'
    <3>1. \A y : Built(y) => Built(y)'
      BY <1>7, BuiltKept DEF IInv
    <3> QED
      BY <1>2, <1>4, <2>2, <3>1 DEF LearnedAt, Entering
  <2>4. CollectedAt(t)'
    <3>1. s # "get"
      OBVIOUS
    <3>2. ASSUME s = "deps"
          PROVE  {l[1] : l \in links'[t]} = {List(t)'[i] : i \in 1 .. next'[t] - 1 - First(t)'}
      <4>1. links'[t] = {}
        BY <1>2, <3>2 DEF Entering
      <4>2. {l[1] : l \in links'[t]} = {}
        BY <4>1
      <4>3. {List(t)'[i] : i \in 1 .. next'[t] - 1 - First(t)'} = {}
        <5>1. next'[t] - 1 - First(t)' = 0
          BY <1>6
        <5>2. \A i \in 1 .. 0 : FALSE
          OBVIOUS
        <5> QED
          BY <5>1, <5>2
      <4> QED
        BY <4>2, <4>3
    <3>3. s \in {"script get", "script deps"} =>
            {l[1] : l \in links'[t]} = Range(Imports[work'[t].module])
      BY <1>2, <2>2 DEF Entering
    <3> QED
      BY <1>4, <3>1, <3>2, <3>3 DEF CollectedAt
  <2> QED
    BY <1>6, <2>1, <2>3, <2>4 DEF Frames
<1>13. LinksFound'
  BY <1>2, <1>7, BuiltKept DEF IInv, LinksFound
<1>14. Results'
  BY <1>2, <1>7, ResultKept DEF IInv, Results
<1>15. OutputsInPlace' /\ LinksBuilt' /\ LinksComplete'
  BY <1>2 DEF IInv, OutputsInPlace, LinksBuilt, LinksComplete
<1> QED
  BY <1>9, <1>10, <1>11, <1>12, <1>13, <1>14, <1>15 DEF IInv

(***************************************************************************)
(* The three ways to go on.                                                *)
(***************************************************************************)
LEMMA EnteringActions ==
    ASSUME IInv, NEW t \in 0 .. taken,
           BuildModuleDependencies(t) \/ BuildFile(t) \/ BuildScriptDependencies(t)
    PROVE  \E s \in Stages : s # "get" /\ Entering(t, s)
<1> DEFINE x == work[t].module
<1>1. Top(t) /\ ~Waits(t) /\ t \in Id /\ x \in Module /\ Running(t)
  <2>1. Top(t) /\ ~Waits(t)
    BY DEF EndOf, BuildModuleDependencies, BuildFile, BuildScriptDependencies
  <2> QED
    BY <2>1, TakenIds DEF IInv, TypeOK, Work, Top
<1>2. WaitingAt(t) /\ LearnedAt(t) /\ CollectedAt(t)
  BY <1>1 DEF IInv, Frames
<1>3. /\ ~InScript(t) => settings = Base(t)
      /\ InScript(t) => saved[t] = Base(t) /\ settings = Default
      /\ stage[t] # "get" => paths[t] = Base(t) /\ work[t].what = "build"
  BY <1>1, <1>2, SettingsAtTop DEF IInv, SettingsNow, WaitingAt
<1>4. saved \in [Id -> Setting] /\ paths \in [Id -> Setting]
  BY DEF IInv, TypeOK
<1>5. CASE BuildModuleDependencies(t)
  <2>1. /\ stage[t] = "get" /\ work[t].what = "build" /\ Range(Imports[x]) \subseteq known
        /\ Enter(t, "deps") /\ AddTasks(t, "build", Imports[x])
        /\ paths' = [paths EXCEPT ![t] = settings]
        /\ UNCHANGED <<world, given, settings, taken, done, saved, outpath, links, compiled>>
    BY <1>5 DEF BuildModuleDependencies, EndOf, CanGoOn
  <2>2. settings = Base(t) /\ links[t] = {}
    BY <1>2, <1>3, <2>1 DEF InScript, CollectedAt
  <2>3. paths'[t] = Base(t) /\ \A r \in Id : r # t => paths'[r] = paths[r]
    BY <1>1, <1>4, <2>1, <2>2
  <2>4. WhatAt("deps") = "build" /\ ListAt("deps", x) = Imports[x]
    BY DEF WhatAt, ListAt
  <2>5. Entering(t, "deps")
    BY <1>1, <2>1, <2>2, <2>3, <2>4 DEF Entering
  <2> QED
    BY <2>5 DEF Stages
<1>6. CASE BuildFile(t)
  <2>1. /\ stage[t] = "deps" /\ good[t] /\ x \in Script
        /\ Enter(t, "script get") /\ AddTasks(t, "get", ScriptImports[x])
        /\ saved' = [saved EXCEPT ![t] = settings] /\ settings' = Default
        /\ UNCHANGED <<world, given, taken, done, paths, outpath, links, compiled>>
    BY <1>6 DEF BuildFile, EndOf
  <2>2. settings = Base(t) /\ paths[t] = Base(t) /\ work[t].what = "build"
    BY <1>3, <2>1 DEF InScript
  <2>3. saved'[t] = Base(t) /\ \A r \in Id : r # t => saved'[r] = saved[r]
    BY <1>1, <1>4, <2>1, <2>2
  <2>4. List(t) = Imports[x]
    BY <2>1 DEF List, ListAt
  <2>5. /\ \A y \in Range(Imports[x]) : Built(y)
        /\ {l[1] : l \in links[t]} = Range(Imports[x])
        /\ Range(Imports[x]) \subseteq known
    BY <1>1, <1>2, <2>1, <2>4, AllReturned DEF LearnedAt
  <2>6. WhatAt("script get") = "get" /\ ListAt("script get", x) = ScriptImports[x]
    BY DEF WhatAt, ListAt
  <2>7. Entering(t, "script get")
    BY <1>1, <2>1, <2>2, <2>3, <2>5, <2>6 DEF Entering
  <2> QED
    BY <2>7 DEF Stages
<1>7. CASE BuildScriptDependencies(t)
  <2>1. /\ stage[t] = "script get" /\ Range(ScriptImports[x]) \subseteq known
        /\ Enter(t, "script deps") /\ AddTasks(t, "build", ScriptImports[x])
        /\ UNCHANGED <<world, given, settings, taken, done, saved, paths, outpath, links, compiled>>
    BY <1>7 DEF BuildScriptDependencies, EndOf, CanGoOn
  <2>2. InScript(t)
    BY <1>1, <2>1 DEF InScript
  <2>3. /\ saved[t] = Base(t) /\ settings = Default /\ paths[t] = Base(t)
        /\ work[t].what = "build"
    BY <1>3, <2>1, <2>2
  <2>4. /\ x \in Script /\ \A y \in Range(Imports[x]) : Built(y)
        /\ {l[1] : l \in links[t]} = Range(Imports[x])
        /\ Range(Imports[x]) \subseteq known
    BY <1>2, <2>1 DEF LearnedAt, CollectedAt
  <2>5. WhatAt("script deps") = "build" /\ ListAt("script deps", x) = ScriptImports[x]
    BY DEF WhatAt, ListAt
  <2>6. Entering(t, "script deps")
    BY <1>1, <2>1, <2>3, <2>4, <2>5 DEF Entering
  <2> QED
    BY <2>6 DEF Stages
<1> QED
  BY <1>5, <1>6, <1>7
-----------------------------------------------------------------------------
(* The frame on top takes the next task.                                   *)

\* While a frame runs, the request has not returned.
LEMMA RequestRuns ==
    ASSUME IInv, NEW t \in 0 .. taken, Running(t)
    PROVE  0 \notin done
<1>1. TypeOK /\ taken \in Nat /\ count \in Nat /\ taken <= count
  <2>1. TypeOK
    BY DEF IInv
  <2> QED
    BY <2>1, TakenIds
<1>2. t \notin done /\ (t = 0 \/ t \in 1 .. count)
  <2>1. t = 0 \/ t \in 1 .. count
    BY <1>1
  <2> QED
    BY <2>1 DEF Running
<1> QED
  BY <1>2 DEF IInv, RootLast

\* The settings, when no frame that runs goes to another stage.
LEMMA SettingsStay ==
    ASSUME IInv, NEW t \in 0 .. taken, Top(t),
           UNCHANGED <<asked, settings, saved, paths>>,
           \A r \in Id : Running(r) => Running(r)' /\ stage'[r] = stage[r],
           \A r \in Id : Running(r)' /\ ~Running(r) => stage'[r] = "get"
    PROVE  SettingsNow'
<1>1. TypeOK /\ SettingsNow
  BY DEF IInv
<1>2. t \in Id /\ Running(t)
  BY <1>1, TopFacts
<1>3. \A r \in Id : InScript(r)' <=> InScript(r)
  BY DEF InScript
<1>4. \A r \in Id : Running(r)' /\ stage'[r] # "get" => Running(r) /\ stage[r] # "get"
  OBVIOUS
<1>5. settings = IF InScript(t) THEN Default ELSE Base(t)
  <2>1. InScript(t) => settings = Default
    BY <1>1, <1>2 DEF SettingsNow
  <2> QED
    BY <1>1, <2>1, SettingsAtTop
<1>6. InScript(t) => saved[t] = Base(t)
  BY <1>1, <1>2 DEF SettingsNow
<1>7. Running(t) /\ stage[t] # "get" => paths[t] = Base(t)
  BY <1>1, <1>2 DEF SettingsNow
<1> QED
  BY <1>1, <1>2, <1>3, <1>4, <1>5, <1>6, <1>7, SettingsStep

LEMMA BeginStep ==
    ASSUME IInv, TypeOK', NEW t \in 0 .. taken, NEW u \in taken + 1 .. count, Begin(t, u)
    PROVE  IInv'
<1> DEFINE x == work[u].module
<1>0. /\ TypeOK /\ taken \in Nat /\ count \in Nat /\ taken <= count
      /\ \A v \in done : v \in 0 .. taken /\ v \in Id
  <2>1. TypeOK
    BY DEF IInv
  <2> QED
    BY <2>1, TakenIds
<1>1. u \in Nat /\ u \in 0 .. count /\ u \in Id /\ u > taken /\ u = taken + 1
  <2>1. u = taken + 1
    BY DEF Begin, Help
  <2>2. u \in 0 .. count /\ u \in Nat /\ u > taken
    BY <1>0, <2>1
  <2>3. count \in 0 .. MaxTask
    BY <1>0 DEF TypeOK
  <2>4. u \in Id
    BY <1>0, <2>2, <2>3, BoundAssumption
  <2> QED
    BY <2>1, <2>2, <2>4
<1>2. /\ taken' = u /\ done' = done /\ outpath' = outpath /\ links' = links
      /\ compiled' = compiled /\ known' = known /\ asked' = asked /\ settings' = settings
      /\ broken' = broken /\ failing' = failing /\ saved' = saved /\ paths' = paths
  BY DEF Begin, Help, world, given
<1>3. /\ stage' = [stage EXCEPT ![u] = "get"] /\ good' = [good EXCEPT ![u] = TRUE]
      /\ AddTasks(u, WhatAt("get"), ListAt("get", x)) /\ work[u].what = "build"
      /\ Top(t)
  BY DEF Begin, Help, Enter, WhatAt, ListAt
<1>4. /\ stage'[u] = "get" /\ good'[u] = TRUE
      /\ \A r \in Id : r # u => stage'[r] = stage[r] /\ good'[r] = good[r]
  BY <1>0, <1>1, <1>3 DEF TypeOK
<1>5. /\ count <= count' /\ count' \in Nat
      /\ \A v \in 0 .. count : work'[v] = work[v]
      /\ \A r \in Id : r # u => next'[r] = next[r] /\ last'[r] = last[r]
  <2> DEFINE q == ListAt("get", x)
  <2>1. "get" \in Stages /\ x \in Module
    BY <1>0, <1>1 DEF Stages, TypeOK, Work
  <2>2. /\ Len(q) \in Nat /\ count' = count + Len(q)
        /\ \A v \in 0 .. count : work'[v] = work[v]
        /\ \A r \in Id : r # u => next'[r] = next[r] /\ last'[r] = last[r]
    BY <1>0, <1>1, <1>3, <2>1, AddTasksFacts
  <2> HIDE DEF q
  <2> QED
    BY <1>0, <2>2
<1>6. WaitingAt(u)' /\ \A v \in count + 1 .. count' : v \in next'[u] .. last'[u]
  <2>1. "get" \in Stages
    BY DEF Stages
  <2> QED
    BY <1>0, <1>1, <1>3, <1>4, <2>1, WaitingBegins
<1>7. u \notin done
  BY <1>0, <1>1
<1>8. Kept
  BY <1>0, <1>2, <1>4, <1>5, <1>7 DEF Kept, given
<1>9. /\ \A r \in Nat : Running(r)' <=> Running(r) \/ r = u
      /\ ~Running(u)
  BY <1>0, <1>1, <1>2, <1>7 DEF Running
<1>10. \A r \in Id : r \in Nat
  BY BoundAssumption
<1>11. EveryTaskAwaited'
  <2>1. ASSUME NEW v \in 1 .. count', v \notin done'
        PROVE  \E r \in 0 .. v - 1 : Running(r)' /\ v \in next'[r] .. last'[r]
    <3>1. CASE v \in 1 .. count
      <4>1. PICK r \in 0 .. v - 1 : Running(r) /\ v \in next[r] .. last[r]
        BY <1>2, <2>1, <3>1 DEF IInv, EveryTaskAwaited
      <4>2. r \in Id
        BY <4>1, <1>0, TakenIds DEF Running
      <4>3. r # u
        BY <1>9, <4>1
      <4> QED
        BY <1>5, <1>9, <1>10, <4>1, <4>2, <4>3
    <3>2. CASE v \notin 1 .. count
      <4>1. v \in count + 1 .. count' /\ u \in 0 .. v - 1
        BY <1>0, <1>1, <1>5, <3>2
      <4> QED
        BY <1>1, <1>6, <1>9, <4>1
    <3> QED
      BY <3>1, <3>2
  <2> QED
    BY <2>1 DEF EveryTaskAwaited
<1>12. RootLast'
  <2>1. 0 \notin done
    BY <1>3, RequestRuns DEF Top
  <2> QED
    BY <1>2, <2>1 DEF RootLast
<1>13. SettingsNow'
  <2>1. \A r \in Id : Running(r) => Running(r)' /\ stage'[r] = stage[r]
    BY <1>4, <1>9, <1>10
  <2>2. \A r \in Id : Running(r)' /\ ~Running(r) => stage'[r] = "get"
    BY <1>4, <1>9, <1>10
  <2> QED
    BY <1>2, <1>3, <2>1, <2>2, SettingsStay
<1>14. Frames'
  <2>1. ASSUME NEW r \in Id, Running(r)', r # u
        PROVE  WaitingAt(r)' /\ LearnedAt(r)' /\ CollectedAt(r)'
    <3>1. Running(r) /\ FrameStays(r)
      BY <1>2, <1>4, <1>5, <1>9, <1>10, <2>1 DEF FrameStays
    <3> QED
      BY <1>0, <1>8, <2>1, <3>1, FrameKept DEF IInv, Frames
  <2>2. LearnedAt(u)'
    BY <1>4 DEF LearnedAt
  <2>3. CollectedAt(u)'
    <3>1. links[u] = {}
      BY <1>1 DEF IInv, LinksFound
    <3> QED
      BY <1>2, <1>4, <3>1 DEF CollectedAt
  <2> QED
    BY <1>6, <2>1, <2>2, <2>3 DEF Frames
<1>15. LinksFound'
  <2>1. \A r \in Id : r > u => r > taken
    BY <1>0, <1>1, <1>10
  <2>2. \A l : Linkable(l) => Linkable(l)'
    BY <1>0, <1>8, BuiltKept
  <2> QED
    BY <1>2, <2>1, <2>2 DEF IInv, LinksFound
<1>16. Results'
  BY <1>0, <1>2, <1>8, ResultKept DEF IInv, Results
<1>17. OutputsInPlace' /\ LinksBuilt' /\ LinksComplete'
  BY <1>2 DEF IInv, OutputsInPlace, LinksBuilt, LinksComplete
<1> QED
  BY <1>11, <1>12, <1>13, <1>14, <1>15, <1>16, <1>17 DEF IInv

LEMMA GetStep ==
    ASSUME IInv, TypeOK', NEW t \in 0 .. taken, NEW u \in taken + 1 .. count, Get(t, u)
    PROVE  IInv'
<1> DEFINE x == work[u].module
<1>0. /\ TypeOK /\ taken \in Nat /\ count \in Nat /\ taken <= count
      /\ \A v \in done : v \in 0 .. taken /\ v \in Id
  <2>1. TypeOK
    BY DEF IInv
  <2> QED
    BY <2>1, TakenIds
<1>1. u \in Nat /\ u \in 0 .. count /\ u \in Id /\ u > taken /\ u = taken + 1
  <2>1. u = taken + 1
    BY DEF Get, Help
  <2>2. u \in 0 .. count /\ u \in Nat /\ u > taken
    BY <1>0, <2>1
  <2>3. count \in 0 .. MaxTask
    BY <1>0 DEF TypeOK
  <2>4. u \in Id
    BY <1>0, <2>2, <2>3, BoundAssumption
  <2> QED
    BY <2>1, <2>2, <2>4
<1>2. /\ taken' = u /\ done' = done \union {u} /\ outpath' = outpath /\ links' = links
      /\ compiled' = compiled /\ known' = known /\ asked' = asked /\ settings' = settings
      /\ broken' = broken /\ failing' = failing /\ saved' = saved /\ paths' = paths
      /\ count' = count /\ work' = work /\ stage' = stage /\ next' = next /\ last' = last
      /\ Top(t) /\ work[u].what = "get"
  BY DEF Get, Help, given, progress
<1>3. PICK ok \in BOOLEAN : good' = [good EXCEPT ![u] = ok] /\ (~ok => x \notin known)
  BY DEF Get, Present
<1>4. good'[u] = ok /\ \A r \in Id : r # u => good'[r] = good[r]
  BY <1>0, <1>1, <1>3 DEF TypeOK
<1>5. u \notin done
  BY <1>0, <1>1
<1>6. Kept
  BY <1>0, <1>2, <1>4, <1>5 DEF Kept, given
<1>7. \A r \in Id : r \in Nat
  BY BoundAssumption
<1>8. /\ \A r \in Nat : Running(r)' <=> Running(r)
      /\ ~Running(u)
  BY <1>0, <1>1, <1>2, <1>5 DEF Running
<1>9. EveryTaskAwaited'
  <2>1. ASSUME NEW v \in 1 .. count, v \notin done'
        PROVE  \E r \in 0 .. v - 1 : Running(r)' /\ v \in next'[r] .. last'[r]
    <3>1. PICK r \in 0 .. v - 1 : Running(r) /\ v \in next[r] .. last[r]
      BY <1>2, <2>1 DEF IInv, EveryTaskAwaited
    <3>2. r \in Nat
      BY <3>1
    <3> QED
      BY <1>2, <1>8, <3>1, <3>2
  <2> QED
    BY <1>2, <2>1 DEF EveryTaskAwaited
<1>10. RootLast'
  <2>1. 0 \notin done
    BY <1>2, RequestRuns DEF Top
  <2>2. u # 0
    BY <1>0, <1>1
  <2> QED
    BY <1>2, <2>1, <2>2 DEF RootLast
<1>11. SettingsNow'
  <2>1. \A r \in Id : Running(r) => Running(r)' /\ stage'[r] = stage[r]
    BY <1>2, <1>7, <1>8
  <2>2. \A r \in Id : Running(r)' /\ ~Running(r) => stage'[r] = "get"
    BY <1>7, <1>8
  <2> QED
    BY <1>2, <2>1, <2>2, SettingsStay
<1>12. Frames'
  <2>1. ASSUME NEW r \in Id, Running(r)'
        PROVE  WaitingAt(r)' /\ LearnedAt(r)' /\ CollectedAt(r)'
    <3>1. Running(r) /\ r # u
      BY <1>7, <1>8, <2>1
    <3>2. FrameStays(r)
      BY <1>2, <1>4, <3>1 DEF FrameStays
    <3> QED
      BY <1>0, <1>6, <2>1, <3>1, <3>2, FrameKept DEF IInv, Frames
  <2> QED
    BY <2>1 DEF Frames
<1>13. LinksFound'
  <2>1. \A r \in Id : r > u => r > taken
    BY <1>0, <1>1, <1>7
  <2>2. \A l : Linkable(l) => Linkable(l)'
    BY <1>0, <1>6, BuiltKept
  <2> QED
    BY <1>2, <2>1, <2>2 DEF IInv, LinksFound
<1>14. Results'
  <2>1. \A v \in done : ResultAt(v)'
    BY <1>0, <1>6, ResultKept DEF IInv, Results
  <2>2. ResultAt(u)'
    BY <1>2, <1>3, <1>4 DEF ResultAt
  <2> QED
    BY <1>2, <2>1, <2>2 DEF Results
<1>15. OutputsInPlace' /\ LinksBuilt' /\ LinksComplete'
  BY <1>2 DEF IInv, OutputsInPlace, LinksBuilt, LinksComplete
<1> QED
  BY <1>9, <1>10, <1>11, <1>12, <1>13, <1>14, <1>15 DEF IInv
-----------------------------------------------------------------------------
(* The frame on top takes a result.                                        *)

\* The task a frame waits for is the one for the next module of its list.
LEMMA AwaitedTask ==
    ASSUME IInv, NEW t \in Id, Running(t), Waits(t)
    PROVE  LET i == next[t] - First(t) IN
           /\ i \in 1 .. Len(List(t)) /\ First(t) \in Nat
           /\ next[t] = First(t) + i /\ next[t] \in Nat /\ next[t] > 0
           /\ last[t] \in Nat /\ next[t] <= last[t]
           /\ work[next[t]] = [what |-> WhatAt(stage[t]), module |-> List(t)[i]]
           /\ List(t)[i] \in Range(List(t))
<1> DEFINE i == next[t] - First(t)
<1>1. WaitingAt(t) /\ next[t] \in Nat /\ last[t] \in 0 .. MaxTask /\ work[t].module \in Module
  BY DEF IInv, Frames, TypeOK, Work
<1>2. Len(List(t)) \in Nat /\ Range(List(t)) = {List(t)[j] : j \in 1 .. Len(List(t))}
  BY <1>1, ListFacts DEF List
<1>3. last[t] \in Nat /\ next[t] <= last[t]
  <2>1. last[t] \in Nat
    BY <1>1, BoundAssumption
  <2> QED
    BY <2>1 DEF Waits
<1>4. First(t) = last[t] - Len(List(t)) /\ First(t) >= 0 /\ next[t] \in First(t) + 1 .. last[t] + 1
  BY <1>1 DEF WaitingAt, First
<1>5. i \in 1 .. Len(List(t)) /\ First(t) \in Nat /\ next[t] = First(t) + i /\ next[t] > 0
  BY <1>1, <1>2, <1>3, <1>4
<1>6. work[First(t) + i] = [what |-> WhatAt(stage[t]), module |-> List(t)[i]]
  BY <1>1, <1>5 DEF WaitingAt
<1> QED
  BY <1>1, <1>2, <1>3, <1>5, <1>6

LEMMA OneMoreLink ==
    ASSUME NEW L, NEW a, NEW b
    PROVE  {l[1] : l \in L \union {<<a, b>>}} = {l[1] : l \in L} \union {a}
<1>1. <<a, b>>[1] = a
  OBVIOUS
<1>2. \A z : z \in {l[1] : l \in L \union {<<a, b>>}} <=> z \in {l[1] : l \in L} \union {a}
  BY <1>1
<1> QED
  BY <1>2

LEMMA TakeStep ==
    ASSUME IInv, TypeOK', NEW t \in 0 .. taken, Take(t)
    PROVE  IInv'
<1> DEFINE x == work[t].module
           u == next[t]
           i == next[t] - First(t)
           y == List(t)[next[t] - First(t)]
<1>0. /\ TypeOK /\ t \in Id /\ t \in Nat /\ Running(t) /\ t \notin done
      /\ \A v \in done : v \in Id
      /\ x \in Module
  <2>1. TypeOK /\ Top(t)
    BY DEF IInv, Take
  <2>2. t \in Id /\ Running(t)
    BY <2>1, TopFacts
  <2> QED
    BY <2>1, <2>2, TopFacts, TakenIds DEF Running, TypeOK, Work
<1>1. /\ UNCHANGED <<world, given, settings, pool, stage, last, saved, paths, outpath, compiled>>
      /\ next' = [next EXCEPT ![t] = next[t] + 1]
      /\ good' = [good EXCEPT ![t] = good[t] /\ good[u]]
      /\ links' = [links EXCEPT ![t] =
             IF stage[t] = "deps" /\ good[u]
             THEN links[t] \union {<<work[u].module, outpath[u]>>} ELSE links[t]]
      /\ u \in done /\ Waits(t) /\ Top(t)
  BY DEF Take
<1>2. /\ count' = count /\ taken' = taken /\ done' = done /\ work' = work /\ stage' = stage
      /\ last' = last /\ saved' = saved /\ paths' = paths /\ outpath' = outpath
      /\ compiled' = compiled /\ known' = known /\ asked' = asked /\ settings' = settings
      /\ broken' = broken /\ failing' = failing
  BY <1>1 DEF world, given, pool
<1>3. /\ next'[t] = next[t] + 1 /\ \A r \in Id : r # t => next'[r] = next[r]
      /\ good'[t] = (good[t] /\ good[u]) /\ \A r \in Id : r # t => good'[r] = good[r]
  <2>1. next \in [Id -> Nat] /\ good \in [Id -> BOOLEAN]
    BY <1>0 DEF TypeOK
  <2>2. next'[t] = next[t] + 1 /\ \A r \in Id : r # t => next'[r] = next[r]
    BY <1>0, <1>1, <2>1
  <2>3. good'[t] = (good[t] /\ good[u]) /\ \A r \in Id : r # t => good'[r] = good[r]
    BY <1>0, <1>1, <2>1, Zenon
  <2> QED
    BY <2>2, <2>3
<1>4. /\ links'[t] = IF stage[t] = "deps" /\ good[u]
                     THEN links[t] \union {<<work[u].module, outpath[u]>>} ELSE links[t]
      /\ \A r \in Id : r # t => links'[r] = links[r]
  BY <1>0, <1>1 DEF TypeOK
<1>5. /\ i \in 1 .. Len(List(t)) /\ First(t) \in Nat /\ u = First(t) + i
      /\ u \in Nat /\ u > 0 /\ last[t] \in Nat /\ u <= last[t]
      /\ work[u] = [what |-> WhatAt(stage[t]), module |-> y]
      /\ y \in Range(List(t))
  BY <1>0, <1>1, AwaitedTask
<1>6. WaitingAt(t) /\ LearnedAt(t) /\ CollectedAt(t) /\ ResultAt(u)
  BY <1>0, <1>1 DEF IInv, Frames, Results
<1> HIDE DEF i, u, y
<1>7. Kept
  <2>1. \A v \in done : good'[v] = good[v] /\ outpath'[v] = outpath[v]
    BY <1>0, <1>2, <1>3
  <2>2. count <= count' /\ count' \in Nat
    BY <1>0, <1>2, TakenIds
  <2> QED
    BY <1>2, <2>1, <2>2 DEF Kept, given
<1>8. \A r : Running(r)' <=> Running(r)
  BY <1>2 DEF Running
<1>9. EveryTaskAwaited'
  <2>1. ASSUME NEW v \in 1 .. count, v \notin done
        PROVE  \E r \in 0 .. v - 1 : Running(r)' /\ v \in next'[r] .. last'[r]
    <3>1. PICK r \in 0 .. v - 1 : Running(r) /\ v \in next[r] .. last[r]
      BY <2>1 DEF IInv, EveryTaskAwaited
    <3>2. r \in Id
      BY <1>0, <3>1, TakenIds DEF Running
    <3>3. v # u
      BY <1>1, <2>1
    <3>4. r = t => v \in next[t] + 1 .. last[t]
      BY <1>5, <3>1, <3>3 DEF u
    <3> QED
      BY <1>2, <1>3, <1>8, <3>1, <3>2, <3>4
  <2> QED
    BY <1>2, <2>1 DEF EveryTaskAwaited
<1>10. RootLast'
  BY <1>2 DEF IInv, RootLast
<1>11. SettingsNow'
  BY <1>1, <1>2, <1>8, SettingsStay
<1>12. WaitingAt(t)'
  <2>1. List(t)' = List(t) /\ First(t)' = First(t)
    BY <1>2 DEF List, First
  <2>2. next'[t] \in First(t) + 1 .. last[t] + 1
    BY <1>3, <1>5 DEF u, i
  <2>3. ASSUME NEW v \in First(t) + 1 .. next'[t] - 1
        PROVE  v \in done /\ (good'[t] => good'[v])
    <3>1. v \in First(t) + 1 .. u - 1 \/ v = u
      BY <1>3, <1>5 DEF u
    <3>2. CASE v = u
      BY <1>0, <1>1, <1>3, <3>2
    <3>3. CASE v \in First(t) + 1 .. u - 1
      <4>1. v \in done /\ (good[t] => good[v])
        BY <1>6, <3>3 DEF WaitingAt, u
      <4> QED
        BY <1>0, <1>3, <4>1
    <3> QED
      BY <3>1, <3>2, <3>3
  <2> QED
    BY <1>2, <1>6, <2>1, <2>2, <2>3 DEF WaitingAt
<1>13. LearnedAt(t)'
  <2>1. ASSUME ~good'[t], work[t].what = "build" PROVE ~Service!Buildable(x)
    <3>1. CASE ~good[t]
      BY <1>6, <2>1, <3>1 DEF LearnedAt
    <3>2. CASE ~good[u]
      <4>1. y \in Service!Needs(x)
        <5>1. Range(List(t)) \subseteq Service!Needs(x)
          <6>1. CASE stage[t] \in {"get", "deps"}
            BY <1>0, <6>1, NeedsFacts DEF List, ListAt
          <6>2. CASE stage[t] \in {"script get", "script deps"}
            <7>1. x \in Script
              BY <1>6, <6>2 DEF LearnedAt
            <7>2. Service!Needs(x) = Range(Imports[x]) \union Range(ScriptImports[x])
              BY <1>0, <7>1, NeedsFacts
            <7> QED
              BY <6>2, <7>2 DEF List, ListAt
          <6>3. stage[t] \in Stages
            BY <1>0 DEF TypeOK
          <6> QED
            BY <6>1, <6>2, <6>3 DEF Stages
        <5> QED
          BY <1>5, <5>1
      <4>2. CASE WhatAt(stage[t]) = "get"
        <5>1. y \notin known
          BY <1>5, <1>6, <3>2, <4>2 DEF ResultAt
        <5> QED
          BY <1>0, <4>1, <5>1, NotBuildable
      <4>3. CASE WhatAt(stage[t]) = "build"
        <5>1. ~Service!Buildable(y)
          BY <1>5, <1>6, <3>2, <4>3 DEF ResultAt
        <5> QED
          BY <1>0, <4>1, <5>1, NotBuildable
      <4> QED
        BY <4>2, <4>3 DEF WhatAt
    <3> QED
      BY <1>3, <2>1, <3>1, <3>2
  <2>2. \A z : Built(z) => Built(z)'
    BY <1>0, <1>7, BuiltKept
  <2>3. Service!Buildable(x)' <=> Service!Buildable(x)
    BY <1>2, <1>7, ServiceKept
  <2> QED
    BY <1>2, <1>6, <2>1, <2>2, <2>3 DEF LearnedAt
<1>14. CollectedAt(t)'
  <2>1. List(t)' = List(t) /\ First(t)' = First(t)
    BY <1>2 DEF List, First
  <2>2. ASSUME stage[t] = "deps", good'[t]
        PROVE  {l[1] : l \in links'[t]} = {List(t)[j] : j \in 1 .. next'[t] - 1 - First(t)}
    <3>1. good[t] /\ good[u]
      BY <1>3, <2>2
    <3>2. {l[1] : l \in links[t]} = {List(t)[j] : j \in 1 .. i - 1}
      <4>1. next[t] - 1 - First(t) = i - 1
        BY <1>5 DEF i, u
      <4> QED
        BY <1>6, <2>2, <3>1, <4>1 DEF CollectedAt
    <3>3. links'[t] = links[t] \union {<<y, outpath[u]>>}
      BY <1>4, <1>5, <2>2, <3>1
    <3>4. {l[1] : l \in links'[t]} = {l[1] : l \in links[t]} \union {List(t)[i]}
      <4>1. {l[1] : l \in links[t] \union {<<y, outpath[u]>>}}
              = {l[1] : l \in links[t]} \union {y}
        BY OneMoreLink
      <4> QED
        BY <3>3, <4>1 DEF y, i
    <3>5. next'[t] - 1 - First(t) = i /\ i \in Nat /\ i > 0
      BY <1>3, <1>5 DEF i, u
    <3>6. \A j : j \in 1 .. i <=> j \in 1 .. i - 1 \/ j = i
      BY <3>5
    <3>7. {List(t)[j] : j \in 1 .. i} = {List(t)[j] : j \in 1 .. i - 1} \union {List(t)[i]}
      BY <3>6
    <3> QED
      BY <3>2, <3>4, <3>5, <3>7
  <2>3. stage[t] # "deps" => links'[t] = links[t]
    BY <1>4
  <2>4. \A z : z # "deps" => (z = stage[t] => links'[t] = links[t])
    BY <2>3
  <2> QED
    BY <1>2, <1>6, <2>1, <2>2, <2>3 DEF CollectedAt
<1>15. Frames'
  <2>1. ASSUME NEW r \in Id, Running(r)', r # t
        PROVE  WaitingAt(r)' /\ LearnedAt(r)' /\ CollectedAt(r)'
    <3>1. Running(r) /\ FrameStays(r)
      BY <1>2, <1>3, <1>4, <1>8, <2>1 DEF FrameStays
    <3> QED
      BY <1>0, <1>7, <2>1, <3>1, FrameKept DEF IInv, Frames
  <2> QED
    BY <1>12, <1>13, <1>14, <2>1 DEF Frames
<1>16. LinksFound'
  <2>1. \A l : Linkable(l) => Linkable(l)'
    BY <1>0, <1>7, BuiltKept
  <2>2. \A r \in Id : r > taken => r # t
    <3>1. taken \in Nat /\ t <= taken
      BY <1>0, TakenIds
    <3> QED
      BY <1>0, <3>1
  <2>3. ASSUME NEW l \in links'[t] PROVE Linkable(l)
    <3>1. CASE l \in links[t]
      BY <1>0, <3>1 DEF IInv, LinksFound
    <3>2. CASE l \notin links[t]
      <4>1. stage[t] = "deps" /\ good[u] /\ l = <<work[u].module, outpath[u]>>
        BY <1>4, <2>3, <3>2
      <4>2. work[u].what = "build"
        BY <1>5, <4>1 DEF WhatAt
      <4> QED
        BY <1>6, <4>1, <4>2 DEF ResultAt
    <3> QED
      BY <3>1, <3>2
  <2>4. \A r \in Id : \A l \in links'[r] : Linkable(l)
    BY <1>4, <2>3 DEF IInv, LinksFound
  <2>5. \A r \in Id : r > taken => links'[r] = {}
    BY <1>4, <2>2 DEF IInv, LinksFound
  <2> QED
    BY <1>2, <2>1, <2>4, <2>5 DEF LinksFound
<1>17. Results'
  BY <1>0, <1>2, <1>7, ResultKept DEF IInv, Results
<1>18. OutputsInPlace' /\ LinksBuilt' /\ LinksComplete'
  BY <1>2 DEF IInv, OutputsInPlace, LinksBuilt, LinksComplete
<1> QED
  BY <1>9, <1>10, <1>11, <1>15, <1>16, <1>17, <1>18 DEF IInv
-----------------------------------------------------------------------------
(* The invariant.                                                          *)

LEMMA InitIInv == Init => IInv
<1> SUFFICES ASSUME Init PROVE IInv
  OBVIOUS
<1>1. TypeOK
  BY InitTypeOK
<1>2. /\ count = 0 /\ taken = 0 /\ done = {0} /\ compiled = {}
      /\ settings = Default /\ asked = Default
      /\ \A t \in Id : links[t] = {}
  BY DEF Init
<1>3. \A r : ~Running(r)
  BY <1>2 DEF Running
<1>4. 0 \in Id /\ \A v \in 1 .. 0 : FALSE
  BY BoundAssumption
<1>5. EveryTaskAwaited /\ RootLast
  BY <1>2, <1>4 DEF EveryTaskAwaited, RootLast
<1>6. SettingsNow
  BY <1>2, <1>3 DEF SettingsNow, InScript
<1>7. Frames
  BY <1>3 DEF Frames
<1>8. LinksFound
  BY <1>2 DEF LinksFound
<1>9. Results
  <2>1. good[0] = FALSE /\ work[0].what = "get"
    BY <1>4 DEF Init
  <2> QED
    BY <1>2, <2>1 DEF Results, ResultAt
<1>10. OutputsInPlace /\ LinksBuilt /\ LinksComplete
  BY <1>2 DEF OutputsInPlace, LinksBuilt, LinksComplete
<1> QED
  BY <1>1, <1>5, <1>6, <1>7, <1>8, <1>9, <1>10 DEF IInv

LEMMA RequestStep == TypeOK' /\ Request => IInv'
<1> SUFFICES ASSUME TypeOK', Request PROVE IInv'
  OBVIOUS
<1>1. PICK w \in Work, s \in Setting :
        /\ asked' = s /\ settings' = s
        /\ Len(Imports[w.module]) <= MaxTask
        /\ count' = Len(Imports[w.module])
        /\ work' = [t \in Id |-> IF t \in 1 .. Len(Imports[w.module])
                      THEN [what |-> "get", module |-> Imports[w.module][t]] ELSE w]
        /\ last' = [t \in Id |-> IF t = 0 THEN Len(Imports[w.module]) ELSE 0]
  BY DEF Request
<1>2. /\ taken' = 0 /\ done' = {} /\ compiled' = {}
      /\ \A t \in Id : stage'[t] = "get" /\ next'[t] = 1 /\ good'[t] = TRUE /\ links'[t] = {}
  BY DEF Request
<1> DEFINE q == Imports[w.module]
<1>3. Len(q) \in Nat /\ Len(q) <= MaxTask /\ ListAt("get", w.module) = q
  <2>1. ListAt("get", w.module) = q /\ w.module \in Module
    BY DEF ListAt, Work
  <2> QED
    BY <1>1, <2>1, ListFacts
<1> HIDE DEF q
<1>4. /\ count' = Len(q) /\ work'[0] = w /\ last'[0] = Len(q)
      /\ \A i \in 1 .. Len(q) : work'[i] = [what |-> "get", module |-> q[i]]
  <2>1. 0 \in Id /\ 0 \notin 1 .. Len(q) /\ \A i \in 1 .. Len(q) : i \in Id
    BY <1>3, BoundAssumption
  <2> QED
    BY <1>1, <2>1 DEF q
<1>5. 0 \in Id /\ \A r : Running(r)' <=> r = 0
  BY <1>2, BoundAssumption DEF Running
<1>6. EveryTaskAwaited' /\ RootLast'
  <2>1. ASSUME NEW v \in 1 .. Len(q)
        PROVE  0 \in 0 .. v - 1 /\ v \in next'[0] .. last'[0]
    BY <1>2, <1>3, <1>4, <1>5
  <2> QED
    BY <1>2, <1>4, <1>5, <2>1 DEF EveryTaskAwaited, RootLast
<1>7. SettingsNow'
  <2>1. \A r \in Id : ~InScript(r)'
    BY <1>2 DEF InScript
  <2> QED
    BY <1>1, <1>2, <2>1 DEF SettingsNow
<1>8. Frames'
  <2>1. List(0)' = q
    BY <1>2, <1>3, <1>4, <1>5 DEF List
  <2>2. First(0)' = 0
    BY <1>3, <1>4, <2>1 DEF First
  <2>3. WaitingAt(0)'
    <3>1. \A i \in 1 .. Len(q) : work'[0 + i] = [what |-> "get", module |-> q[i]]
      BY <1>4
    <3>2. WhatAt("get") = "get"
      BY DEF WhatAt
    <3>3. \A v \in 0 + 1 .. 1 - 1 : FALSE
      OBVIOUS
    <3>4. 1 \in 0 + 1 .. Len(q) + 1 /\ Len(q) <= Len(q) /\ 0 >= 0
      BY <1>3
    <3> QED
      BY <1>2, <1>4, <1>5, <2>1, <2>2, <3>1, <3>2, <3>3, <3>4 DEF WaitingAt
  <2>4. LearnedAt(0)' /\ CollectedAt(0)'
    BY <1>2, <1>5 DEF LearnedAt, CollectedAt
  <2> QED
    BY <1>5, <2>3, <2>4 DEF Frames
<1>9. LinksFound' /\ Results' /\ OutputsInPlace' /\ LinksBuilt' /\ LinksComplete'
  BY <1>2 DEF LinksFound, Results, OutputsInPlace, LinksBuilt, LinksComplete
<1> QED
  BY <1>6, <1>7, <1>8, <1>9 DEF IInv

LEMMA NextIInv == IInv /\ [Next]_vars => IInv'
<1> SUFFICES ASSUME IInv, [Next]_vars PROVE IInv'
  OBVIOUS
<1>1. TypeOK'
  BY NextTypeOK DEF IInv
<1>2. CASE UNCHANGED vars
  <2>1. /\ world' = world /\ known' = known /\ asked' = asked /\ settings' = settings
        /\ count' = count /\ taken' = taken /\ done' = done /\ work' = work
        /\ stage' = stage /\ next' = next /\ last' = last /\ good' = good
        /\ saved' = saved /\ paths' = paths /\ outpath' = outpath /\ links' = links
        /\ compiled' = compiled
    BY <1>2 DEF vars, given, frames, pool, progress
  <2>2. broken' = broken /\ failing' = failing
    BY <2>1 DEF world
  <2>3. EveryTaskAwaited' /\ RootLast'
    BY <2>1 DEF IInv, EveryTaskAwaited, RootLast, Running
  <2>4. SettingsNow'
    BY <2>1 DEF IInv, SettingsNow, Running, InScript, Base
  <2>5. Kept
    BY <2>1, <2>2, TakenIds DEF IInv, Kept, given
  <2>6. Frames'
    <3>1. ASSUME NEW r \in Id, Running(r)' PROVE WaitingAt(r)' /\ LearnedAt(r)' /\ CollectedAt(r)'
      <4>1. Running(r) /\ FrameStays(r)
        BY <2>1, <3>1 DEF Running, FrameStays
      <4> QED
        BY <2>5, <4>1, FrameKept DEF IInv, Frames
    <3> QED
      BY <3>1 DEF Frames
  <2>7. LinksFound'
    BY <2>1, <2>5, BuiltKept DEF IInv, LinksFound
  <2>8. Results'
    BY <2>1, <2>5, ResultKept DEF IInv, Results
  <2>9. OutputsInPlace' /\ LinksBuilt' /\ LinksComplete'
    BY <2>1 DEF IInv, OutputsInPlace, LinksBuilt, LinksComplete
  <2> QED
    BY <1>1, <2>3, <2>4, <2>6, <2>7, <2>8, <2>9 DEF IInv
<1>3. CASE Request
  BY <1>1, <1>3, RequestStep
<1>4. ASSUME NEW t \in 0 .. taken, Take(t) PROVE IInv'
  BY <1>1, <1>4, TakeStep
<1>5. ASSUME NEW t \in 0 .. taken, BuildModule(t) PROVE IInv'
  <2>1. CASE BuildModuleDependencies(t) \/ BuildFile(t) \/ BuildScriptDependencies(t)
    BY <1>1, <2>1, EnteringActions, EnterStep
  <2>2. CASE \/ Downloaded(t) \/ Unobtainable(t) \/ DependencyFailed(t) \/ Compile(t)
             \/ ScriptUnobtainable(t) \/ ScriptFailed(t) \/ RunScript(t)
    BY <1>1, <2>2, ReturningActions, ReturnStep
  <2> QED
    BY <1>5, <2>1, <2>2 DEF BuildModule
<1>6. ASSUME NEW t \in 0 .. taken, NEW u \in taken + 1 .. count, Begin(t, u) \/ Get(t, u)
      PROVE  IInv'
  BY <1>1, <1>6, BeginStep, GetStep
<1> QED
  BY <1>2, <1>3, <1>4, <1>5, <1>6 DEF Next, Thread

LEMMA Invariance == Spec => []IInv
  BY InitIInv, NextIInv, PTL DEF Spec

(***************************************************************************)
(* However deep the modules and their scripts nest: every task that was    *)
(* added and has not returned is awaited by a frame that runs.  It is part *)
(* of the invariant, because only a frame that waits helps.                *)
(***************************************************************************)
THEOREM TasksAwaited == Spec => []EveryTaskAwaited
<1>1. IInv => EveryTaskAwaited
  BY DEF IInv
<1> QED
  BY <1>1, Invariance, PTL

(***************************************************************************)
(* However the scripts nest and wherever they fail, the compiler has at    *)
(* the end the settings it was given: when the request has returned no     *)
(* frame is left that could be in a script.                                *)
(***************************************************************************)
THEOREM SettingsRestored == Spec => []SettingsBack
<1>1. IInv => SettingsBack
  <2> SUFFICES ASSUME IInv, 0 \in done PROVE settings = asked
    BY DEF SettingsBack
  <2>1. 1 .. count \subseteq done
    BY DEF IInv, RootLast
  <2>2. taken \in Nat /\ count \in Nat /\ taken <= count
    BY TakenIds DEF IInv
  <2>3. \A r \in 0 .. taken : r \in done
    BY <2>1, <2>2
  <2>4. \A r \in Id : ~InScript(r)
    BY <2>3 DEF InScript, Running
  <2> QED
    BY <2>4 DEF IInv, SettingsNow
<1> QED
  BY <1>1, Invariance, PTL

(***************************************************************************)
(* Each output of CompileFiles lies where its settings say, although       *)
(* GetPaths was called before the dependencies and the script were built.  *)
(***************************************************************************)
THEOREM OutputsPlaced == Spec => []OutputsInPlace
<1>1. IInv => OutputsInPlace
  BY DEF IInv
<1> QED
  BY <1>1, Invariance, PTL

(***************************************************************************)
(* A module is linked only with what the same request compiled, at the     *)
(* path that GetPaths gives after the build of the dependency.             *)
(***************************************************************************)
THEOREM LinksWereBuilt == Spec => []LinksBuilt
<1>1. IInv => LinksBuilt
  BY DEF IInv
<1> QED
  BY <1>1, Invariance, PTL

(***************************************************************************)
(* A module is compiled with a link to each module it imports.             *)
(***************************************************************************)
THEOREM LinksAreComplete == Spec => []LinksComplete
<1>1. IInv => LinksComplete
  BY DEF IInv
<1> QED
  BY <1>1, Invariance, PTL

-----------------------------------------------------------------------------
(* The service.                                                            *)

(***************************************************************************)
(* A module without faults of its own is buildable if what it needs is.    *)
(***************************************************************************)
LEMMA BuildableByNeeds ==
    ASSUME NEW x \in Module, x \notin broken, x \notin failing,
           Service!Needs(x) \subseteq known,
           \A y \in Service!Needs(x) : Service!Buildable(y)
    PROVE  Service!Buildable(x)
<1> DEFINE S == {n \in Module : n = x \/ Service!Buildable(n)}
<1>1. ASSUME NEW n \in S PROVE Service!Needs(n) \subseteq S
  <2>1. ASSUME NEW y \in Service!Needs(n) PROVE Service!Buildable(y)
    BY <2>1, NotBuildable
  <2> QED
    BY <2>1, NeedsFacts
<1>2. Service!Reach(x) \subseteq S
  BY <1>1 DEF Service!Reach
<1>3. \A n \in S : n \notin broken /\ n \notin failing /\ Service!Needs(n) \subseteq known
  BY NotBuildable
<1> HIDE DEF S
<1> QED
  BY <1>2, <1>3 DEF Service!Buildable

LEMMA ServiceInit == Init => Service!Init
<1> SUFFICES ASSUME Init PROVE Service!Init
  OBVIOUS
<1>1. work[0] \in Work
  BY InitTypeOK, BoundAssumption DEF TypeOK
<1>2. done = {0} /\ good[0] = FALSE /\ known \in SUBSET Module
      /\ broken \in SUBSET Module /\ failing \in SUBSET Script
  BY BoundAssumption DEF Init
<1> QED
  BY <1>1, <1>2 DEF Service!Init, Work

LEMMA ServiceStep == IInv /\ IInv' /\ [Next]_vars => [Service!Next]_(Service!vars)
<1> SUFFICES ASSUME IInv, IInv', [Next]_vars PROVE [Service!Next]_(Service!vars)
  OBVIOUS
<1>0. TypeOK /\ TypeOK' /\ 0 \in Id /\ taken \in Nat
  BY BoundAssumption, TakenIds DEF IInv
<1>1. ASSUME broken' = broken, failing' = failing, known' = known, work'[0] = work[0],
             0 \notin done, 0 \notin done'
      PROVE  UNCHANGED Service!vars
  BY <1>1 DEF Service!vars
<1>2. CASE UNCHANGED vars
  BY <1>2 DEF vars, world, given, frames, pool, Service!vars
<1>3. CASE Request
  <2>1. 0 \in done /\ 0 \notin done' /\ broken' = broken /\ failing' = failing
    BY <1>3 DEF Request, world
  <2>2. work'[0] \in Work /\ known' \in SUBSET Module
    BY <1>0 DEF TypeOK
  <2> QED
    BY <2>1, <2>2 DEF Service!Next, Service!Request, Work
<1>4. ASSUME NEW t \in 0 .. taken, Take(t) PROVE UNCHANGED Service!vars
  <2>1. UNCHANGED <<world, given, pool>>
    BY <1>4 DEF Take
  <2>2. 0 \notin done
    BY <1>4, RequestRuns DEF Take, Top
  <2> QED
    BY <1>1, <2>1, <2>2 DEF world, given, pool
<1>5. ASSUME NEW t \in 0 .. taken, BuildModule(t) PROVE [Service!Next]_(Service!vars)
  <2>1. CASE BuildModuleDependencies(t) \/ BuildFile(t) \/ BuildScriptDependencies(t)
    <3>1. PICK s \in Stages : Entering(t, s)
      BY <2>1, EnteringActions
    <3>2. UNCHANGED <<world, given, done>> /\ Running(t)
      BY <3>1 DEF Entering, Top
    <3>3. 0 \notin done
      BY <3>2, RequestRuns
    <3>4. work'[0] = work[0]
      <4>1. t \in Id
        BY <1>0, TakenIds
      <4>2. work[t].module \in Module /\ 0 \in 0 .. count
        <5>1. count \in Nat
          BY <1>0, TakenIds
        <5> QED
          BY <1>0, <4>1, <5>1 DEF TypeOK, Work
      <4>3. AddTasks(t, WhatAt(s), ListAt(s, work[t].module))
        BY <3>1 DEF Entering
      <4>4. \A v \in 0 .. count : work'[v] = work[v]
        BY <1>0, <4>1, <4>2, <4>3, AddTasksFacts
      <4> QED
        BY <4>2, <4>4
    <3> QED
      BY <1>1, <3>2, <3>3, <3>4 DEF world, given
  <2>2. CASE \/ Downloaded(t) \/ Unobtainable(t) \/ DependencyFailed(t) \/ Compile(t)
             \/ ScriptUnobtainable(t) \/ ScriptFailed(t) \/ RunScript(t)
    <3>1. PICK ok \in BOOLEAN : Returning(t, ok)
      BY <2>2, ReturningActions
    <3>2. /\ UNCHANGED <<world, given>> /\ Running(t) /\ Return(t, ok)
          /\ done' = done \union {t} /\ good' = [good EXCEPT ![t] = ok] /\ work' = work
      BY <3>1 DEF Returning, Return, Top
    <3>3. 0 \notin done
      BY <3>2, RequestRuns
    <3>4. CASE t # 0
      BY <1>1, <3>2, <3>3, <3>4 DEF world, given
    <3>5. CASE t = 0
      <4>1. 0 \in done' /\ good'[0] = ok
        BY <1>0, <3>2, <3>5 DEF TypeOK
      <4>2. ASSUME work[0].what = "build" PROVE ok = Service!Buildable(work[0].module)
        <5>1. CASE ok
          <6>1. /\ work[0].module \notin broken /\ work[0].module \notin failing
                /\ Service!Needs(work[0].module) \subseteq known
                /\ \A y \in Service!Needs(work[0].module) : Built(y)
            BY <3>1, <3>5, <4>2, <5>1 DEF Returning
          <6>2. \A y : Built(y) => Service!Buildable(y)
            BY <1>0, BuiltIsBuildable DEF IInv, Built
          <6>3. work[0].module \in Module
            BY <1>0 DEF TypeOK, Work
          <6>4. Service!Buildable(work[0].module)
            BY <6>1, <6>2, <6>3, BuildableByNeeds
          <6> QED
            BY <5>1, <6>4 DEF Service!Buildable
        <5>2. CASE ~ok
          <6>1. ~Service!Buildable(work[0].module)
            BY <3>1, <3>5, <4>2, <5>2 DEF Returning
          <6> QED
            BY <5>2, <6>1 DEF Service!Buildable
        <5> QED
          BY <5>1, <5>2
      <4>3. Service!Return
        BY <3>2, <3>3, <4>1, <4>2 DEF Service!Return, world, given
      <4> QED
        BY <4>3 DEF Service!Next
    <3> QED
      BY <3>4, <3>5
  <2> QED
    BY <1>5, <2>1, <2>2 DEF BuildModule
<1>6. ASSUME NEW t \in 0 .. taken, NEW u \in taken + 1 .. count, Begin(t, u) \/ Get(t, u)
      PROVE  UNCHANGED Service!vars
  <2>1. Running(t) /\ 0 \notin done
    <3>1. Running(t)
      BY <1>6 DEF Begin, Get, Help, Top
    <3> QED
      BY <3>1, RequestRuns
  <2>2. u # 0 /\ u \in Id /\ work[u].module \in Module /\ 0 \in 0 .. count
    <3>1. u # 0 /\ u \in Id /\ 0 \in 0 .. count
      <4>1. count \in 0 .. MaxTask
        BY <1>0 DEF TypeOK
      <4> QED
        BY <1>0, <1>6, <4>1, BoundAssumption
    <3> QED
      BY <1>0, <3>1 DEF TypeOK, Work
  <2>3. CASE Begin(t, u)
    <3>1. UNCHANGED <<world, given, done>> /\ AddTasks(u, WhatAt("get"), ListAt("get", work[u].module))
      BY <2>3 DEF Begin, WhatAt, ListAt
    <3>2. "get" \in Stages
      BY DEF Stages
    <3>3. \A v \in 0 .. count : work'[v] = work[v]
      BY <1>0, <2>2, <3>1, <3>2, AddTasksFacts
    <3> QED
      BY <1>1, <2>1, <2>2, <3>1, <3>3 DEF world, given
  <2>4. CASE Get(t, u)
    <3>1. UNCHANGED <<broken, failing, given, work>> /\ done' = done \union {u}
      BY <2>4 DEF Get
    <3> QED
      BY <1>1, <2>1, <2>2, <3>1 DEF given
  <2> QED
    BY <1>6, <2>3, <2>4
<1> QED
  BY <1>2, <1>3, <1>4, <1>5, <1>6 DEF Next, Thread

(***************************************************************************)
(* BuildModule implements ModuleService: whatever the tasks, the shared    *)
(* compiler and the scripts do, a build succeeds exactly if every module   *)
(* it needs is known and without faults.                                   *)
(***************************************************************************)
THEOREM ServiceImplemented == Spec => ImplementsModuleService
<1>1. Init => Service!Init
  BY ServiceInit
<1>2. IInv /\ IInv' /\ [Next]_vars => [Service!Next]_(Service!vars)
  BY ServiceStep
<1> QED
  BY <1>1, <1>2, Invariance, PTL DEF Spec, ImplementsModuleService, Service!Spec
=============================================================================
