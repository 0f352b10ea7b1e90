---------------------------- MODULE ModuleService ----------------------------
(***************************************************************************)
(* What a caller of BuildModule may rely on: the build succeeds exactly if *)
(* every module it needs is in the index it was given, has no errors, and  *)
(* has a build script, if any, that works.  No tasks, no order, no shared  *)
(* compiler.                                                               *)
(***************************************************************************)
EXTENDS Sequences, Functions

CONSTANTS Module, Imports, Script, ScriptImports

VARIABLES
    known,      \* the modules in the index
    broken,     \* modules with errors in their sources
    failing,    \* modules whose build script does not work
    request,    \* [what, module]
    building,
    result      \* whether the last request succeeded, FALSE while one runs

vars == <<known, broken, failing, request, building, result>>

\* The modules that the build of m builds itself.
Needs(m) == Range(Imports[m]) \union (IF m \in Script THEN Range(ScriptImports[m]) ELSE {})

Reach(m) ==
    {n \in Module : \A S \in SUBSET Module :
        m \in S /\ (\A x \in S : Needs(x) \subseteq S) => n \in S}

Buildable(m) == \A n \in Reach(m) : n \notin broken /\ n \notin failing /\ Needs(n) \subseteq known

Init ==
    /\ known \in SUBSET Module
    /\ broken \in SUBSET Module
    /\ failing \in SUBSET Script
    /\ request \in [what: {"build", "get"}, module: Module]
    /\ building = FALSE
    /\ result = FALSE

Request ==
    /\ ~building
    /\ building' = TRUE
    /\ result' = FALSE
    /\ request' \in [what: {"build", "get"}, module: Module]
    /\ known' \in SUBSET Module
    /\ UNCHANGED <<broken, failing>>

Return ==
    /\ building
    /\ building' = FALSE
    /\ result' \in BOOLEAN
    /\ request.what = "build" => result' = Buildable(request.module)
    /\ UNCHANGED <<known, broken, failing, request>>

Next == Request \/ Return

Spec == Init /\ [][Next]_vars
=============================================================================
