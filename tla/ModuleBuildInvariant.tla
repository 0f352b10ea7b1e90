------------------------ MODULE ModuleBuildInvariant ------------------------
(***************************************************************************)
(* The inductive invariant of ModuleBuild.  The properties are not         *)
(* inductive: they need to know what every frame of the stack waits for    *)
(* and has learned, and which settings it will find when the frames above  *)
(* it have returned.                                                       *)
(***************************************************************************)
EXTENDS ModuleBuild

\* What a frame at this stage waits for: downloads or builds, and of what.
WhatAt(s)     == IF s \in {"get", "script get"} THEN "get" ELSE "build"
ListAt(s, x)  == IF s \in {"get", "deps"} THEN Imports[x] ELSE ScriptImports[x]
List(t)       == ListAt(stage[t], work[t].module)
First(t)      == last[t] - Len(List(t))

InScript(t) == Running(t) /\ stage[t] \in {"script get", "script deps"}

\* The settings that the frame finds when it is on top and in no script.
Base(t) == IF \E r \in 0 .. t - 1 : InScript(r) THEN Default ELSE asked

Built(x)    == \E v \in done : good[v] /\ work[v] = [what |-> "build", module |-> x]
Linkable(l) == \E d \in compiled : d.module = l[1] /\ d.to = l[2]

-----------------------------------------------------------------------------
(* One frame *)

\* The tasks a frame waits for are one for each module of its list, in order;
\* those before the next one have returned, and with success if it is good.
WaitingAt(t) ==
    /\ t > 0 \/ stage[t] # "get" => work[t].what = "build"
    /\ First(t) >= 0
    /\ last[t] <= count
    /\ next[t] \in First(t) + 1 .. last[t] + 1
    /\ \A i \in 1 .. Len(List(t)) :
         work[First(t) + i] = [what |-> WhatAt(stage[t]), module |-> List(t)[i]]
    /\ \A u \in First(t) + 1 .. next[t] - 1 : u \in done /\ (good[t] => good[u])

\* What it has learned from its earlier waits.
LearnedAt(t) ==
    /\ stage[t] # "get" => Range(Imports[work[t].module]) \subseteq known
    /\ stage[t] \in {"script get", "script deps"} =>
         /\ work[t].module \in Script
         /\ \A x \in Range(Imports[work[t].module]) : Built(x)
    /\ stage[t] = "script deps" => Range(ScriptImports[work[t].module]) \subseteq known
    /\ ~good[t] /\ work[t].what = "build" => ~Service!Buildable(work[t].module)

\* What it has collected to link.
CollectedAt(t) ==
    /\ stage[t] = "get" => links[t] = {}
    /\ stage[t] = "deps" /\ good[t] =>
         {l[1] : l \in links[t]} = {List(t)[i] : i \in 1 .. next[t] - 1 - First(t)}
    /\ stage[t] \in {"script get", "script deps"} =>
         {l[1] : l \in links[t]} = Range(Imports[work[t].module])

\* What the result of a frame says.
ResultAt(u) ==
    LET x == work[u].module IN
    /\ good[u] /\ work[u].what = "build" =>
         /\ x \notin broken
         /\ x \notin failing
         /\ Service!Needs(x) \subseteq known
         /\ \A y \in Service!Needs(x) : Built(y)
         /\ Linkable(<<x, outpath[u]>>)
    /\ ~good[u] /\ work[u].what = "build" => ~Service!Buildable(x)
    /\ ~good[u] /\ work[u].what = "get" /\ u > 0 => x \notin known

-----------------------------------------------------------------------------
(* The whole *)

\* The request returns last.
RootLast == 0 \in done => 1 .. count \subseteq done

\* The settings are those of the innermost script, or of the request.
SettingsNow ==
    /\ settings = IF \E r \in Id : InScript(r) THEN Default ELSE asked
    /\ \A t \in Id : InScript(t) => saved[t] = Base(t)
    /\ \A t \in Id : Running(t) /\ stage[t] # "get" => paths[t] = Base(t)

Frames == \A t \in Id : Running(t) => WaitingAt(t) /\ LearnedAt(t) /\ CollectedAt(t)

LinksFound ==
    /\ \A t \in Id : t > taken => links[t] = {}
    /\ \A t \in Id : \A l \in links[t] : Linkable(l)

Results == \A u \in done : ResultAt(u)

IInv ==
    /\ TypeOK
    /\ EveryTaskAwaited
    /\ RootLast
    /\ SettingsNow
    /\ Frames
    /\ LinksFound
    /\ Results
    /\ OutputsInPlace
    /\ LinksBuilt
    /\ LinksComplete
=============================================================================
