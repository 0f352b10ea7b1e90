---------------------------- MODULE BuildService ----------------------------
(***************************************************************************)
(* What a caller of a build may rely on, without files on disk, recorded   *)
(* dependencies or an output to reuse: the result is the compilation of    *)
(* the files as they were at some moment of that build, each file at a     *)
(* moment of its own.                                                      *)
(***************************************************************************)
CONSTANTS
    Source, External,   \* the files
    Content, Absent,    \* what a file holds, or that there is no such file
    Bad,                \* contents the front end rejects
    Uses                \* Uses[f][v]: the files f takes symbols from when it holds v

File == Source \union External
Value == Content \union {Absent}

VARIABLES
    files,      \* what each file holds
    during,     \* what each has held since the build began
    building,
    result      \* of the last build, "none" while one runs

vars == <<files, during, building, result>>

Rejects(v) ==
    \E f \in Source : /\ v[f] # Absent
                      /\ v[f] \in Bad \/ \E g \in Uses[f][v[f]] : v[g] = Absent

Compile(v) == IF Rejects(v) THEN [status |-> "errors"]
                            ELSE [status |-> "value", lib |-> v]

Init ==
    /\ files \in [File -> Value]
    /\ during = [f \in File |-> {}]
    /\ building = FALSE
    /\ result = [status |-> "none"]

Change ==
    /\ \E f \in File, v \in Value :
         /\ files' = [files EXCEPT ![f] = v]
         /\ during' = IF building THEN [during EXCEPT ![f] = @ \union {v}] ELSE during
    /\ UNCHANGED <<building, result>>

Begin ==
    /\ ~building
    /\ \A f \in External : files[f] # Absent
    /\ building' = TRUE
    /\ during' = [f \in File |-> {files[f]}]
    /\ result' = [status |-> "none"]
    /\ UNCHANGED files

\* A library is missing.
Refuse ==
    /\ ~building
    /\ \E f \in External : files[f] = Absent
    /\ result' = [status |-> "exception"]
    /\ UNCHANGED <<files, during, building>>

Return ==
    /\ building
    /\ \E v \in [File -> Value] :
         /\ \A f \in File : v[f] \in during[f]
         /\ result' = Compile(v)
    /\ building' = FALSE
    /\ during' = [f \in File |-> {}]
    /\ UNCHANGED files

Crash ==
    /\ building
    /\ building' = FALSE
    /\ during' = [f \in File |-> {}]
    /\ UNCHANGED <<files, result>>

Next == Change \/ Begin \/ Refuse \/ Return \/ Crash

Spec == Init /\ [][Next]_vars
=============================================================================
