------------------------------ MODULE TaskPool ------------------------------
(***************************************************************************)
(* What a user of the task pool may rely on, without threads, lists,       *)
(* stacks or reference counts: a task is created with dependencies among   *)
(* the tasks that exist, runs once, after all of them, and its result can  *)
(* be taken once, after it has run.                                        *)
(***************************************************************************)
CONSTANT Task

VARIABLES
    phase,      \* "none", "waiting", "running", "done" or "taken"
    needs       \* the tasks it depends on

vars == <<phase, needs>>

Init ==
    /\ phase = [t \in Task |-> "none"]
    /\ needs = [t \in Task |-> {}]

Create(t) ==
    /\ phase[t] = "none"
    /\ phase' = [phase EXCEPT ![t] = "waiting"]
    /\ \E D \in SUBSET {u \in Task : phase[u] # "none"} :
         needs' = [needs EXCEPT ![t] = D]

Begin(t) ==
    /\ phase[t] = "waiting"
    /\ \A d \in needs[t] : phase[d] \in {"done", "taken"}
    /\ phase' = [phase EXCEPT ![t] = "running"]
    /\ UNCHANGED needs

End(t) ==
    /\ phase[t] = "running"
    /\ phase' = [phase EXCEPT ![t] = "done"]
    /\ UNCHANGED needs

Take(t) ==
    /\ phase[t] = "done"
    /\ phase' = [phase EXCEPT ![t] = "taken"]
    /\ UNCHANGED needs

Next == \E t \in Task : Create(t) \/ Begin(t) \/ End(t) \/ Take(t)

Spec == Init /\ [][Next]_vars
=============================================================================
