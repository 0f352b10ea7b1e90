---------------------------- MODULE MCInterpreter ----------------------------
(***************************************************************************)
(* `main' is a loop with three variables: the first ends before `work' is  *)
(* called, the destructor of the last saves a register; after the loop it  *)
(* panics or not.  `work' calls itself, and panics or not; the destructor  *)
(* `drop' has a variable of its own and calls `help' with a parameter on   *)
(* the stack.                                                              *)
(***************************************************************************)
EXTENDS InterpreterInvariant

Plain == [op |-> "plain"]
ThrowStep == [op |-> "throw"]
BranchTo(i) == [op |-> "branch", to |-> i]
CallOf(f, n) == [op |-> "call", func |-> f, pushed |-> n]
DropOf(f, n, v, s) == [op |-> "drop", func |-> f, pushed |-> n, slot |-> v, from |-> s]

MCFunc == {"main", "work", "drop", "close", "help"}
MCMayPanic == {"main", "work"}
MCFrameSize == [f \in MCFunc |-> CASE f = "main" -> 3 [] f = "work" -> 2 [] f \in {"help", "drop"} -> 1 [] OTHER -> 0]

ProgramPushing(n) == [f \in MCFunc |->
  CASE f = "main" -> <<Plain, CallOf("help", 2), DropOf("close", 0, 2, 2), CallOf("work", n), DropOf("drop", 0, 1, 1), DropOf("close", 1, 3, 3),
                       BranchTo(1), BranchTo(10), ThrowStep>>
    [] f = "work" -> <<Plain, BranchTo(6), CallOf("work", 0), BranchTo(6), ThrowStep, DropOf("drop", 0, 2, 1)>>
    [] f = "drop" -> <<Plain, CallOf("help", 1), DropOf("close", 0, 1, 1)>>
    [] f = "close" -> <<>>
    [] f = "help" -> <<BranchTo(2), Plain>>]

MCCode == ProgramPushing(0)

\* The parameter of `work' is larger than a register.
PushingCode == ProgramPushing(1)

\* `work' panics and keeps nothing on the stack.
FramelessCode == [MCCode EXCEPT !["work"] = <<BranchTo(3), ThrowStep>>]
FramelessSize == [MCFrameSize EXCEPT !["work"] = 0]

\* The theorems are about tame programs: the first is one.
ASSUME TameAssumption == Tame <=> Code = MCCode
=============================================================================
