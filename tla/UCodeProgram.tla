---------------------------- MODULE UCodeProgram ----------------------------
(***************************************************************************)
(* A program as the back end leaves it to the interpreter                  *)
(* (UCodeLang/Compilation/Back/UCodeBackEnd): for each function the steps  *)
(* that matter to calls and panics, the size of its frame and where in it  *)
(* its variables are.  An expression, a store or a jump is "plain" or a    *)
(* "branch"; the size of a word is one.                                    *)
(***************************************************************************)
EXTENDS Integers, Sequences

CONSTANTS
  Func,         \* the functions
  Listed,       \* those in _Input->Funcs: static and thread initialisers are not
  MayPanic,     \* those that panic, or call one that may
  Code,         \* [Func -> Seq(Step)]
  FrameSize     \* [Func -> Nat]: _Stack.Size

\* A call pushes `pushed' words before the return address: the parameters the
\* registers have no room for, and the registers that are still needed.  A "drop"
\* is a CleanupFuncCall: it destroys the variable in `slot', which is there since
\* step `from'.
Step ==
  [op : {"plain", "throw"}] \cup [op : {"branch"}, to : Nat \ {0}]
  \cup [op : {"call"}, func : Func, pushed : Nat]
  \cup [op : {"drop"}, func : Func, pushed : Nat, slot : Nat, from : Nat]

ASSUME ProgramAssumption ==
  /\ Listed \subseteq Func /\ MayPanic \subseteq Func
  /\ Code \in [Func -> Seq(Step)] /\ FrameSize \in [Func -> Nat]
  /\ \A f \in Func : \A i \in 1..Len(Code[f]) :
       Code[f][i].op = "branch" => Code[f][i].to <= Len(Code[f]) + 1

At(f, i) == [at |-> "code", func |-> f, pos |-> i]
Section(f, k) == [at |-> "unwinding", func |-> f, next |-> k]  \* of StackUnwinding, for f

\* The step at p; a function returns after its last one.
StepAt(p) == Code[p.func][p.pos]
Is(p, op) == p.pos <= Len(Code[p.func]) /\ StepAt(p).op = op
Calls(p) == Is(p, "call") \/ Is(p, "drop")
Pushed(p) == IF Calls(p) THEN StepAt(p).pushed ELSE 0

\* No function that may panic is called with words on the stack, no destructor
\* panics, StackUnwinding knows every function that may, and those that throw
\* themselves have a frame.
Tame ==
  /\ MayPanic \subseteq Listed
  /\ \A f \in Func : \A i \in 1..Len(Code[f]) :
       LET s == Code[f][i]
       IN  /\ s.op = "throw" => f \in MayPanic /\ FrameSize[f] > 0
           /\ s.op = "call" /\ s.func \in MayPanic => f \in MayPanic /\ s.pushed = 0
           /\ s.op = "drop" => s.func \notin MayPanic
=============================================================================
