------------------------ MODULE InterpreterInvariant ------------------------
(***************************************************************************)
(* The inductive invariant behind Aligned and the refinement of            *)
(* CallService: what may be above what in the chain of calls and panics.   *)
(***************************************************************************)
EXTENDS Interpreter

Links == Place \cup Sections
Words == [ret : Links \cup {Outside}, above : Nat]

\* a is where its function panicked, or at the call of one that did.
Panicking(a) ==
  a.func \in MayPanic /\ (Is(a, "throw") \/ (Is(a, "call") /\ StepAt(a).func \in MayPanic))

Destructor(a, f) == a.next <= Len(Code[a.func]) /\ Code[a.func][a.next].op = "drop" /\ Code[a.func][a.next].func = f

\* b may be the next above a: the function a calls, the unwinding of a's own, or
\* the destructor an unwinding is at.
Leads(a, b) ==
  \/ a.at = "code" /\ b.at = "code" /\ Calls(a) /\ StepAt(a).func = b.func
  \/ a.at = "code" /\ b.at = "unwinding" /\ Panicking(a) /\ b.func = a.func
  \/ a.at = "unwinding" /\ b.at = "code" /\ Destructor(a, b.func)

Linked(c) ==
  /\ c # <<>> => c[1].at = "code"
  /\ \A n \in 1..Len(c) : n + 1 <= Len(c) => Leads(c[n], c[n + 1])

\* What is above the return address under c[n].
Height(c, n) ==
  IF c[n].at = "unwinding" THEN 0
  ELSE FrameSize[c[n].func] + (IF n < Len(c) THEN Pushed(c[n]) ELSE 0)

\* Only the first address is the host's; a Call stays within the room it has.
StackOK ==
  /\ pc = Host <=> stack = <<>>
  /\ \A n \in 1..Len(stack) : stack[n].ret = Outside <=> n = 1
  /\ left + Len(stack) <= MaxDepth
  /\ InUnwinding => ref \in Place

CallInv == TypeOK /\ StackOK /\ Linked(Chain) /\ Aligned
=============================================================================
