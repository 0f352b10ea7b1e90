----------------------------- MODULE Interpreter -----------------------------
(***************************************************************************)
(* Interpreter::Call on a program of UCodeProgram: the stack, the calls    *)
(* and returns of compiled code, and StackUnwinding, the code the back end *)
(* (UCodeBackEnd.cpp, LinkFuncs) adds for panics.                          *)
(*                                                                         *)
(* The stack holds return addresses and, above each, words of which only   *)
(* the number matters: frames, parameters, saved registers.  A Pop or a    *)
(* Return takes the top word whatever it is; if it is one of those, what   *)
(* it holds decides where control goes, and pc is Wild.                    *)
(***************************************************************************)
EXTENDS UCodeProgram, SequencesExt

CONSTANT MaxDepth       \* the return addresses the stack has room for

ASSUME DepthAssumption == MaxDepth \in Nat

VARIABLES
  stack,        \* of the call under way
  left,         \* return addresses of earlier calls that an exception left on the stack
  pc,           \* ProgramCounter
  ref,          \* register E: lastinsref
  this,         \* the pointer given to the last destructor
  panic,        \* m: the places in StatckFrames, or NoPanic
  RetValue,     \* RetValue._Succeed
  status        \* what the last Call returned

vars == <<stack, left, pc, ref, this, panic, RetValue, status>>

Host == [at |-> "host"]         \* no Call is under way
Outside == [at |-> "outside"]   \* the ProgramCounter a Call found and pushed
Wild == [at |-> "wild"]
Data == [at |-> "data"]         \* any word but a return address
NoPanic == <<[at |-> "none"]>>
Nothing == [frame |-> 0, slot |-> 0]

Init ==
  /\ stack = <<>> /\ left = 0 /\ pc = Host /\ ref = Host /\ this = Nothing
  /\ panic = NoPanic /\ RetValue = "Null" /\ status = "none"

-----------------------------------------------------------------------------
(* The stack *)

Above(s) == Last(s).above
WithAbove(s, n) == [s EXCEPT ![Len(s)].above = n]

\* Callv4 and the prologue of f.
Entered(s, address, f) == Append(s, [ret |-> address, above |-> FrameSize[f]])

\* The word a pop gets, and what is left.
Popped(s) ==
  IF Above(s) = 0 THEN [word |-> Last(s).ret, rest |-> Front(s)]
  ELSE [word |-> Data, rest |-> WithAbove(s, Above(s) - 1)]

\* Mutant of FrameDropped: the frame is taken for one word smaller.
FrameDroppedShort(s, f) == WithAbove(s, Above(s) - FrameSize[f] + (IF FrameSize[f] = 0 THEN 0 ELSE 1))

\* DropStack, or the DecrementStackPointer of StackUnwinding.
FrameDropped(s, f) == WithAbove(s, Above(s) - FrameSize[f])

Room(n) == left + Len(stack) + n <= MaxDepth

-----------------------------------------------------------------------------
(* The host *)

\* Interpreter::Call up to its loop.
Call ==
  /\ pc = Host
  /\ \E f \in Func :
       IF Room(1)
       THEN stack' = Entered(<<>>, Outside, f) /\ pc' = At(f, 1) /\ UNCHANGED status
       ELSE status' = "exception" /\ UNCHANGED <<stack, pc>>
  /\ panic' = NoPanic
  /\ UNCHANGED <<left, ref, this, RetValue>>

\* The loop ends when the word Call pushed is gone.
Ends(result) ==
  /\ stack' = <<>> /\ pc' = Host /\ status' = result
  /\ UNCHANGED ref

-----------------------------------------------------------------------------
(* Compiled code *)

InCode == pc.at = "code"

Go ==
  /\ InCode /\ (Is(pc, "plain") \/ Is(pc, "branch"))
  /\ \/ pc' = At(pc.func, pc.pos + 1)
     \/ Is(pc, "branch") /\ pc' = At(pc.func, StepAt(pc).to)
  /\ UNCHANGED <<stack, left, ref, this, panic, RetValue, status>>

\* Mutant of CallFunc: words are pushed that the return does not take.
CallPushingMore ==
  /\ InCode /\ Is(pc, "call") /\ Room(1)
  /\ stack' = Entered(WithAbove(stack, Above(stack) + StepAt(pc).pushed + 1), pc, StepAt(pc).func)
  /\ pc' = At(StepAt(pc).func, 1)
  /\ UNCHANGED <<left, ref, this, panic, RetValue, status>>

CallFunc ==
  /\ InCode /\ Is(pc, "call") /\ Room(1)
  /\ stack' = Entered(WithAbove(stack, Above(stack) + StepAt(pc).pushed), pc, StepAt(pc).func)
  /\ pc' = At(StepAt(pc).func, 1)
  /\ UNCHANGED <<left, ref, this, panic, RetValue, status>>

CleanupFuncCall ==
  /\ InCode /\ Is(pc, "drop") /\ Room(1)
  /\ this' = [frame |-> Len(stack), slot |-> StepAt(pc).slot]
  /\ stack' = Entered(WithAbove(stack, Above(stack) + StepAt(pc).pushed), pc, StepAt(pc).func)
  /\ pc' = At(StepAt(pc).func, 1)
  /\ UNCHANGED <<left, ref, panic, RetValue, status>>

\* The instruction Return, where word is on top of s: the caller takes what it
\* pushed off the stack; StackUnwinding, back from a destructor, pops E.
ReturnTo(word, s) ==
  /\ RetValue' = "Success"
  /\ CASE word = Outside -> Ends("Success")
       [] word.at = "code" ->
            /\ pc' = At(word.func, word.pos + 1) /\ stack' = WithAbove(s, Above(s) - Pushed(word))
            /\ UNCHANGED <<ref, status>>
       [] word.at = "unwinding" ->
            /\ pc' = Section(word.func, word.next + 1)
            /\ ref' = Popped(s).word /\ stack' = Popped(s).rest
            /\ UNCHANGED status
       [] OTHER -> pc' = Wild /\ stack' = s /\ UNCHANGED <<ref, status>>

Return ==
  /\ InCode /\ pc.pos > Len(Code[pc.func])
  /\ LET top == Popped(FrameDropped(stack, pc.func)) IN ReturnTo(top.word, top.rest)
  /\ UNCHANGED <<left, this, panic>>

-----------------------------------------------------------------------------
(* Panics *)

\* StackUnwinding with word, which was on top of s, in E.  It looks for the
\* function that holds the address, and returns if there is none.
Unwind(word, s, found) ==
  CASE word = Outside -> Ends(RetValue) /\ panic' = found /\ UNCHANGED RetValue
    [] word.at = "code" /\ word.func \in Listed ->
         /\ ref' = word /\ pc' = Section(word.func, 1) /\ stack' = s
         /\ panic' = Append(found, word)
         /\ UNCHANGED <<RetValue, status>>
    [] word = Data -> pc' = Wild /\ stack' = s /\ panic' = found /\ UNCHANGED <<ref, RetValue, status>>
    [] OTHER -> ReturnTo(Popped(s).word, Popped(s).rest) /\ panic' = found

\* The call of ThrowExceptionStr, whose return address StackUnwinding pops.  Its
\* address is written to where the call is if a prologue was put before it; with
\* no frame there is none, and the instructions behind the call get the address.
ThrowException ==
  /\ InCode /\ Is(pc, "throw") /\ Room(1)
  /\ IF FrameSize[pc.func] > 0 THEN Unwind(pc, stack, <<>>)
     ELSE pc' = Wild /\ UNCHANGED <<stack, ref, panic, RetValue, status>>
  /\ UNCHANGED <<left, this>>

InUnwinding == pc.at = "unwinding"

\* Mutant of CleansUp: a variable is destroyed after its end as well.
CleansUpAfter(p, k) ==
  /\ Code[p.func][k].op = "drop"
  /\ Code[p.func][k].from < p.pos

\* CleanUpVar: the range of instructions of the variable that step k destroys
\* holds p.  What is pushed for the destructor's own call keeps the range open
\* until it is popped.
CleansUp(p, k) ==
  /\ Code[p.func][k].op = "drop"
  /\ Code[p.func][k].from < p.pos
  /\ p.pos < k \/ (p.pos = k /\ Pushed(p) > 0)

\* Mutant of CleanUpVar: E is not kept for the time of the destructor.
CleanUpWithoutPush ==
  /\ InUnwinding /\ pc.next <= Len(Code[pc.func])
  /\ IF CleansUp(ref, pc.next)
     THEN LET d == Code[pc.func][pc.next]
          IN  /\ Room(2)
              /\ this' = [frame |-> Len(stack), slot |-> Above(stack) - (FrameSize[pc.func] - d.slot)]
              /\ stack' = Entered(stack, pc, d.func)
              /\ pc' = At(d.func, 1) /\ ref' = Host
     ELSE /\ pc' = Section(pc.func, pc.next + 1)
          /\ UNCHANGED <<stack, ref, this>>
  /\ UNCHANGED <<left, panic, RetValue, status>>

\* One entry of FuncCleanUpFuncions: the variable is found from the top of the
\* stack; the destructor may use every register.
CleanUpVar ==
  /\ InUnwinding /\ pc.next <= Len(Code[pc.func])
  /\ IF CleansUp(ref, pc.next)
     THEN LET d == Code[pc.func][pc.next]
          IN  /\ Room(2)
              /\ this' = [frame |-> Len(stack), slot |-> Above(stack) - (FrameSize[pc.func] - d.slot)]
              /\ stack' = Entered(Append(stack, [ret |-> ref, above |-> 0]), pc, d.func)
              /\ pc' = At(d.func, 1) /\ ref' = Host
     ELSE /\ pc' = Section(pc.func, pc.next + 1)
          /\ UNCHANGED <<stack, ref, this>>
  /\ UNCHANGED <<left, panic, RetValue, status>>

\* The frame is dropped and the next return address popped.
NextFrame ==
  /\ InUnwinding /\ pc.next > Len(Code[pc.func])
  /\ LET top == Popped(FrameDropped(stack, pc.func)) IN Unwind(top.word, top.rest, panic)
  /\ UNCHANGED <<left, this>>

\* PushStack throws a C++ exception, which leaves Call without its last lines:
\* the stack stays as it is.
ThrowStackOverflow ==
  /\ \/ InCode /\ (Calls(pc) \/ Is(pc, "throw")) /\ ~Room(1)
     \/ /\ InUnwinding /\ pc.next <= Len(Code[pc.func])
        /\ CleansUp(ref, pc.next) /\ ~Room(2)
  /\ left' = left + Len(stack)
  /\ stack' = <<>> /\ pc' = Host /\ status' = "exception"
  /\ UNCHANGED <<ref, this, panic, RetValue>>

-----------------------------------------------------------------------------
Extecute ==
  \/ Go \/ CallFunc \/ CleanupFuncCall \/ Return
  \/ ThrowException \/ CleanUpVar \/ NextFrame \/ ThrowStackOverflow

Next == Call \/ Extecute

\* A host may stop calling; the loop of Call does not stop by itself.
Spec == Init /\ [][Next]_vars /\ WF_vars(Extecute)

-----------------------------------------------------------------------------
(* Properties *)

\* What is under way, outermost first: a place in each function, and for each
\* panic the unwinding of the function before it.
ChainOf(s, p, r) ==
  [n \in 1..(IF p.at = "unwinding" THEN Len(s) + 1 ELSE Len(s)) |->
     IF n < Len(s) THEN s[n + 1].ret
     ELSE IF n = Len(s) /\ p.at = "unwinding" THEN r
     ELSE p]

Chain == ChainOf(stack, pc, ref)

Place == [at : {"code"}, func : Func, pos : Nat \ {0}]
Sections == [at : {"unwinding"}, func : Func, next : Nat \ {0}]

\* Every variable keeps its type, and control never goes where a word that is not
\* a return address says.
TypeOK ==
  /\ stack \in Seq([ret : Place \cup Sections \cup {Outside}, above : Nat])
  /\ left \in 0..MaxDepth
  /\ pc \in Place \cup Sections \cup {Host} /\ ref \in Place \cup {Host}
  /\ this \in [frame : Nat, slot : Int]
  /\ panic \in Seq(Place \cup {[at |-> "none"]})
  /\ RetValue \in {"Null", "Success"} /\ status \in {"none", "Null", "Success", "exception"}

\* Above each return address there is what its function and its pending call put
\* there, no word more or less, through calls, returns, panics and destructors
\* (FuncCallStart, FuncCallEnd, DropStack, LinkFuncs).
Aligned ==
  \A n \in 1..Len(stack) :
    stack[n].above =
      IF Chain[n].at = "unwinding" THEN 0
      ELSE FrameSize[Chain[n].func] + (IF n < Len(Chain) THEN Pushed(Chain[n]) ELSE 0)

\* The words of the stack and StackUnwinding are functions that call and return,
\* and panics that destroy every variable there is, once and through a pointer to
\* itself, and report the calls they left.
Service == INSTANCE CallService WITH frames <- Chain
ImplementsCallService == Service!ServiceSpec

\* A panic reaches the host.
PanicsEnd == InUnwinding ~> pc = Host
=============================================================================
