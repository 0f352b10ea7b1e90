----------------------------- MODULE CallService -----------------------------
(***************************************************************************)
(* What a call of a UCode function promises its host: functions call and   *)
(* return; a panic destroys the variables that are there, function by      *)
(* function from the one that panicked to the one the host called, each    *)
(* through a pointer to itself, and tells the host which calls it left.    *)
(***************************************************************************)
EXTENDS UCodeProgram, SequencesExt

VARIABLES
  frames,       \* what is under way: a place in a function, or the unwinding of the one below
  this,         \* the variable given to the last destructor
  panic,        \* the places the panic left, or NoPanic
  status        \* of the last call

serviceVars == <<frames, this, panic, status>>

NoPanic == <<[at |-> "none"]>>
Nothing == [frame |-> 0, slot |-> 0]
Top == Last(frames)

ServiceInit == frames = <<>> /\ this = Nothing /\ panic = NoPanic /\ status = "none"

Start ==
  /\ frames = <<>>
  /\ \E f \in Func : frames' = <<At(f, 1)>>
  /\ panic' = NoPanic
  /\ UNCHANGED <<this, status>>

Refuse ==
  /\ frames = <<>>
  /\ panic' = NoPanic /\ status' = "exception"
  /\ UNCHANGED <<frames, this>>

Running == frames # <<>> /\ Top.at = "code"
Unwinding == frames # <<>> /\ Top.at = "unwinding"
Left == frames[Len(frames) - 1]

Go ==
  /\ Running /\ (Is(Top, "plain") \/ Is(Top, "branch"))
  /\ \/ frames' = Append(Front(frames), At(Top.func, Top.pos + 1))
     \/ Is(Top, "branch") /\ frames' = Append(Front(frames), At(Top.func, StepAt(Top).to))
  /\ UNCHANGED <<this, panic, status>>

Enter ==
  /\ Running /\ Is(Top, "call")
  /\ frames' = Append(frames, At(StepAt(Top).func, 1))
  /\ UNCHANGED <<this, panic, status>>

Destroy ==
  /\ Running /\ Is(Top, "drop")
  /\ frames' = Append(frames, At(StepAt(Top).func, 1))
  /\ this' = [frame |-> Len(frames), slot |-> StepAt(Top).slot]
  /\ UNCHANGED <<panic, status>>

Advanced(a) == IF a.at = "code" THEN At(a.func, a.pos + 1) ELSE Section(a.func, a.next + 1)

Return ==
  /\ Running /\ Top.pos > Len(Code[Top.func])
  /\ \/ /\ Len(frames) = 1
        /\ frames' = <<>> /\ status' = "Success"
     \/ /\ Len(frames) > 1
        /\ frames' = Append(Front(Front(frames)), Advanced(Left))
        /\ UNCHANGED status
  /\ UNCHANGED <<this, panic>>

Panic ==
  /\ Running /\ Is(Top, "throw")
  /\ frames' = Append(frames, Section(Top.func, 1))
  /\ panic' = <<Top>>
  /\ UNCHANGED <<this, status>>

\* The variable that step k destroys is there when its function is at p.
Alive(p, k) ==
  Code[p.func][k].op = "drop" /\ Code[p.func][k].from < p.pos /\ p.pos < k

CleanUp ==
  /\ Unwinding /\ Top.next <= Len(Code[Top.func])
  /\ IF Alive(Left, Top.next)
     THEN /\ frames' = Append(frames, At(Code[Top.func][Top.next].func, 1))
          /\ this' = [frame |-> Len(frames) - 1, slot |-> Code[Top.func][Top.next].slot]
     ELSE /\ frames' = Append(Front(frames), Advanced(Top))
          /\ UNCHANGED this
  /\ UNCHANGED <<panic, status>>

\* Left is left for what is below it: its caller, or an unwinding it was called
\* by, which goes on.
NextFrame ==
  /\ Unwinding /\ Top.next > Len(Code[Top.func])
  /\ LET below == Front(Front(frames))
     IN  \/ /\ below = <<>>
            /\ frames' = <<>> /\ status' \in {"Null", "Success"}
            /\ UNCHANGED panic
         \/ /\ below # <<>> /\ Last(below).at = "code"
            /\ frames' = Append(below, Section(Last(below).func, 1))
            /\ panic' = Append(panic, Last(below))
            /\ UNCHANGED status
         \/ /\ below # <<>> /\ Last(below).at = "unwinding"
            /\ frames' = Append(Front(below), Advanced(Last(below)))
            /\ UNCHANGED <<panic, status>>
  /\ UNCHANGED this

\* The stack is full: the host gets a C++ exception.
Exception ==
  /\ frames # <<>>
  /\ frames' = <<>> /\ status' = "exception"
  /\ UNCHANGED <<this, panic>>

ServiceNext ==
  \/ Start \/ Refuse \/ Go \/ Enter \/ Destroy \/ Return
  \/ Panic \/ CleanUp \/ NextFrame \/ Exception

ServiceSpec == ServiceInit /\ [][ServiceNext]_serviceVars
=============================================================================
