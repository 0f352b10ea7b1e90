------------------------------ MODULE LSPMain -------------------------------
(***************************************************************************)
(* The process of the language server: UCodeLanguageSever/src/main.cpp.    *)
(* Three threads hand messages on.  Main reads the editor's messages and   *)
(* gives them to the server with AddPacket; the server's thread sleeps on  *)
(* cv until `count' moves and then runs LSPSever::Step; the third sleeps   *)
(* on outcv until `count2' moves and writes what GetPackets returns.  No   *)
(* notification is made under the mutex its condition variable waits with, *)
(* so each can fall between the test of the condition and the wait.        *)
(***************************************************************************)
EXTENDS LSPEditor

VARIABLES
  framing,         \* Stream between two messages: in step, inside one, or lost
  pcM, packet,     \* the main thread, the packet in its hand
  ClientPackets,   \* _ClientPackets
  count, severPtr,
  pcS, mycount, PacketsToRun,  \* the server's thread
  count2,
  pcO, mycount2            \* the thread that writes

mainVars == <<sent, framing, pcM, packet, count>>
severVars == <<session, severPtr, pcS, mycount, PacketsToRun, count2>>
outVars == <<pcO, mycount2, stdout>>
vars == <<mainVars, severVars, outVars, ClientPackets, SeverPackets, terminated>>

NoPacket == [method |-> "none"]

Init ==
  /\ SessionInit
  /\ sent = <<>> /\ framing = "step" /\ stdout = <<>>
  /\ pcM = "read" /\ packet = NoPacket /\ ClientPackets = <<>>
  /\ count = 0 /\ count2 = 0 /\ severPtr = FALSE
  /\ pcS = "start" /\ mycount = 0 /\ PacketsToRun = <<>>
  /\ pcO = "test" /\ mycount2 = 0

-----------------------------------------------------------------------------
(* The main thread *)

\* Stream, over the characters of one message.  In step, the count of braces
\* comes back to zero at the end of a message that balances.  A brace too many
\* and it does not: this message is not handed on, and whether the count comes
\* to zero in one of the next, at its end or before, depends on sizes and blanks.
\* A brace too few cuts the message; what is left of it hides every header to
\* come.
InStep(m) ==
  /\ framing = "step" /\ Braces(m) = 0
  /\ packet' = Arrives(m) /\ pcM' = "add"
  /\ UNCHANGED framing

Opens(m) ==
  /\ \/ framing = "step" /\ Braces(m) > 0
     \/ framing = "inside"
  /\ framing' = "inside"
  /\ UNCHANGED <<packet, pcM>>

Closes(m) ==
  /\ framing = "inside"
  /\ packet' \in {Arrives(m), Garbage} /\ pcM' = "add"
  /\ framing' = "step"

Cuts(m) ==
  /\ \/ framing = "step" /\ Braces(m) < 0
     \/ framing = "inside"
  /\ packet' = Garbage /\ pcM' = "add"
  /\ framing' = "lost"

Skips(m) ==
  /\ framing = "lost"
  /\ UNCHANGED <<framing, packet, pcM>>

Stream(m) == InStep(m) \/ Opens(m) \/ Closes(m) \/ Cuts(m) \/ Skips(m)

Read ==
  /\ pcM = "read" /\ Len(sent) < MaxSent
  /\ \E m \in Requests \cup Notifications :
       /\ MaySend(m)
       /\ sent' = Append(sent, m)
       /\ Stream(m)
  /\ UNCHANGED <<count, ClientPackets, SeverPackets, terminated, severVars, outVars>>

\* SeverPtr->AddPacket, with nothing to say that there is a server.
LockInput ==
  /\ pcM = "add"
  /\ pcM' = "locked"
  /\ terminated' = IF severPtr THEN terminated ELSE "no server"
  /\ UNCHANGED <<sent, framing, packet, count, ClientPackets, SeverPackets, severVars, outVars>>

AddPacket ==
  /\ pcM = "locked"
  /\ ClientPackets' = Append(ClientPackets, packet) /\ packet' = NoPacket
  /\ pcM' = "count"
  /\ UNCHANGED <<sent, framing, count, SeverPackets, terminated, severVars, outVars>>

\* Mutant of CountPacket: the count is that of the packets that wait.
CountWaiting ==
  /\ pcM = "count"
  /\ count' = Len(ClientPackets)
  /\ pcM' = "read"
  /\ pcS' = IF pcS = "asleep" THEN "test" ELSE pcS
  /\ UNCHANGED <<sent, framing, packet, ClientPackets, SeverPackets, terminated, outVars,
                 session, severPtr, mycount, PacketsToRun, count2>>

\* count++ and cv.notify_one.
CountPacket ==
  /\ pcM = "count"
  /\ count' = count + 1
  /\ pcM' = "read"
  /\ pcS' = IF pcS = "asleep" THEN "test" ELSE pcS
  /\ UNCHANGED <<sent, framing, packet, ClientPackets, SeverPackets, terminated, outVars,
                 session, severPtr, mycount, PacketsToRun, count2>>

Main == Read \/ LockInput \/ AddPacket \/ CountPacket

-----------------------------------------------------------------------------
(* The server's thread *)

SeverKeeps == <<mainVars, outVars>>

StartSever ==
  /\ pcS = "start"
  /\ severPtr' = TRUE /\ pcS' = "test"
  /\ UNCHANGED <<SeverKeeps, session, mycount, PacketsToRun, count2, ClientPackets, SeverPackets, terminated>>

\* The test of cv.wait; when it holds, mycount = count and the first part of
\* Step, which takes what there is unless main holds the lock.
TestCount ==
  /\ pcS = "test"
  /\ mycount' = count
  /\ IF count = mycount \/ pcM = "locked"
     THEN UNCHANGED <<PacketsToRun, ClientPackets>>
     ELSE /\ PacketsToRun' = ClientPackets
          /\ ClientPackets' = <<>>
  /\ pcS' = IF count = mycount THEN "block" ELSE "run"
  /\ UNCHANGED <<SeverKeeps, session, severPtr, count2, SeverPackets, terminated>>

WaitForCount ==
  /\ pcS = "block"
  /\ pcS' = "asleep"
  /\ UNCHANGED <<SeverKeeps, session, severPtr, mycount, PacketsToRun, count2, ClientPackets, SeverPackets, terminated>>

\* Mutant of RunPacket: the newest message first.
RunNewest ==
  /\ pcS = "run" /\ PacketsToRun # <<>>
  /\ OnReceivedPacket(Last(PacketsToRun))
  /\ PacketsToRun' = Front(PacketsToRun)
  /\ UNCHANGED <<SeverKeeps, severPtr, pcS, mycount, count2, ClientPackets>>

RunPacket ==
  /\ pcS = "run" /\ PacketsToRun # <<>>
  /\ OnReceivedPacket(Head(PacketsToRun))
  /\ PacketsToRun' = Tail(PacketsToRun)
  /\ UNCHANGED <<SeverKeeps, severPtr, pcS, mycount, count2, ClientPackets>>

\* The messages are sent one by one; a reader between two of them has them
\* earlier than the others, and the others with the next notification.
UpdateClientErrorList ==
  /\ pcS = "run" /\ PacketsToRun = <<>>
  /\ Refresh
  /\ SeverPackets' = SeverPackets \o Published(ClientErrors')
  /\ pcS' = "count"
  /\ UNCHANGED <<SeverKeeps, severPtr, mycount, PacketsToRun, count2, ClientPackets>>

\* Mutant of CountOutput: the writing thread is woken, the count stays.
NotifyWithoutCount ==
  /\ pcS = "count"
  /\ pcO' = IF SeverPackets # <<>> /\ pcO = "asleep" THEN "test" ELSE pcO
  /\ pcS' = IF Runing THEN "test" ELSE "end"
  /\ UNCHANGED <<mainVars, mycount2, stdout, session, severPtr, mycount, PacketsToRun, count2,
                 ClientPackets, SeverPackets, terminated>>

\* oldsize is the 0 of an empty list for ever: count2++ and outcv.notify_one
\* whenever something waits to be written.
CountOutput ==
  /\ pcS = "count"
  /\ IF SeverPackets # <<>>
     THEN count2' = count2 + 1 /\ pcO' = IF pcO = "asleep" THEN "test" ELSE pcO
     ELSE UNCHANGED <<count2, pcO>>
  /\ pcS' = IF Runing THEN "test" ELSE "end"
  /\ UNCHANGED <<mainVars, mycount2, stdout, session, severPtr, mycount, PacketsToRun,
                 ClientPackets, SeverPackets, terminated>>

EndSever ==
  /\ pcS = "end"
  /\ severPtr' = FALSE /\ pcS' = "ended"
  /\ UNCHANGED <<SeverKeeps, session, mycount, PacketsToRun, count2, ClientPackets, SeverPackets, terminated>>

Sever ==
  \/ StartSever \/ TestCount \/ WaitForCount \/ RunPacket
  \/ UpdateClientErrorList \/ CountOutput \/ EndSever

-----------------------------------------------------------------------------
(* The thread that writes *)

OutKeeps == <<mainVars, severVars, ClientPackets>>

\* The test of outcv.wait; when it holds, mycount = count2 and if (SeverPtr).
TestCount2 ==
  /\ pcO = "test"
  /\ mycount2' = count2
  /\ pcO' = IF count2 = mycount2 THEN "block" ELSE IF severPtr THEN "get" ELSE "test"
  /\ UNCHANGED <<OutKeeps, stdout, SeverPackets, terminated>>

WaitForCount2 ==
  /\ pcO = "block"
  /\ pcO' = "asleep"
  /\ UNCHANGED <<OutKeeps, mycount2, stdout, SeverPackets, terminated>>

\* Mutant of GetPackets: the packets are copied, not moved.
GetCopies ==
  /\ pcO = "get" /\ severPtr
  /\ stdout' = stdout \o SeverPackets
  /\ pcO' = "test"
  /\ UNCHANGED <<OutKeeps, mycount2, SeverPackets, terminated>>

\* GetPackets and the loop that writes what it returns: nothing, when try_lock
\* fails because the server's thread is sending.  The server may also be gone,
\* and its memory with it, since it was looked for.
GetPackets ==
  /\ pcO = "get"
  /\ \/ /\ severPtr
        /\ stdout' = stdout \o SeverPackets /\ SeverPackets' = <<>>
        /\ UNCHANGED terminated
     \/ /\ pcS = "run" \/ ~severPtr
        /\ UNCHANGED <<stdout, SeverPackets, terminated>>
     \/ /\ ~severPtr
        /\ terminated' = "freed server"
        /\ UNCHANGED <<stdout, SeverPackets>>
  /\ pcO' = "test"
  /\ UNCHANGED <<OutKeeps, mycount2>>

Out == TestCount2 \/ WaitForCount2 \/ GetPackets

-----------------------------------------------------------------------------
Running == terminated = "no"

Next == Running /\ (Main \/ Sever \/ Out)

\* The threads are scheduled; the editor need not send anything.
Fairness ==
  /\ WF_vars(Running /\ (LockInput \/ AddPacket \/ CountPacket))
  /\ WF_vars(Running /\ Sever)
  /\ WF_vars(Running /\ Out)

Spec == Init /\ [][Next]_vars /\ Fairness

-----------------------------------------------------------------------------
(* Properties *)

\* Every variable keeps its type; order names each open document once.
TypeOK ==
  /\ Open \subseteq Files /\ files \in [Open -> UCFile]
  /\ order \in SetToSeqs(Open)
  /\ ErrorList \in Seq(Error) /\ ClientErrors \in Seq(Error)
  /\ {stdout, SeverPackets} \subseteq Seq(Reply)
  /\ {IsInitialized, IsShutdown, Runing, severPtr} \subseteq BOOLEAN
  /\ terminated \in {"no", "no such file", "not json", "no server", "freed server"}
  /\ {count, mycount, count2, mycount2} \subseteq Nat
  /\ framing \in {"step", "inside", "lost"}
  /\ pcM \in {"read", "add", "locked", "count"}
  /\ pcS \in {"start", "test", "block", "asleep", "run", "count", "end", "ended"}
  /\ pcO \in {"test", "block", "asleep", "get"}

InHand == IF pcM \in {"add", "locked"} THEN <<packet>> ELSE <<>>
ToSever == PacketsToRun \o ClientPackets \o InHand

\* The two queues, the three threads and their locks hand every message on once
\* and in order, whichever thread is slow (main.cpp with AddPacket, GetPackets
\* and Step): they are one server with a queue at each side.
Service == INSTANCE LSPService WITH requests <- ToSever
ImplementsLSPService == Service!ServiceSpec

AllSent == stdout \o SeverPackets

\* For a document the server's copy of the client's list has errors for, the
\* last diagnostics sent to the editor are those errors (UpdateClientErrorList).
\* Past StableUpTo the sort may mix the errors of paths of one length, which then
\* go out in several messages for one document.
Told(f) ==
  LET about == Only(AllSent, DiagnosticsOf({f}))
  IN  IF about = <<>> THEN <<>> ELSE Last(about).errors
ErrorsIn(list, f) ==
  LET about == Only(list, [file : {f}, error : Errors])
  IN  [i \in DOMAIN about |-> about[i].error]
Recorded(f) == ErrorsIn(ClientErrors, f)
ToldErrors ==
  (Running /\ Len(ClientErrors) <= StableUpTo) =>
    \A f \in Files : Recorded(f) # <<>> => Told(f) = Recorded(f)

\* The answers are those the protocol's phase at the time of the request calls
\* for, one for each request and in the order of the requests, whatever the
\* batches the messages were handled in; hover and its like get one only when
\* they are refused (OnReceivedPacket, InitializeCheck, ShutdownCheck).
Handled == Len(sent) - Len(ToSever)
Undisturbed == \A i \in DOMAIN sent : Braces(sent[i]) = 0
Before(i, method) == \E j \in 1..(i - 1) : sent[j].method = method
Verdict(i) ==
  LET m == sent[i]
  IN  CASE m.method \in {"initialize", "shutdown"} -> <<Result(m)>>
        [] m.method = "unknown" -> <<ResponseError(m, "MethodNotFound")>>
        [] m.method = "hover" /\ ~Before(i, "initialized") -> <<ResponseError(m, "ServerNotInitialized")>>
        [] m.method = "hover" /\ Before(i, "initialized") /\ Before(i, "shutdown") ->
             <<ResponseError(m, "InvalidRequest")>>
        [] OTHER -> <<>>
AnswersInTurn ==
  Undisturbed => Only(AllSent, Answer) = FlattenSeq([i \in 1..Handled |-> Verdict(i)])

\* Whoever may go to sleep has nothing to do, but for the notification that falls
\* between its test and its wait: what main has added and counted is counted
\* past what the server has seen, and so is what the server has left for the
\* thread that writes, try_lock's failures included (AddPacket, Step, GetPackets).
NothingForgotten ==
  /\ (ClientPackets # <<>> /\ pcM \in {"read", "add"}) => mycount < count
  /\ (SeverPackets # <<>> /\ pcS \notin {"run", "count"} /\ severPtr)
       => mycount2 < count2 \/ pcO = "get"

\* A message that finds both other threads asleep takes everything before it
\* along, messages whose own wake-up was missed included: all of it is handled
\* and all answers are written, unless the editor goes on sending, the server
\* ends or the process dies.
Drained == ToSever = <<>> /\ SeverPackets = <<>>
DrainedWhenIdle ==
  \A n \in 1..MaxSent :
    (pcM = "count" /\ pcS = "asleep" /\ pcO = "asleep" /\ Len(sent) = n)
      ~> (Drained \/ Len(sent) > n \/ ~Runing \/ ~Running)

\* When nothing is on its way the server's copy of each document the editor has
\* open is the editor's.
Synced ==
  (Running /\ pcM = "read" /\ ToSever = <<>> /\ Runing) =>
    \A f \in Files : OpenInEditor(f) => f \in Open /\ files[f].text = TextInEditor(f)

\* Until shutdown the server looks up no document it does not have, however the
\* closing of documents and the making of the lists are batched.
FilesFound == (Undisturbed /\ ~IsShutdown) => terminated # "no such file"
=============================================================================
