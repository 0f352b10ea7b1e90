-------------------------- MODULE LSPMainInvariant --------------------------
(***************************************************************************)
(* The inductive invariants behind the theorems about LSPMain.  LSPInv is  *)
(* about the threads: what the queues hold, that neither waiting thread    *)
(* has seen more than was counted for it, and that the server's thread has *)
(* messages in hand only while it runs them.  SessionInv is about what the *)
(* server has done for the messages it was handed so far; its steps are    *)
(* those of one server between two queues.                                 *)
(***************************************************************************)
EXTENDS LSPMain

Messages == [method : {"initialize", "shutdown", "hover", "unknown"}, id : Nat] \cup Notifications
Packets == Messages \cup {Garbage}

QueuesOK ==
  /\ sent \in Seq(Messages)
  /\ ClientPackets \in Seq(Packets) /\ PacketsToRun \in Seq(Packets)
  /\ pcM \in {"add", "locked"} => packet \in Packets

CountsOK ==
  /\ count \in Nat /\ mycount \in Nat /\ mycount <= count
  /\ count2 \in Nat /\ mycount2 \in Nat /\ mycount2 <= count2

\* The thread of the server holds messages only in Step, and has sent nothing
\* before there is a server.
SeverThreadOK ==
  /\ pcS # "run" => PacketsToRun = <<>>
  /\ pcS = "start" => SeverPackets = <<>>

\* The framing is out of step only after a text that does not balance.
FramingOK == framing # "step" => \E i \in DOMAIN sent : Braces(sent[i]) # 0

LSPInv == QueuesOK /\ CountsOK /\ SeverThreadOK /\ FramingOK /\ NothingForgotten

-----------------------------------------------------------------------------
(* What a step is to the session: the three threads and two queues seen as *)
(* one server that takes ToSever and fills AllSent.                        *)

Sends ==
  /\ Len(sent) < MaxSent
  /\ \E m \in Requests \cup Notifications :
       /\ MaySend(m)
       /\ sent' = Append(sent, m)
       /\ \/ ToSever' = Append(ToSever, Arrives(m))
          \/ /\ \E i \in DOMAIN Append(sent, m) : Braces(Append(sent, m)[i]) # 0
             /\ ToSever' = ToSever \/ ToSever' = Append(ToSever, Garbage)
  /\ UNCHANGED <<session, SeverPackets, terminated, stdout>>

Serves ==
  /\ ToSever # <<>>
  /\ OnReceivedPacket(Head(ToSever))
  /\ ToSever' = Tail(ToSever)
  /\ UNCHANGED <<sent, stdout>>

Reports ==
  /\ Refresh
  /\ SeverPackets' = SeverPackets \o Published(ClientErrors')
  /\ UNCHANGED <<sent, stdout, ToSever>>

Delivers ==
  /\ stdout' = stdout \o SeverPackets /\ SeverPackets' = <<>>
  /\ UNCHANGED <<session, terminated, sent, ToSever>>

Dies ==
  /\ terminated' \in {"no server", "freed server"}
  /\ UNCHANGED <<session, SeverPackets, sent, stdout, ToSever>>

Aside == UNCHANGED <<session, SeverPackets, terminated, sent, stdout, ToSever>>

-----------------------------------------------------------------------------
(* The session.                                                            *)

\* The place of a message that is on its way is known, and so is what has been
\* done for those before it.
InTurn ==
  Undisturbed =>
    /\ Handled \in Nat
    /\ \A i \in DOMAIN ToSever : ToSever[i] = Arrives(sent[Handled + i])
    /\ IsInitialized <=> Before(Handled + 1, "initialized")
    /\ IsShutdown <=> Before(Handled + 1, "shutdown")
    /\ \A f \in Files : f \in Open <=> OpenAfter(Handled, f)

\* The editor changes and closes only what it has open.
EditorKeepsRules ==
  \A i \in DOMAIN sent :
    sent[i].method \in {"didChange", "didClose"} => OpenAfter(i - 1, sent[i].file)

\* Errors of one document stand next to each other.
Runs(list) ==
  \A i, k \in 1..Len(list) :
    i < k /\ list[i].file = list[k].file => list[k - 1].file = list[k].file

ListOK ==
  /\ ~IsInitialized => ErrorList = <<>>
  /\ Runs(ErrorList)

SessionTypes ==
  /\ Open \subseteq Files /\ files \in [Open -> UCFile] /\ IsFiniteSet(Open)
  /\ order \in SetToSeqs(Open)
  /\ ErrorList \in Seq(Error) /\ ClientErrors \in Seq(Error)
  /\ stdout \in Seq(Reply)
  /\ SeverPackets \in Seq(Reply)
  /\ IsInitialized \in BOOLEAN /\ IsShutdown \in BOOLEAN /\ Runing \in BOOLEAN
  /\ terminated \in {"no", "no such file", "not json", "no server", "freed server"}

ThreadTypes ==
  /\ severPtr \in BOOLEAN
  /\ framing \in {"step", "inside", "lost"}
  /\ pcM \in {"read", "add", "locked", "count"}
  /\ pcS \in {"start", "test", "block", "asleep", "run", "count", "end", "ended"}
  /\ pcO \in {"test", "block", "asleep", "get"}

SessionInv ==
  /\ SessionTypes /\ ListOK /\ EditorKeepsRules
  /\ InTurn /\ AnswersInTurn /\ ToldErrors /\ FilesFound

=============================================================================
