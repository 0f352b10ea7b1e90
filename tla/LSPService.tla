----------------------------- MODULE LSPService -----------------------------
(***************************************************************************)
(* What the language server promises its editor: one server that takes the *)
(* messages one by one in the order they were sent, each once, and whose   *)
(* answers arrive in the order they were made, each once.  SeverPackets is *)
(* everything on its way to the editor, requests everything on its way to  *)
(* the server.                                                             *)
(*                                                                         *)
(* From the first text whose braces do not balance a message may be lost,  *)
(* or arrive as garbage.  The process may die.                             *)
(***************************************************************************)
EXTENDS LSPEditor

VARIABLE requests

serviceVars == <<session, SeverPackets, terminated, sent, stdout, requests>>

ServiceInit == SessionInit /\ sent = <<>> /\ stdout = <<>> /\ requests = <<>>

Disturbed(ms) == \E i \in DOMAIN ms : Braces(ms[i]) # 0

Send ==
  /\ Len(sent) < MaxSent
  /\ \E m \in Requests \cup Notifications :
       /\ MaySend(m)
       /\ sent' = Append(sent, m)
       /\ \/ requests' = Append(requests, Arrives(m))
          \/ /\ Disturbed(Append(sent, m))
             /\ requests' \in {requests, Append(requests, Garbage)}
  /\ UNCHANGED <<session, SeverPackets, terminated, stdout>>

Serve ==
  /\ requests # <<>>
  /\ OnReceivedPacket(Head(requests))
  /\ requests' = Tail(requests)
  /\ UNCHANGED <<sent, stdout>>

Report ==
  /\ Refresh
  /\ SeverPackets' = SeverPackets \o Published(ClientErrors')
  /\ UNCHANGED <<sent, stdout, requests>>

Deliver ==
  /\ stdout' = stdout \o SeverPackets
  /\ SeverPackets' = <<>>
  /\ UNCHANGED <<session, terminated, sent, requests>>

Die ==
  /\ terminated' \in {"no server", "freed server"}
  /\ UNCHANGED <<session, SeverPackets, sent, stdout, requests>>

ServiceNext == terminated = "no" /\ (Send \/ Serve \/ Report \/ Deliver \/ Die)

ServiceSpec == ServiceInit /\ [][ServiceNext]_serviceVars
=============================================================================
