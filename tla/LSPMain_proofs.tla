--------------------------- MODULE LSPMain_proofs ---------------------------
(***************************************************************************)
(* TLAPS proofs about LSPMain, for every set of documents and texts,       *)
(* whatever the lexer and the parser find in them, and every bound on the  *)
(* messages of a session.                                                  *)
(***************************************************************************)
EXTENDS LSPMainInvariant, TLAPS

USE LSPSeverAssumption, LSPEditorAssumption

-----------------------------------------------------------------------------
(* The inductive invariant.                                                *)

LEMMA MessageTypes ==
    ASSUME sent \in Seq(Messages), NEW m \in Requests \cup Notifications
    PROVE  m \in Messages /\ Arrives(m) \in Packets /\ Garbage \in Packets
<1>1. m \in Messages
  <2>1. CASE m \in Requests
    <3>1. Len(sent) + 1 \in Nat
      OBVIOUS
    <3> QED
      BY <2>1, <3>1 DEF Requests, Request, Messages
  <2>2. CASE m \in Notifications
    BY <2>2 DEF Messages
  <2> QED
    BY <2>1, <2>2
<1>2. Arrives(m) \in Messages
  <2>1. CASE HasText(m)
    <3>1. m \in [method : {"didOpen", "didChange"}, file : Files, text : Texts]
      BY <2>1 DEF HasText, Requests, Request, Notifications
    <3>2. Spaceless[m.text] \in Texts
      BY <3>1
    <3>3. Arrives(m) \in [method : {"didOpen", "didChange"}, file : Files, text : Texts]
      BY <2>1, <3>1, <3>2 DEF Arrives
    <3> QED
      BY <3>3 DEF Messages, Notifications
  <2>2. CASE ~HasText(m)
    BY <1>1, <2>2 DEF Arrives
  <2> QED
    BY <2>1, <2>2
<1> QED
  BY <1>1, <1>2 DEF Packets

LEMMA InitInv == Init => LSPInv
<1> SUFFICES ASSUME Init PROVE LSPInv
  OBVIOUS
<1>1. QueuesOK
  BY DEF Init, QueuesOK
<1>2. CountsOK
  BY DEF Init, CountsOK
<1>3. SeverThreadOK /\ FramingOK
  BY DEF Init, SessionInit, SeverThreadOK, FramingOK
<1>4. NothingForgotten
  BY DEF Init, SessionInit, NothingForgotten
<1> QED
  BY <1>1, <1>2, <1>3, <1>4 DEF LSPInv

LEMMA QueuesStep == QueuesOK /\ SeverThreadOK /\ [Next]_vars => QueuesOK'
<1> SUFFICES ASSUME QueuesOK, SeverThreadOK, [Next]_vars PROVE QueuesOK'
  OBVIOUS
<1> USE DEF QueuesOK, SeverKeeps, OutKeeps, mainVars, severVars, outVars
<1>1. CASE UNCHANGED vars
  BY <1>1 DEF vars
<1>2. CASE Read
  <2>1. PICK m \in Requests \cup Notifications : MaySend(m) /\ sent' = Append(sent, m) /\ Stream(m)
    BY <1>2 DEF Read
  <2>2. m \in Messages /\ Arrives(m) \in Packets /\ Garbage \in Packets
    BY <2>1, MessageTypes
  <2>3. sent' \in Seq(Messages)
    BY <2>1, <2>2
  <2>4. packet' \in Packets \/ UNCHANGED <<packet, pcM>>
    BY <2>1, <2>2 DEF Stream, InStep, Opens, Closes, Cuts, Skips
  <2> QED
    BY <1>2, <2>3, <2>4 DEF Read
<1>3. CASE LockInput
  BY <1>3 DEF LockInput
<1>4. CASE AddPacket
  BY <1>4 DEF AddPacket
<1>5. CASE CountPacket
  BY <1>5 DEF CountPacket
<1>6. CASE StartSever \/ WaitForCount \/ UpdateClientErrorList \/ EndSever
  BY <1>6 DEF StartSever, WaitForCount, UpdateClientErrorList, EndSever
<1>7. CASE TestCount
  <2>1. CASE UNCHANGED <<PacketsToRun, ClientPackets>>
    BY <1>7, <2>1 DEF TestCount
  <2>2. CASE PacketsToRun' = ClientPackets /\ ClientPackets' = <<>>
    <3>1. <<>> \in Seq(Packets)
      OBVIOUS
    <3> QED
      BY <1>7, <2>2, <3>1 DEF TestCount
  <2> QED
    BY <1>7, <2>1, <2>2 DEF TestCount
<1>8. CASE RunPacket
  BY <1>8 DEF RunPacket
<1>9. CASE CountOutput
  BY <1>9 DEF CountOutput
<1>10. CASE Out
  BY <1>10 DEF Out, TestCount2, WaitForCount2, GetPackets
<1> QED
  BY <1>1, <1>2, <1>3, <1>4, <1>5, <1>6, <1>7, <1>8, <1>9, <1>10 DEF Next, Main, Sever

LEMMA CountsStep == CountsOK /\ [Next]_vars => CountsOK'
<1> SUFFICES ASSUME CountsOK, [Next]_vars PROVE CountsOK'
  OBVIOUS
<1> USE DEF CountsOK
<1>1. CASE UNCHANGED vars
  BY <1>1 DEF vars, mainVars, severVars, outVars
<1>2. CASE Read \/ LockInput \/ AddPacket
  BY <1>2 DEF Read, LockInput, AddPacket, severVars, outVars
<1>3. CASE CountPacket
  BY <1>3 DEF CountPacket, outVars
<1>4. CASE StartSever \/ WaitForCount \/ RunPacket \/ UpdateClientErrorList \/ EndSever
  BY <1>4 DEF StartSever, WaitForCount, RunPacket, UpdateClientErrorList, EndSever,
     SeverKeeps, mainVars, outVars
<1>5. CASE TestCount
  BY <1>5 DEF TestCount, SeverKeeps, mainVars, outVars
<1>6. CASE CountOutput
  BY <1>6 DEF CountOutput, mainVars
<1>7. CASE TestCount2
  BY <1>7 DEF TestCount2, OutKeeps, mainVars, severVars
<1>8. CASE WaitForCount2 \/ GetPackets
  BY <1>8 DEF WaitForCount2, GetPackets, OutKeeps, mainVars, severVars
<1> QED
  BY <1>1, <1>2, <1>3, <1>4, <1>5, <1>6, <1>7, <1>8 DEF Next, Main, Sever, Out

LEMMA SeverThreadStep == SeverThreadOK /\ [Next]_vars => SeverThreadOK'
<1> SUFFICES ASSUME SeverThreadOK, [Next]_vars PROVE SeverThreadOK'
  OBVIOUS
<1> USE DEF SeverThreadOK, SeverKeeps, OutKeeps, mainVars, severVars, outVars
<1>1. CASE UNCHANGED vars
  BY <1>1 DEF vars
<1>2. CASE Main
  BY <1>2 DEF Main, Read, LockInput, AddPacket, CountPacket
<1>3. CASE StartSever \/ WaitForCount \/ UpdateClientErrorList \/ EndSever \/ CountOutput \/ TestCount
  BY <1>3 DEF StartSever, WaitForCount, UpdateClientErrorList, EndSever, CountOutput, TestCount
<1>4. CASE RunPacket
  BY <1>4 DEF RunPacket
<1>5. CASE Out
  BY <1>5 DEF Out, TestCount2, WaitForCount2, GetPackets
<1> QED
  BY <1>1, <1>2, <1>3, <1>4, <1>5 DEF Next, Sever

LEMMA FramingStep == QueuesOK /\ FramingOK /\ [Next]_vars => FramingOK'
<1> SUFFICES ASSUME QueuesOK, FramingOK, [Next]_vars PROVE FramingOK'
  OBVIOUS
<1>1. CASE UNCHANGED <<sent, framing>>
  BY <1>1 DEF FramingOK
<1>2. CASE Read
  <2>1. PICK m \in Requests \cup Notifications : sent' = Append(sent, m) /\ Stream(m)
    BY <1>2 DEF Read
  <2>2. sent \in Seq(Messages)
    BY DEF QueuesOK
  <2>3. m \in Messages
    BY <2>2, MessageTypes
  <2>4. /\ Len(sent) + 1 \in DOMAIN sent' /\ sent'[Len(sent) + 1] = m
        /\ \A i \in DOMAIN sent : i \in DOMAIN sent' /\ sent'[i] = sent[i]
    BY <2>1, <2>2, <2>3
  <2>5. framing' # "step" => framing # "step" \/ Braces(m) # 0
    BY <2>1 DEF Stream, InStep, Opens, Closes, Cuts, Skips
  <2>6. CASE framing # "step"
    <3>1. PICK i \in DOMAIN sent : Braces(sent[i]) # 0
      BY <2>6 DEF FramingOK
    <3>2. i \in DOMAIN sent' /\ Braces(sent'[i]) # 0
      BY <2>4, <3>1
    <3> QED
      BY <3>2 DEF FramingOK, Braces, HasText
  <2>7. CASE Braces(m) # 0
    <3>1. Len(sent) + 1 \in DOMAIN sent' /\ Braces(sent'[Len(sent) + 1]) # 0
      BY <2>4, <2>7
    <3> QED
      BY <3>1 DEF FramingOK, Braces, HasText
  <2> QED
    BY <2>5, <2>6, <2>7 DEF FramingOK
<1>3. CASE LockInput \/ AddPacket \/ CountPacket \/ Sever \/ Out
  BY <1>1, <1>3 DEF LockInput, AddPacket, CountPacket, Sever, Out, StartSever, TestCount, WaitForCount,
     RunPacket, UpdateClientErrorList, CountOutput, EndSever, TestCount2, WaitForCount2, GetPackets,
     SeverKeeps, OutKeeps, mainVars
<1> QED
  BY <1>1, <1>2, <1>3 DEF Next, Main, vars, mainVars

-----------------------------------------------------------------------------
(* Nothing is forgotten.                                                   *)

NothingWaits == (ClientPackets # <<>> /\ pcM \in {"read", "add"}) => mycount < count
NothingUnwritten ==
  (SeverPackets # <<>> /\ pcS \notin {"run", "count"} /\ severPtr) => mycount2 < count2 \/ pcO = "get"

LEMMA NothingWaitsStep == CountsOK /\ NothingWaits /\ [Next]_vars => NothingWaits'
<1> SUFFICES ASSUME CountsOK, NothingWaits, [Next]_vars PROVE NothingWaits'
  OBVIOUS
<1> USE DEF SeverKeeps, OutKeeps, mainVars, severVars, outVars
<1>1. CASE UNCHANGED vars
  BY <1>1 DEF vars, NothingWaits
<1>2. CASE Read
  <2>1. UNCHANGED <<ClientPackets, mycount, count>> /\ pcM = "read"
    BY <1>2 DEF Read
  <2> QED
    BY <2>1 DEF NothingWaits
<1>3. CASE LockInput \/ AddPacket
  BY <1>3 DEF LockInput, AddPacket, NothingWaits
<1>4. CASE CountPacket
  <2>1. mycount' = mycount /\ count' = count + 1
    BY <1>4 DEF CountPacket
  <2>2. mycount' < count'
    BY <2>1 DEF CountsOK
  <2> QED
    BY <2>2 DEF NothingWaits
<1>5. CASE TestCount
  <2>1. UNCHANGED <<pcM, count>>
    BY <1>5 DEF TestCount
  <2>2. CASE pcM = "locked"
    BY <2>1, <2>2 DEF NothingWaits
  <2>3. CASE count = mycount
    BY <1>5, <2>1, <2>3 DEF TestCount, NothingWaits
  <2>4. CASE pcM # "locked" /\ count # mycount
    BY <1>5, <2>4 DEF TestCount, NothingWaits
  <2> QED
    BY <2>2, <2>3, <2>4
<1>6. CASE StartSever \/ WaitForCount \/ RunPacket \/ UpdateClientErrorList \/ EndSever \/ CountOutput
  <2>1. UNCHANGED <<ClientPackets, pcM, mycount, count>>
    BY <1>6 DEF StartSever, WaitForCount, RunPacket, UpdateClientErrorList, EndSever, CountOutput
  <2> QED
    BY <2>1 DEF NothingWaits
<1>7. CASE Out
  <2>1. UNCHANGED <<ClientPackets, pcM, mycount, count>>
    BY <1>7 DEF Out, TestCount2, WaitForCount2, GetPackets
  <2> QED
    BY <2>1 DEF NothingWaits
<1> QED
  BY <1>1, <1>2, <1>3, <1>4, <1>5, <1>6, <1>7 DEF Next, Main, Sever

LEMMA NothingUnwrittenStep ==
    CountsOK /\ SeverThreadOK /\ NothingUnwritten /\ [Next]_vars => NothingUnwritten'
<1> SUFFICES ASSUME CountsOK, SeverThreadOK, NothingUnwritten, [Next]_vars PROVE NothingUnwritten'
  OBVIOUS
<1> USE DEF SeverKeeps, OutKeeps, mainVars, severVars, outVars
<1>1. CASE UNCHANGED vars
  BY <1>1 DEF vars, NothingUnwritten
<1>2. CASE Read \/ LockInput \/ AddPacket
  BY <1>2 DEF Read, LockInput, AddPacket, NothingUnwritten
<1>3. CASE CountPacket
  <2>1. /\ UNCHANGED <<SeverPackets, severPtr, mycount2, count2, pcO>>
        /\ pcS' = pcS \/ (pcS = "asleep" /\ pcS' = "test")
    BY <1>3 DEF CountPacket
  <2> QED
    BY <2>1 DEF NothingUnwritten
<1>4. CASE StartSever
  BY <1>4 DEF StartSever, SeverThreadOK, NothingUnwritten
<1>5. CASE TestCount \/ WaitForCount
  <2>1. UNCHANGED <<SeverPackets, severPtr, mycount2, count2, pcO>> /\ pcS \notin {"run", "count"}
    BY <1>5 DEF TestCount, WaitForCount
  <2> QED
    BY <2>1 DEF NothingUnwritten
<1>6. CASE RunPacket \/ UpdateClientErrorList
  <2>1. pcS' \in {"run", "count"}
    BY <1>6 DEF RunPacket, UpdateClientErrorList
  <2> QED
    BY <2>1 DEF NothingUnwritten
<1>7. CASE CountOutput
  <2>1. SeverPackets' = SeverPackets /\ mycount2' = mycount2
    BY <1>7 DEF CountOutput
  <2>2. CASE SeverPackets = <<>>
    BY <2>1, <2>2 DEF NothingUnwritten
  <2>3. CASE SeverPackets # <<>>
    <3>1. count2' = count2 + 1
      BY <1>7, <2>3 DEF CountOutput
    <3>2. mycount2' < count2'
      BY <2>1, <3>1 DEF CountsOK
    <3> QED
      BY <3>2 DEF NothingUnwritten
  <2> QED
    BY <2>2, <2>3
<1>8. CASE EndSever
  BY <1>8 DEF EndSever, NothingUnwritten
<1>9. CASE TestCount2
  <2>1. UNCHANGED <<SeverPackets, severPtr, pcS, count2>> /\ pcO = "test" /\ mycount2' = count2
    BY <1>9 DEF TestCount2
  <2>2. CASE count2 = mycount2
    <3>1. ~(mycount2 < count2)
      BY <2>2 DEF CountsOK
    <3> QED
      BY <2>1, <3>1 DEF NothingUnwritten
  <2>3. CASE count2 # mycount2 /\ severPtr
    BY <1>9, <2>3 DEF TestCount2, NothingUnwritten
  <2>4. CASE ~severPtr
    BY <2>1, <2>4 DEF NothingUnwritten
  <2> QED
    BY <2>2, <2>3, <2>4
<1>10. CASE WaitForCount2
  BY <1>10 DEF WaitForCount2, NothingUnwritten
<1>11. CASE GetPackets
  <2>1. UNCHANGED <<severPtr, pcS>>
    BY <1>11 DEF GetPackets
  <2>2. SeverPackets' = <<>> \/ pcS = "run" \/ ~severPtr
    BY <1>11 DEF GetPackets
  <2> QED
    BY <2>1, <2>2 DEF NothingUnwritten
<1> QED
  BY <1>1, <1>2, <1>3, <1>4, <1>5, <1>6, <1>7, <1>8, <1>9, <1>10, <1>11 DEF Next, Main, Sever, Out

LEMMA StepInv == LSPInv /\ [Next]_vars => LSPInv'
<1>1. NothingForgotten <=> NothingWaits /\ NothingUnwritten
  BY DEF NothingForgotten, NothingWaits, NothingUnwritten
<1>2. NothingForgotten' <=> NothingWaits' /\ NothingUnwritten'
  BY DEF NothingForgotten, NothingWaits, NothingUnwritten
<1> QED
  BY <1>1, <1>2, QueuesStep, CountsStep, SeverThreadStep, FramingStep, NothingWaitsStep,
     NothingUnwrittenStep DEF LSPInv

(***************************************************************************)
(* The queues, the counts and the framing keep the invariant that the two  *)
(* theorems below rest on.                                                 *)
(***************************************************************************)
THEOREM Invariance == Spec => []LSPInv
  BY InitInv, StepInv, PTL DEF Spec

(***************************************************************************)
(* Between AddPacket, Step and GetPackets a message that waits for a       *)
(* thread is counted past what that thread has seen, in every              *)
(* interleaving and with every failed try_lock.                            *)
(***************************************************************************)
THEOREM NothingIsForgotten == Spec => []NothingForgotten
<1>1. LSPInv => NothingForgotten
  BY DEF LSPInv
<1> QED
  BY <1>1, Invariance, PTL

-----------------------------------------------------------------------------
(* The session.                                                            *)

LEMMA ReadSends ==
    ASSUME LSPInv, Read
    PROVE  Sends
<1>1. PICK m \in Requests \cup Notifications : MaySend(m) /\ sent' = Append(sent, m) /\ Stream(m)
  BY DEF Read
<1>2. /\ sent \in Seq(Messages) /\ ClientPackets \in Seq(Packets) /\ PacketsToRun \in Seq(Packets)
      /\ m \in Messages /\ Arrives(m) \in Packets /\ Garbage \in Packets
  <2>1. sent \in Seq(Messages) /\ ClientPackets \in Seq(Packets) /\ PacketsToRun \in Seq(Packets)
    BY DEF LSPInv, QueuesOK
  <2> QED
    BY <1>1, <2>1, MessageTypes
<1>3. pcM = "read" /\ Len(sent) < MaxSent
  BY DEF Read
<1>4. UNCHANGED <<session, SeverPackets, terminated, stdout, ClientPackets, PacketsToRun>>
  BY DEF Read, severVars, outVars
<1>7. ToSever' = ToSever \/ ToSever' = Append(ToSever, packet')
  <2>1. ToSever = PacketsToRun \o ClientPackets
    BY <1>2, <1>3 DEF ToSever, InHand
  <2>2. CASE UNCHANGED <<packet, pcM>>
    BY <1>2, <1>3, <1>4, <2>1, <2>2 DEF ToSever, InHand
  <2>3. CASE pcM' = "add"
    <3>1. ToSever' = PacketsToRun \o ClientPackets \o <<packet'>>
      BY <1>4, <2>3 DEF ToSever, InHand
    <3>2. PacketsToRun \o ClientPackets \in Seq(Packets)
      BY <1>2
    <3> QED
      BY <2>1, <3>1, <3>2
  <2> QED
    BY <1>1, <2>2, <2>3 DEF Stream, InStep, Opens, Closes, Cuts, Skips
<1>8. /\ Len(sent) + 1 \in DOMAIN Append(sent, m) /\ Append(sent, m)[Len(sent) + 1] = m
      /\ \A i \in DOMAIN sent : i \in DOMAIN Append(sent, m) /\ Append(sent, m)[i] = sent[i]
  BY <1>2
<1>9. framing # "step" \/ Braces(m) # 0 =>
        \E i \in DOMAIN Append(sent, m) : Braces(Append(sent, m)[i]) # 0
  <2>1. framing # "step" => \E i \in DOMAIN sent : Braces(sent[i]) # 0
    BY DEF LSPInv, FramingOK
  <2> QED
    BY <1>8, <2>1
<1>10. \/ ToSever' = Append(ToSever, Arrives(m))
       \/ /\ \E i \in DOMAIN Append(sent, m) : Braces(Append(sent, m)[i]) # 0
          /\ ToSever' = ToSever \/ ToSever' = Append(ToSever, Garbage)
  <2>1. CASE InStep(m)
    <3>1. pcM' = "add" /\ packet' = Arrives(m)
      BY <2>1 DEF InStep
    <3>2. ToSever' = Append(ToSever, packet')
      <4>1. ToSever' = PacketsToRun \o ClientPackets \o <<packet'>>
        BY <1>4, <3>1 DEF ToSever, InHand
      <4>2. ToSever = PacketsToRun \o ClientPackets
        BY <1>2, <1>3 DEF ToSever, InHand
      <4>3. PacketsToRun \o ClientPackets \in Seq(Packets)
        BY <1>2
      <4> QED
        BY <4>1, <4>2, <4>3
    <3> QED
      BY <3>1, <3>2
  <2>2. CASE ~InStep(m)
    <3>1. framing # "step" \/ Braces(m) # 0
      BY <1>1, <2>2 DEF Stream, InStep, Opens, Closes, Cuts, Skips
    <3>2. UNCHANGED <<packet, pcM>> \/ packet' \in {Arrives(m), Garbage}
      BY <1>1, <2>2 DEF Stream, InStep, Opens, Closes, Cuts, Skips
    <3>3. UNCHANGED <<packet, pcM>> => ToSever' = ToSever
      BY <1>2, <1>3, <1>4 DEF ToSever, InHand
    <3> QED
      BY <1>7, <1>9, <3>1, <3>2, <3>3
  <2> QED
    BY <2>1, <2>2
<1> QED
  BY <1>1, <1>3, <1>4, <1>10 DEF Sends, session

LEMMA RunServes ==
    ASSUME LSPInv, RunPacket
    PROVE  Serves
<1>1. /\ ClientPackets \in Seq(Packets) /\ PacketsToRun \in Seq(Packets) /\ PacketsToRun # <<>>
      /\ InHand \in Seq(Packets)
  BY DEF LSPInv, QueuesOK, RunPacket, InHand
<1>2. ToSever # <<>> /\ Head(ToSever) = Head(PacketsToRun)
  BY <1>1 DEF ToSever
<1>3. Tail(ToSever) = Tail(PacketsToRun) \o ClientPackets \o InHand
  BY <1>1 DEF ToSever
<1>4. ToSever' = Tail(PacketsToRun) \o ClientPackets \o InHand
  BY DEF RunPacket, ToSever, InHand, SeverKeeps, mainVars
<1>5. OnReceivedPacket(Head(ToSever))
  BY <1>2 DEF RunPacket
<1>6. UNCHANGED <<sent, stdout>>
  BY DEF RunPacket, SeverKeeps, mainVars, outVars
<1> QED
  BY <1>2, <1>3, <1>4, <1>5, <1>6 DEF Serves

LEMMA HandedOn ==
    ASSUME LSPInv, LockInput \/ AddPacket \/ CountPacket \/ TestCount
    PROVE  ToSever' = ToSever
<1>1. ClientPackets \in Seq(Packets) /\ PacketsToRun \in Seq(Packets)
  BY DEF LSPInv, QueuesOK
<1>2. CASE LockInput \/ CountPacket
  BY <1>2 DEF LockInput, CountPacket, ToSever, InHand, severVars
<1>3. CASE AddPacket
  <2>1. packet \in Packets /\ pcM = "locked"
    BY <1>3 DEF AddPacket, LSPInv, QueuesOK
  <2>2. ToSever = PacketsToRun \o ClientPackets \o <<packet>>
    BY <2>1 DEF ToSever, InHand
  <2>3. ToSever' = PacketsToRun \o Append(ClientPackets, packet) \o <<>>
    BY <1>3 DEF AddPacket, ToSever, InHand, severVars
  <2> QED
    BY <1>1, <2>1, <2>2, <2>3
<1>4. CASE TestCount
  <2>1. UNCHANGED InHand
    BY <1>4 DEF TestCount, InHand, SeverKeeps, mainVars
  <2>2. PacketsToRun = <<>>
    BY <1>4 DEF TestCount, LSPInv, SeverThreadOK
  <2>3. CASE UNCHANGED <<PacketsToRun, ClientPackets>>
    BY <2>1, <2>3 DEF ToSever
  <2>4. CASE PacketsToRun' = ClientPackets /\ ClientPackets' = <<>>
    <3>1. PacketsToRun \o ClientPackets = ClientPackets /\ PacketsToRun' \o ClientPackets' = ClientPackets
      BY <1>1, <2>2, <2>4
    <3> QED
      BY <2>1, <3>1 DEF ToSever
  <2> QED
    BY <1>4, <2>3, <2>4 DEF TestCount
<1> QED
  BY <1>2, <1>3, <1>4

\* A step of the program is a step of the session, or none.
LEMMA SessionStep ==
    LSPInv /\ [Next]_vars => (Running /\ (Sends \/ Serves \/ Reports \/ Delivers \/ Dies)) \/ Aside
<1> SUFFICES ASSUME LSPInv, [Next]_vars
             PROVE  (Running /\ (Sends \/ Serves \/ Reports \/ Delivers \/ Dies)) \/ Aside
  OBVIOUS
<1> USE DEF SeverKeeps, OutKeeps, mainVars, severVars, outVars, session
<1>1. CASE UNCHANGED vars
  BY <1>1 DEF vars, Aside, ToSever, InHand
<1>2. CASE Read /\ Running
  BY <1>2, ReadSends
<1>3. CASE LockInput /\ Running
  <2>1. ToSever' = ToSever
    BY <1>3, HandedOn
  <2>2. UNCHANGED <<session, SeverPackets, sent, stdout>>
    BY <1>3 DEF LockInput
  <2>3. terminated' = terminated \/ terminated' = "no server"
    BY <1>3 DEF LockInput
  <2> QED
    BY <1>3, <2>1, <2>2, <2>3 DEF Dies, Aside
<1>4. CASE AddPacket \/ CountPacket \/ TestCount
  <2>1. ToSever' = ToSever
    BY <1>4, HandedOn
  <2>2. UNCHANGED <<session, SeverPackets, terminated, sent, stdout>>
    BY <1>4 DEF AddPacket, CountPacket, TestCount
  <2> QED
    BY <2>1, <2>2 DEF Aside
<1>5. CASE StartSever \/ WaitForCount \/ CountOutput \/ EndSever \/ TestCount2 \/ WaitForCount2
  <2>1. UNCHANGED <<session, SeverPackets, terminated, sent, stdout, PacketsToRun, ClientPackets, pcM, packet>>
    BY <1>5 DEF StartSever, WaitForCount, CountOutput, EndSever, TestCount2, WaitForCount2
  <2> QED
    BY <2>1 DEF Aside, ToSever, InHand
<1>6. CASE RunPacket /\ Running
  BY <1>6, RunServes
<1>7. CASE UpdateClientErrorList /\ Running
  <2>1. UNCHANGED <<sent, stdout, PacketsToRun, ClientPackets, pcM, packet>>
    BY <1>7 DEF UpdateClientErrorList
  <2>2. ToSever' = ToSever
    BY <2>1 DEF ToSever, InHand
  <2>3. Refresh /\ SeverPackets' = SeverPackets \o Published(ClientErrors')
    BY <1>7 DEF UpdateClientErrorList
  <2> QED
    BY <1>7, <2>1, <2>2, <2>3 DEF Reports
<1>8. CASE GetPackets /\ Running
  <2>1. UNCHANGED <<session, sent, PacketsToRun, ClientPackets, pcM, packet>>
    BY <1>8 DEF GetPackets
  <2>2. ToSever' = ToSever
    BY <2>1 DEF ToSever, InHand
  <2>3. \/ stdout' = stdout \o SeverPackets /\ SeverPackets' = <<>> /\ UNCHANGED terminated
        \/ UNCHANGED <<stdout, SeverPackets, terminated>>
        \/ terminated' = "freed server" /\ UNCHANGED <<stdout, SeverPackets>>
    BY <1>8 DEF GetPackets
  <2> QED
    BY <1>8, <2>1, <2>2, <2>3 DEF Delivers, Dies, Aside
<1> QED
  BY <1>1, <1>2, <1>3, <1>4, <1>5, <1>6, <1>7, <1>8 DEF Next, Main, Sever, Out

-----------------------------------------------------------------------------
(* The refinement.  A handler of the service is the handler of the server  *)
(* with the definitions of both expanded.                                  *)

LEMMA HandlersAgree ==
    ASSUME NEW m
    PROVE  Service!OnReceivedPacket(m) <=> OnReceivedPacket(m)
<1>1. Service!Open = Open
  BY DEF Service!Open, Open
<1> USE DEF Service!SendPacketToClient, SendPacketToClient, Service!Result, Result,
     Service!ResponseError, ResponseError, Service!session, session
<1>2. /\ Service!Sever_initialize(m) <=> Sever_initialize(m)
      /\ Service!Sever_initialized(m) <=> Sever_initialized(m)
      /\ Service!Sever_Shutdown(m) <=> Sever_Shutdown(m)
      /\ Service!Sever_Exit(m) <=> Sever_Exit(m)
  BY <1>1 DEF Service!Sever_initialize, Sever_initialize, Service!Sever_initialized, Sever_initialized,
     Service!Sever_Shutdown, Sever_Shutdown, Service!Sever_Exit, Sever_Exit
<1>3. Service!textDocument_didOpen(m) <=> textDocument_didOpen(m)
  <2>1. \A t : Service!NewFile(t) = NewFile(t)
    BY DEF Service!NewFile, NewFile
  <2>2. \A S : Service!SetToSeqs(S) = SetToSeqs(S)
    BY DEF Service!SetToSeqs, SetToSeqs, Service!Cardinality, Cardinality
  <2> QED
    BY <1>1, <2>1, <2>2 DEF Service!textDocument_didOpen, textDocument_didOpen
<1>4. Service!textDocument_didClose(m) <=> textDocument_didClose(m)
  BY <1>1 DEF Service!textDocument_didClose, textDocument_didClose, Service!Only, Only
<1>5. Service!textDocument_didChange(m) <=> textDocument_didChange(m)
  BY <1>1 DEF Service!textDocument_didChange, textDocument_didChange
<1>6. Service!textDocument_hover(m) <=> textDocument_hover(m)
  BY <1>1 DEF Service!textDocument_hover, textDocument_hover
<1>7. /\ Service!MethodNotFound(m) <=> MethodNotFound(m)
      /\ Service!Ignored(m) <=> Ignored(m)
      /\ Service!NotJson(m) <=> NotJson(m)
  BY <1>1 DEF Service!MethodNotFound, MethodNotFound, Service!Ignored, Ignored, Service!NotJson, NotJson
<1> QED
  BY <1>2, <1>3, <1>4, <1>5, <1>6, <1>7 DEF Service!OnReceivedPacket, OnReceivedPacket

LEMMA ReportsAgree ==
    /\ Service!Refresh <=> Refresh
    /\ \A l : Service!Published(l) = Published(l)
<1>1. Service!Open = Open
  BY DEF Service!Open, Open
<1>2. Service!UpdateErrorList = UpdateErrorList
  <2>1. Service!Errors = Errors
    BY DEF Service!Errors, Errors
  <2> QED
    BY <2>1 DEF Service!UpdateErrorList, UpdateErrorList, Service!ErrorsOf, ErrorsOf, Service!FlattenSeq, FlattenSeq,
       Service!Only, Only
<1>3. Service!CurrentErrors = CurrentErrors
  BY <1>2 DEF Service!CurrentErrors, CurrentErrors
<1>4. Service!Analyzed = Analyzed
  BY <1>1 DEF Service!Analyzed, Analyzed, Service!AnalyzedParseAndLex, AnalyzedParseAndLex
<1>5. \A l : Service!SortedByName(l) = SortedByName(l)
  <2>1. Service!Error = Error
    BY DEF Service!Error, Error, Service!Errors, Errors
  <2> QED
    BY <2>1 DEF Service!SortedByName, SortedByName, Service!FlattenSeq, FlattenSeq, Service!Only, Only
<1>s. \A l : Service!Sortings(l) = Sortings(l)
  <2>1. \A S, T : Service!Bijection(S, T) = Bijection(S, T)
    BY DEF Service!Bijection, Bijection, Service!Injection, Injection, Service!Surjection, Surjection,
       Service!IsInjective, IsInjective
  <2> QED
    BY <1>5, <2>1 DEF Service!Sortings, Sortings
<1>6. \A f, es : Service!Diagnostics(f, es) = Diagnostics(f, es)
  BY DEF Service!Diagnostics, Diagnostics
<1>7. \A l : Service!Grouped(l) = Grouped(l)
  BY DEF Service!Diagnostics, Diagnostics, Service!AddError, AddError, Service!Grouped, Grouped
<1>8. Service!ErrorsChanged <=> ErrorsChanged
  BY <1>3 DEF Service!ErrorsChanged, ErrorsChanged
<1>9. Service!Refresh <=> Refresh
  BY <1>1, <1>3, <1>4, <1>s, <1>8 DEF Service!Refresh, Refresh
<1>10. \A l : Service!Published(l) = Published(l)
  BY <1>3, <1>6, <1>7, <1>8 DEF Service!Published, Published
<1> QED
  BY <1>9, <1>10

LEMMA InitImplements == Init => Service!ServiceInit
<1> SUFFICES ASSUME Init PROVE Service!ServiceInit
  OBVIOUS
<1>1. Service!SessionInit
  BY DEF Init, SessionInit, Service!SessionInit
<1>2. ToSever = <<>>
  BY DEF Init, ToSever, InHand
<1> QED
  BY <1>1, <1>2 DEF Init, Service!ServiceInit

LEMMA SendImplements == Sends => Service!Send
<1> SUFFICES ASSUME Sends PROVE Service!Send
  OBVIOUS
<1>1. Service!Requests \cup Service!Notifications = Requests \cup Notifications
  BY DEF Service!Requests, Requests, Service!Request, Request, Service!Notifications, Notifications
<1>2. \A m : Service!MaySend(m) <=> MaySend(m)
  BY DEF Service!MaySend, MaySend, Service!Has, Has, Service!Answered, Answered, Service!Result, Result,
     Service!OpenInEditor, OpenInEditor, Service!OpenAfter, OpenAfter,
     Service!Cardinality, Cardinality, Service!Other, Other
<1>3. /\ \A m : Service!Arrives(m) = Arrives(m)
      /\ Service!Garbage = Garbage
      /\ \A n : Service!Braces(n) = Braces(n)
  BY DEF Service!Arrives, Arrives, Service!HasText, HasText, Service!Garbage, Garbage, Service!Braces, Braces
<1>4. \A ms : Service!Disturbed(ms) <=> \E i \in DOMAIN ms : Braces(ms[i]) # 0
  BY <1>3 DEF Service!Disturbed
<1>5. UNCHANGED <<Service!session, SeverPackets, terminated, stdout>>
  BY DEF Sends, Service!session, session
<1> QED
  BY <1>1, <1>2, <1>3, <1>4, <1>5 DEF Sends, Service!Send

LEMMA StepImplements == LSPInv /\ [Next]_vars => [Service!ServiceNext]_(Service!serviceVars)
<1> SUFFICES ASSUME LSPInv, [Next]_vars PROVE [Service!ServiceNext]_(Service!serviceVars)
  OBVIOUS
<1>1. CASE Aside
  BY <1>1 DEF Aside, Service!serviceVars, session, Service!session
<1>2. CASE Running /\ (Sends \/ Serves \/ Reports \/ Delivers \/ Dies)
  <2>1. Sends => Service!Send
    BY SendImplements
  <2>2. Serves => Service!Serve
    BY HandlersAgree DEF Serves, Service!Serve
  <2>3. Reports => Service!Report
    BY ReportsAgree DEF Reports, Service!Report
  <2>4. (Delivers => Service!Deliver) /\ (Dies => Service!Die)
    BY DEF Delivers, Dies, Service!Deliver, Service!Die, session, Service!session
  <2> QED
    BY <1>2, <2>1, <2>2, <2>3, <2>4 DEF Running, Service!ServiceNext
<1> QED
  BY <1>1, <1>2, SessionStep

(***************************************************************************)
(* main.cpp and LSPSever implement LSPService: the three threads and two   *)
(* queues are one server that takes the messages one by one, each once and *)
(* in the order they were sent, and whose answers arrive in the order they *)
(* were made.                                                              *)
(***************************************************************************)
THEOREM ServerImplementsService == Spec => ImplementsLSPService
<1>1. Init => Service!ServiceInit
  BY InitImplements
<1>2. LSPInv /\ [Next]_vars => [Service!ServiceNext]_(Service!serviceVars)
  BY StepImplements
<1> QED
  BY <1>1, <1>2, Invariance, PTL DEF Spec, ImplementsLSPService, Service!ServiceSpec
=============================================================================
