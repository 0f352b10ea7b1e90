------------------------- MODULE TaskManger_proofs -------------------------
(***************************************************************************)
(* TLAPS proofs about TaskManger, for every number of pool threads and     *)
(* every bound on the task ids.                                            *)
(***************************************************************************)
EXTENDS TaskMangerInvariant, SequenceTheorems, FiniteSetTheorems, TLAPS

-----------------------------------------------------------------------------
(* Lists.                                                                  *)

(***************************************************************************)
(* Erasing a slot of a worker's list (ThreadTick) keeps the others, in     *)
(* order.                                                                  *)
(***************************************************************************)
LEMMA RemoveAtProperties ==
    ASSUME NEW S, NEW s \in Seq(S), NEW i \in 1 .. Len(s)
    PROVE  /\ RemoveAt(s, i) \in Seq(S)
           /\ Len(RemoveAt(s, i)) = Len(s) - 1
           /\ \A j \in 1 .. Len(s) - 1 :
                RemoveAt(s, i)[j] = IF j < i THEN s[j] ELSE s[j + 1]
<1> DEFINE a == SubSeq(s, 1, i - 1)
           b == SubSeq(s, i + 1, Len(s))
<1>1. Len(s) \in Nat /\ \A j \in 1 .. Len(s) : s[j] \in S
  OBVIOUS
<1>2. a \in Seq(S) /\ Len(a) = i - 1 /\ \A j \in 1 .. i - 1 : a[j] = s[j]
  BY <1>1, SubSeqProperties
<1>3. b \in Seq(S) /\ Len(b) = Len(s) - i /\ \A j \in 1 .. Len(s) - i : b[j] = s[j + i]
  BY <1>1, SubSeqProperties
<1>4. RemoveAt(s, i) = a \o b
  BY DEF RemoveAt
<1> HIDE DEF a, b
<1>5. /\ a \o b \in Seq(S)
      /\ Len(a \o b) = Len(s) - 1
      /\ \A j \in 1 .. Len(s) - 1 :
           (a \o b)[j] = IF j <= Len(a) THEN a[j] ELSE b[j - Len(a)]
  <2>1. /\ a \o b \in Seq(S)
        /\ Len(a \o b) = Len(a) + Len(b)
        /\ \A j \in 1 .. Len(a) + Len(b) :
             (a \o b)[j] = IF j <= Len(a) THEN a[j] ELSE b[j - Len(a)]
    BY <1>2, <1>3, ConcatProperties
  <2>2. Len(a) + Len(b) = Len(s) - 1
    BY <1>1, <1>2, <1>3
  <2> QED
    BY <2>1, <2>2
<1>6. ASSUME NEW j \in 1 .. Len(s) - 1
      PROVE  (a \o b)[j] = IF j < i THEN s[j] ELSE s[j + 1]
  <2>1. CASE j < i
    BY <1>1, <1>2, <1>5, <2>1
  <2>2. CASE ~(j < i)
    <3>1. j - Len(a) \in 1 .. Len(s) - i /\ ~(j <= Len(a)) /\ j - Len(a) + i = j + 1
      BY <1>1, <1>2, <2>2
    <3> QED
      BY <1>3, <1>5, <2>2, <3>1
  <2> QED
    BY <2>1, <2>2
<1> QED
  BY <1>4, <1>5, <1>6

-----------------------------------------------------------------------------
(* Types.                                                                  *)

LEMMA InitTypeOK == Init => TypeOK
<1> SUFFICES ASSUME Init PROVE TypeOK
  OBVIOUS
<1> USE ThreadsAssumption, MaxTasksAssumption DEF Init, Workers, Task, Main, Frame
<1>1. queue \in [Workers -> Seq(Task)]
  BY EmptySeq
<1>2. tasks \in [Task -> Info]
  BY DEF Info, NoInfo
<1>3. pc \in [Frame -> PC]
  BY DEF PC
<1>4. /\ nextId \in 0 .. MaxTasks /\ nextWorker \in Workers
      /\ owner \in [Task -> Frame] /\ subject \in [Frame -> Frame]
      /\ top \in [Workers -> Frame] /\ below \in [Task -> Frame]
      /\ startedAt \in [Frame -> Nat] /\ clock \in Nat
  OBVIOUS
<1>5. canstart \in BOOLEAN /\ parked \subseteq Workers /\ present \subseteq Task
      /\ handle \subseteq Task
  OBVIOUS
<1> QED
  BY <1>1, <1>2, <1>3, <1>4, <1>5 DEF TypeOK

-----------------------------------------------------------------------------
(* The initial state.                                                      *)

LEMMA InitIInv == Init => IInv
<1> SUFFICES ASSUME Init PROVE IInv
  OBVIOUS
<1> USE ThreadsAssumption, MaxTasksAssumption DEF Init, Workers, Task, Main, Frame
<1>1. TypeOK
  BY InitTypeOK
<1>2. FreshIds /\ FlagsMatch /\ OwnersSound /\ DependenciesRegistered
  BY DEF FreshIds, FlagsMatch, OwnersSound, DependenciesRegistered, Registered, Started,
         NoInfo, OnStack
<1>3. ListsSound /\ NotLost /\ NoLostWakeup
  BY DEF ListsSound, NotLost, NoLostWakeup, Registered
<1>4. AddingSound /\ SubjectsOwned
  BY DEF AddingSound, SubjectsOwned, Waiting
<1>5. StacksSound
  BY DEF StacksSound, OnStack
<1>6. References
  BY DEF References, Registered, NoInfo
<1>7. DependenciesFirst /\ StartOrder
  BY DEF DependenciesFirst, StartOrder, Registered, OnStack, NoInfo
<1> QED
  BY <1>1, <1>2, <1>3, <1>4, <1>5, <1>6, <1>7 DEF IInv

-----------------------------------------------------------------------------
(* The steps of a frame that only moves between the states of a running    *)
(* frame: the stacks stay as they are.                                     *)

LEMMA StacksKept ==
    ASSUME TypeOK, StacksSound, NEW w \in Workers, NEW f \in Frame, Active(w, f),
           NEW x \in OnStack \ {"claimed"}, pc[f] \in OnStack,
           pc' = [pc EXCEPT ![f] = x], top' = top, below' = below
    PROVE  StacksSound'
<1> USE DEF TypeOK, StacksSound, Active, OnStack, PC, Main, Frame, Task
<1>1. \A u \in Task : pc'[u] \in OnStack <=> pc[u] \in OnStack
  OBVIOUS
<1>2. \A u \in Task : pc[u] \in OnStack /\ below[u] \in Task => below[u] # f
  OBVIOUS
<1>3. pc'[Main] \in OnStack \ {"claimed"} /\ (top'[0] # Main => pc'[Main] = "polling")
  OBVIOUS
<1> QED
  BY <1>1, <1>2, <1>3

LEMMA RunStep ==
    ASSUME IInv, NEW w \in Workers, NEW f \in Frame, Run(w, f)
    PROVE  IInv'
<1>1. PICK t \in Owned(f) : tasks' = [tasks EXCEPT ![t].canRun = TRUE]
  BY DEF Run
<1>2. /\ UNCHANGED <<canstart, nextId, nextWorker, queue, parked, present, handle, owner,
                     pc, subject, top, below, startedAt, clock>>
  BY DEF Run, pool, stacks
<1>3. t \in Task /\ t \in handle /\ owner[t] = f
  BY DEF IInv, TypeOK, Owned
<1>4. \A u \in Task :
        /\ tasks'[u].deps = tasks[u].deps /\ tasks'[u].running = tasks[u].running
        /\ tasks'[u].completed = tasks[u].completed
        /\ tasks'[u].hasReturn = tasks[u].hasReturn /\ tasks'[u].refs = tasks[u].refs
        /\ u # t => tasks'[u] = tasks[u]
  BY <1>1, <1>3 DEF IInv, TypeOK, Info
<1>5. TypeOK'
  <2>1. tasks' \in [Task -> Info]
    <3>1. tasks \in [Task -> Info] /\ tasks[t] \in Info
      BY <1>3 DEF IInv, TypeOK
    <3>2. [tasks[t] EXCEPT !.canRun = TRUE] \in Info
      BY <3>1 DEF Info
    <3> QED
      BY <1>1, <3>1, <3>2
  <2> QED
    BY <1>2, <2>1 DEF IInv, TypeOK
<1>6. FreshIds'
  BY <1>2, <1>3, <1>4 DEF IInv, FreshIds, Registered, Started
<1>7. FlagsMatch'
  BY <1>2, <1>4 DEF IInv, FlagsMatch
<1>8. ListsSound' /\ AddingSound' /\ NotLost' /\ StacksSound' /\ SubjectsOwned' /\ OwnersSound'
      /\ NoLostWakeup'
  BY <1>2 DEF IInv, ListsSound, AddingSound, NotLost, StacksSound, SubjectsOwned, OwnersSound,
              NoLostWakeup, Registered, Started, Queued, Waiting, MayAdd
<1>9. References'
  BY <1>2, <1>4 DEF IInv, References, Registered, Held, Adding
<1>10. DependenciesRegistered' /\ DependenciesFirst'
  <2>1. \A u \in Task : tasks[u].deps \subseteq Task
    BY DEF IInv, TypeOK, Info
  <2> QED
    BY <1>2, <1>4, <2>1 DEF IInv, DependenciesRegistered, DependenciesFirst, Registered
<1>11. StartOrder'
  BY <1>2 DEF IInv, StartOrder, Registered, Started
<1> QED
  BY <1>5, <1>6, <1>7, <1>8, <1>9, <1>10, <1>11 DEF IInv

LEMMA WaitForStep ==
    ASSUME IInv, NEW w \in Workers, NEW f \in Frame, WaitFor(w, f)
    PROVE  IInv'
<1>1. PICK t \in Owned(f) : subject' = [subject EXCEPT ![f] = t]
  BY DEF WaitFor
<1>2. /\ pc[f] = "body" /\ Active(w, f) /\ pc' = [pc EXCEPT ![f] = "polling"]
      /\ UNCHANGED <<canstart, nextId, nextWorker, queue, parked, tasks, present, handle, owner,
                     top, below, startedAt, clock>>
  BY DEF WaitFor, pool, infos, stacks
<1>3. t \in Task /\ t \in Frame /\ t \in handle /\ owner[t] = f
  BY DEF IInv, TypeOK, Owned, Task, Frame
<1>4. \A g \in Frame : /\ g # f => pc'[g] = pc[g] /\ subject'[g] = subject[g]
                       /\ pc'[f] = "polling" /\ subject'[f] = t
  BY <1>1, <1>2, <1>3 DEF IInv, TypeOK
<1>5. Task \subseteq Frame
  BY DEF Task, Frame
<1>6. TypeOK'
  BY <1>1, <1>2, <1>3 DEF IInv, TypeOK, PC
<1>7. FreshIds' /\ FlagsMatch' /\ OwnersSound'
  BY <1>2, <1>4, <1>5
  DEF IInv, TypeOK, FreshIds, FlagsMatch, OwnersSound, Registered, Started, OnStack, MayAdd
<1>8. ListsSound' /\ AddingSound' /\ NotLost' /\ NoLostWakeup'
  <2>1. queue \in [Workers -> Seq(Task)] /\ owner \in [Task -> Frame]
    BY DEF IInv, TypeOK
  <2>2. ListsSound' /\ NoLostWakeup'
    BY <1>2, <1>4, <1>5, <2>1 DEF IInv, ListsSound, NoLostWakeup, Registered, Started
  <2>3. \A u \in Task : Queued(u)' <=> Queued(u)
    BY <1>2 DEF Queued
  <2>4. AddingSound' /\ NotLost'
    BY <1>2, <1>4, <1>5, <2>1, <2>3, SMTT(40) DEF IInv, AddingSound, NotLost, Registered, Started
  <2> QED
    BY <2>2, <2>4
<1>9. StacksSound'
  BY <1>2, StacksKept DEF IInv, OnStack
<1>10. SubjectsOwned'
  BY <1>2, <1>3, <1>4 DEF IInv, SubjectsOwned, Waiting
<1>11. References'
  <2>1. \A u \in Task : Adding(u)' = Adding(u)
    BY <1>2, <1>4 DEF Adding
  <2> QED
    BY <1>2, <2>1 DEF IInv, References, Registered, Held
<1>12. DependenciesRegistered' /\ DependenciesFirst' /\ StartOrder'
  BY <1>2, <1>4, <1>5
  DEF IInv, TypeOK, DependenciesRegistered, DependenciesFirst, StartOrder, Registered, Started,
      OnStack
<1> QED
  BY <1>6, <1>7, <1>8, <1>9, <1>10, <1>11, <1>12 DEF IInv

LEMMA PollStep ==
    ASSUME IInv, NEW w \in Workers, NEW f \in Frame, Poll(w, f)
    PROVE  IInv'
<1> DEFINE t == subject[f]
           x == IF tasks[t].hasReturn THEN "body" ELSE "helping"
<1>1. /\ pc[f] = "polling" /\ Active(w, f) /\ pc' = [pc EXCEPT ![f] = x]
      /\ UNCHANGED <<canstart, nextId, nextWorker, queue, parked, present, handle, owner,
                     subject, top, below, startedAt, clock>>
  BY DEF Poll, pool, stacks
<1>2. x \in {"body", "helping"} /\ t = subject[f]
  OBVIOUS
<1> HIDE DEF x, t
<1>0. tasks' = [tasks EXCEPT ![t].canRun = TRUE, ![t].hasReturn = FALSE]
  BY DEF Poll, t
<1>3. t \in Task /\ t \in handle /\ owner[t] = f
  BY <1>1, <1>2 DEF IInv, TypeOK, SubjectsOwned, Waiting
<1>4. \A g \in Frame : (g # f => pc'[g] = pc[g]) /\ pc'[f] = x
  BY <1>1 DEF IInv, TypeOK
<1>5. Task \subseteq Frame
  BY DEF Task, Frame
<1>6. \A u \in Task :
        /\ tasks'[u].deps = tasks[u].deps /\ tasks'[u].running = tasks[u].running
        /\ tasks'[u].completed = tasks[u].completed
        /\ tasks'[u].hasReturn => tasks[u].hasReturn
        /\ tasks'[u].refs = tasks[u].refs
        /\ u # t => tasks'[u] = tasks[u]
  BY <1>0, <1>3 DEF IInv, TypeOK, Info
<1>7. TypeOK'
  <2>1. tasks' \in [Task -> Info]
    <3>1. tasks \in [Task -> Info] /\ tasks[t] \in Info
      BY <1>3 DEF IInv, TypeOK
    <3>2. [tasks[t] EXCEPT !.canRun = TRUE, !.hasReturn = FALSE] \in Info
      BY <3>1 DEF Info
    <3>3. tasks' = [tasks EXCEPT ![t] = [tasks[t] EXCEPT !.canRun = TRUE, !.hasReturn = FALSE]]
      BY <1>0, <1>3, <3>1
    <3> QED
      BY <3>1, <3>2, <3>3
  <2> QED
    BY <1>1, <1>2, <2>1 DEF IInv, TypeOK, PC
<1>8. FreshIds' /\ FlagsMatch' /\ OwnersSound'
  <2>1. FreshIds'
    BY <1>1, <1>3, <1>4, <1>5, <1>6 DEF IInv, FreshIds, Registered, Started
  <2>2. FlagsMatch'
    BY <1>1, <1>2, <1>4, <1>5, <1>6 DEF IInv, FlagsMatch, OnStack
  <2>3. OwnersSound'
    BY <1>1, <1>2, <1>4, <1>5 DEF IInv, TypeOK, OwnersSound, Registered, Started, MayAdd
  <2> QED
    BY <2>1, <2>2, <2>3
<1>9. ListsSound' /\ AddingSound' /\ NotLost' /\ NoLostWakeup'
  <2>1. queue \in [Workers -> Seq(Task)] /\ owner \in [Task -> Frame]
    BY DEF IInv, TypeOK
  <2>2. ListsSound' /\ NoLostWakeup'
    BY <1>1, <1>2, <1>4, <1>5, <2>1 DEF IInv, ListsSound, NoLostWakeup, Registered, Started
  <2>3. \A u \in Task : Queued(u)' <=> Queued(u)
    BY <1>1 DEF Queued
  <2>4. AddingSound' /\ NotLost'
    BY <1>1, <1>2, <1>4, <1>5, <2>1, <2>3 DEF IInv, AddingSound, NotLost, Registered, Started
  <2> QED
    BY <2>2, <2>4
<1>10. StacksSound'
  BY <1>1, <1>2, StacksKept DEF IInv, OnStack
<1>11. SubjectsOwned'
  BY <1>1, <1>2, <1>3, <1>4 DEF IInv, SubjectsOwned, Waiting
<1>12. References'
  <2>1. \A u \in Task : Adding(u)' = Adding(u)
    BY <1>1, <1>2, <1>4 DEF Adding
  <2> QED
    BY <1>1, <1>6, <2>1 DEF IInv, References, Registered, Held
<1>13. DependenciesRegistered' /\ DependenciesFirst'
  <2>1. \A u \in Task : tasks[u].deps \subseteq Task
    BY DEF IInv, TypeOK, Info
  <2> QED
    BY <1>1, <1>2, <1>4, <1>5, <1>6, <2>1
    DEF IInv, DependenciesRegistered, DependenciesFirst, Registered
<1>14. StartOrder'
  BY <1>1, <1>2, <1>4, <1>5
  DEF IInv, TypeOK, StartOrder, Registered, Started, OnStack
<1> QED
  BY <1>7, <1>8, <1>9, <1>10, <1>11, <1>12, <1>13, <1>14 DEF IInv

LEMMA HelpNothingStep ==
    ASSUME IInv, NEW w \in Workers, NEW f \in Frame, HelpNothing(w, f)
    PROVE  IInv'
<1>1. /\ pc[f] = "helping" /\ Active(w, f) /\ pc' = [pc EXCEPT ![f] = "polling"]
      /\ UNCHANGED <<canstart, nextId, nextWorker, queue, parked, tasks, present, handle, owner,
                     subject, top, below, startedAt, clock>>
  BY DEF HelpNothing, pool, infos, stacks
<1>2. \A g \in Frame : (g # f => pc'[g] = pc[g]) /\ pc'[f] = "polling"
  BY <1>1 DEF IInv, TypeOK
<1>3. Task \subseteq Frame
  BY DEF Task, Frame
<1>4. TypeOK'
  BY <1>1 DEF IInv, TypeOK, PC
<1>5. FreshIds' /\ FlagsMatch' /\ OwnersSound'
  BY <1>1, <1>2, <1>3
  DEF IInv, TypeOK, FreshIds, FlagsMatch, OwnersSound, Registered, Started, OnStack, MayAdd
<1>6. ListsSound' /\ AddingSound' /\ NotLost' /\ NoLostWakeup'
  <2>1. queue \in [Workers -> Seq(Task)] /\ owner \in [Task -> Frame]
    BY DEF IInv, TypeOK
  <2>2. ListsSound' /\ NoLostWakeup'
    BY <1>1, <1>2, <1>3, <2>1 DEF IInv, ListsSound, NoLostWakeup, Registered, Started
  <2>3. \A u \in Task : Queued(u)' <=> Queued(u)
    BY <1>1 DEF Queued
  <2>4. AddingSound' /\ NotLost'
    BY <1>1, <1>2, <1>3, <2>1, <2>3 DEF IInv, AddingSound, NotLost, Registered, Started
  <2> QED
    BY <2>2, <2>4
<1>7. StacksSound'
  BY <1>1, StacksKept DEF IInv, OnStack
<1>8. SubjectsOwned'
  BY <1>1, <1>2 DEF IInv, SubjectsOwned, Waiting
<1>9. References'
  <2>1. \A u \in Task : Adding(u)' = Adding(u)
    BY <1>1, <1>2 DEF Adding
  <2> QED
    BY <1>1, <2>1 DEF IInv, References, Registered, Held
<1>10. DependenciesRegistered' /\ DependenciesFirst' /\ StartOrder'
  BY <1>1, <1>2, <1>3
  DEF IInv, TypeOK, DependenciesRegistered, DependenciesFirst, StartOrder, Registered, Started,
      OnStack
<1> QED
  BY <1>4, <1>5, <1>6, <1>7, <1>8, <1>9, <1>10 DEF IInv

LEMMA InitMangerStep ==
    ASSUME IInv, InitManger
    PROVE  IInv'
<1>1. canstart' = TRUE
      /\ UNCHANGED <<nextId, nextWorker, queue, parked, tasks, present, handle, owner, pc,
                     subject, top, below, startedAt, clock>>
  BY DEF InitManger, infos, stacks
<1>2. TypeOK' /\ NoLostWakeup'
  BY <1>1 DEF IInv, TypeOK, NoLostWakeup
<1>3. /\ FreshIds' /\ FlagsMatch' /\ ListsSound' /\ AddingSound' /\ NotLost' /\ StacksSound'
      /\ SubjectsOwned' /\ OwnersSound' /\ References' /\ DependenciesRegistered'
      /\ DependenciesFirst' /\ StartOrder'
  BY <1>1
  DEF IInv, FreshIds, FlagsMatch, ListsSound, AddingSound, NotLost, StacksSound,
      SubjectsOwned, OwnersSound, References, DependenciesRegistered, DependenciesFirst,
      StartOrder, Registered, Started, Queued, Waiting, Held, Adding, MayAdd
<1> QED
  BY <1>2, <1>3 DEF IInv

LEMMA ParkStep ==
    ASSUME IInv, NEW w \in Workers, Park(w)
    PROVE  IInv'
<1>1. /\ queue[w] = << >> /\ parked' = parked \cup {w}
      /\ UNCHANGED <<canstart, nextId, nextWorker, queue, tasks, present, handle, owner, pc,
                     subject, top, below, startedAt, clock>>
  BY DEF Park, infos, stacks
<1>2. TypeOK' /\ NoLostWakeup'
  BY <1>1 DEF IInv, TypeOK, NoLostWakeup
<1>3. /\ FreshIds' /\ FlagsMatch' /\ ListsSound' /\ AddingSound' /\ NotLost' /\ StacksSound'
      /\ SubjectsOwned' /\ OwnersSound' /\ References' /\ DependenciesRegistered'
      /\ DependenciesFirst' /\ StartOrder'
  BY <1>1
  DEF IInv, FreshIds, FlagsMatch, ListsSound, AddingSound, NotLost, StacksSound,
      SubjectsOwned, OwnersSound, References, DependenciesRegistered, DependenciesFirst,
      StartOrder, Registered, Started, Queued, Waiting, Held, Adding, MayAdd
<1> QED
  BY <1>2, <1>3 DEF IInv

LEMMA StutterStep ==
    ASSUME IInv, UNCHANGED vars
    PROVE  IInv'
<1>1. UNCHANGED <<canstart, nextId, nextWorker, queue, parked, tasks, present, handle, owner, pc,
                  subject, top, below, startedAt, clock>>
  BY DEF vars, pool, infos, stacks
<1>2. TypeOK' /\ NoLostWakeup'
  BY <1>1 DEF IInv, TypeOK, NoLostWakeup
<1>3. /\ FreshIds' /\ FlagsMatch' /\ ListsSound' /\ AddingSound' /\ NotLost' /\ StacksSound'
      /\ SubjectsOwned' /\ OwnersSound' /\ References' /\ DependenciesRegistered'
      /\ DependenciesFirst' /\ StartOrder'
  BY <1>1
  DEF IInv, FreshIds, FlagsMatch, ListsSound, AddingSound, NotLost, StacksSound,
      SubjectsOwned, OwnersSound, References, DependenciesRegistered, DependenciesFirst,
      StartOrder, Registered, Started, Queued, Waiting, Held, Adding, MayAdd
<1> QED
  BY <1>2, <1>3 DEF IInv

LEMMA DropHandleStep ==
    ASSUME IInv, NEW w \in Workers, NEW f \in Frame, DropHandle(w, f)
    PROVE  IInv'
<1>1. PICK t \in Owned(f) :
        /\ tasks' = [tasks EXCEPT ![t].refs = Release(t).refs]
        /\ present' = Release(t).keep
        /\ handle' = handle \ {t}
  BY DEF DropHandle
<1>2. /\ pc[f] = "body" /\ Active(w, f)
      /\ UNCHANGED <<canstart, nextId, nextWorker, queue, parked, owner, pc, subject, top, below,
                     startedAt, clock>>
  BY DEF DropHandle, pool, stacks
<1>3. t \in Task /\ t \in handle /\ owner[t] = f /\ Registered(t)
  BY DEF IInv, TypeOK, Owned, FreshIds
<1>4. \A g \in Frame : pc[g] = "adding" => subject[g] # t
  BY <1>3 DEF IInv, AddingSound
<1>5. tasks[t].refs = 1 + (IF tasks[t].completed THEN 0 ELSE 1)
  BY <1>3 DEF IInv, References, Held
<1>6. \A u \in Task :
        /\ tasks'[u].deps = tasks[u].deps /\ tasks'[u].running = tasks[u].running
        /\ tasks'[u].completed = tasks[u].completed
        /\ tasks'[u].hasReturn = tasks[u].hasReturn
        /\ u # t => tasks'[u] = tasks[u]
        /\ tasks'[t].refs = tasks[t].refs - 1
  BY <1>1, <1>3 DEF IInv, TypeOK, Info, Release
<1>7. present' = IF tasks[t].refs = 1 THEN present \ {t} ELSE present
  BY <1>1, <1>5 DEF Release
<1>8. TypeOK'
  <2>1. tasks' \in [Task -> Info]
    <3>1. tasks \in [Task -> Info] /\ tasks[t] \in Info
      BY <1>3 DEF IInv, TypeOK
    <3>2. [tasks[t] EXCEPT !.refs = tasks[t].refs - 1] \in Info
      BY <1>5, <3>1 DEF Info
    <3>3. tasks' = [tasks EXCEPT ![t] = [tasks[t] EXCEPT !.refs = tasks[t].refs - 1]]
      BY <1>1, <1>3, <3>1 DEF Release
    <3> QED
      BY <3>1, <3>2, <3>3
  <2>2. present' \subseteq Task /\ handle' \subseteq Task
    BY <1>1, <1>7 DEF IInv, TypeOK
  <2> QED
    BY <1>2, <2>1, <2>2 DEF IInv, TypeOK
<1>9. FreshIds'
  BY <1>1, <1>2, <1>3, <1>6 DEF IInv, FreshIds, Registered, Started
<1>10. FlagsMatch'
  BY <1>2, <1>6 DEF IInv, FlagsMatch
<1>11. ListsSound' /\ NotLost' /\ StacksSound' /\ OwnersSound' /\ NoLostWakeup' /\ StartOrder'
  BY <1>2
  DEF IInv, ListsSound, NotLost, StacksSound, OwnersSound, NoLostWakeup, StartOrder,
      Registered, Started, Queued, MayAdd
<1>12. AddingSound'
  BY <1>1, <1>2 DEF IInv, AddingSound, Registered, Started, Queued
<1>13. SubjectsOwned'
  BY <1>1, <1>2, <1>3 DEF IInv, SubjectsOwned, Waiting
<1>14. References'
  <2>1. \A u \in Task : Adding(u)' = Adding(u)
    BY <1>2 DEF Adding
  <2>2. Adding(t) = {}
    BY <1>4 DEF Adding
  <2>3. \A u \in Task : u # t => (Held(u)' <=> Held(u))
    BY <1>1, <2>1 DEF Held
  <2>4. ~Held(t)'
    BY <1>1, <1>3, <2>1, <2>2 DEF Held
  <2>5. present' = {u \in Task : tasks'[u].refs > 0}
    BY <1>3, <1>5, <1>6, <1>7 DEF IInv, References
  <2>6. ASSUME NEW u \in Task, Registered(u)'
        PROVE  tasks'[u].refs = (IF Held(u)' THEN 1 ELSE 0)
                                + (IF tasks'[u].completed THEN 0 ELSE 1)
    <3>1. CASE u = t
      BY <1>5, <1>6, <2>4, <3>1
    <3>2. CASE u # t
      BY <1>2, <1>6, <2>3, <2>6, <3>2 DEF IInv, References, Registered
    <3> QED
      BY <3>1, <3>2
  <2> QED
    BY <2>5, <2>6 DEF References
<1>15. DependenciesRegistered' /\ DependenciesFirst'
  <2>1. \A u \in Task : tasks[u].deps \subseteq Task
    BY DEF IInv, TypeOK, Info
  <2> QED
    BY <1>2, <1>6, <2>1 DEF IInv, DependenciesRegistered, DependenciesFirst, Registered
<1> QED
  BY <1>8, <1>9, <1>10, <1>11, <1>12, <1>13, <1>14, <1>15 DEF IInv

LEMMA AddTaskRegisterStep ==
    ASSUME IInv, NEW w \in Workers, NEW f \in Frame, AddTaskRegister(w, f)
    PROVE  IInv'
<1>0. PICK id \in Task : id = nextId + 1
  BY DEF AddTaskRegister
<1>1. /\ pc[f] = "body" /\ Active(w, f) /\ MayAdd(f) /\ id \in Task
      /\ nextId' = id /\ present' = present \cup {id}
      /\ owner' = [owner EXCEPT ![id] = f] /\ pc' = [pc EXCEPT ![f] = "adding"]
      /\ subject' = [subject EXCEPT ![f] = id]
      /\ UNCHANGED <<canstart, nextWorker, queue, parked, handle, top, below, startedAt, clock>>
  BY <1>0 DEF AddTaskRegister, stacks
<1>2. PICK D \in SUBSET Owned(f) : tasks' = [tasks EXCEPT ![id] = FreshInfo(D)]
  BY <1>0 DEF AddTaskRegister
<1>3. nextId \in Nat /\ id = nextId + 1
  BY <1>0, MaxTasksAssumption DEF IInv, TypeOK
<1>4. ~Registered(id) /\ tasks[id] = NoInfo /\ ~Started(id) /\ id \notin handle /\ id # f
  BY <1>1, <1>3 DEF IInv, FreshIds, Registered, Started, Task
<1>5. \A u \in Task : /\ Registered(u) => u # id
                      /\ Registered(u)' <=> (Registered(u) \/ u = id)
  BY <1>1, <1>3 DEF Registered, Task
<1>6. D \subseteq Task /\ \A d \in D : Registered(d) /\ d < id
  BY <1>3 DEF IInv, TypeOK, Owned, FreshIds, Registered, Task
<1>7. /\ tasks'[id] = [deps |-> D, canRun |-> FALSE, running |-> FALSE, completed |-> FALSE,
                       hasReturn |-> FALSE, refs |-> 2]
      /\ \A u \in Task : u # id => tasks'[u] = tasks[u]
  BY <1>1, <1>2 DEF IInv, TypeOK, FreshInfo, NoInfo
<1>8. /\ \A g \in Frame : g # f => pc'[g] = pc[g] /\ subject'[g] = subject[g]
      /\ pc'[f] = "adding" /\ subject'[f] = id
      /\ \A u \in Task : u # id => owner'[u] = owner[u]
      /\ owner'[id] = f
  BY <1>1 DEF IInv, TypeOK, Task, Frame
<1>9. Task \subseteq Frame
  BY DEF Task, Frame
<1>10. TypeOK'
  <2>1. tasks' \in [Task -> Info]
    <3>1. [deps |-> D, canRun |-> FALSE, running |-> FALSE, completed |-> FALSE,
           hasReturn |-> FALSE, refs |-> 2] \in Info
      BY <1>6 DEF Info
    <3>2. tasks \in [Task -> Info]
      BY DEF IInv, TypeOK
    <3>3. FreshInfo(D) \in Info
      BY <1>1, <1>2, <1>7, <3>1, <3>2
    <3> QED
      BY <1>1, <1>2, <3>2, <3>3
  <2> QED
    BY <1>1, <1>9, <2>1, SMTT(40) DEF IInv, TypeOK, PC, Task
<1>11. FreshIds'
  BY <1>1, <1>4, <1>5, <1>7, <1>8, <1>9 DEF IInv, FreshIds, Started
<1>12. FlagsMatch'
  <2>1. \A u \in Task : u # f => pc'[u] = pc[u]
    BY <1>8, <1>9
  <2> QED
    BY <1>1, <1>4, <1>7, <1>8, <2>1 DEF IInv, FlagsMatch, OnStack, Started
<1>13. ListsSound' /\ NoLostWakeup'
  <2>1. queue \in [Workers -> Seq(Task)]
    BY DEF IInv, TypeOK
  <2> QED
    BY <1>1, <1>5, <1>8, <1>9, <2>1 DEF IInv, ListsSound, NoLostWakeup, Started
<1>14. \A u \in Task : Queued(u)' <=> Queued(u)
  BY <1>1 DEF Queued
<1>15. ~Queued(id)
  BY <1>1, <1>4 DEF IInv, ListsSound, Queued
<1>16. AddingSound'
  <2>1. ASSUME NEW g \in Frame, pc'[g] = "adding", g # f
        PROVE  /\ subject[g] \in Task /\ Registered(subject[g]) /\ ~Started(subject[g])
               /\ owner[subject[g]] = g
               /\ subject[g] \notin handle /\ ~Queued(subject[g])
    BY <1>8, <2>1 DEF IInv, AddingSound
  <2> QED
    BY <1>1, <1>4, <1>5, <1>8, <1>9, <1>14, <1>15, <2>1 DEF AddingSound, Started
<1>17. NotLost'
  <2>1. owner \in [Task -> Frame]
    BY DEF IInv, TypeOK
  <2> QED
    BY <1>1, <1>5, <1>8, <1>9, <1>14, <2>1 DEF IInv, NotLost, Started
<1>18. StacksSound'
  BY <1>1, StacksKept DEF IInv, OnStack
<1>19. SubjectsOwned'
  BY <1>1, <1>4, <1>8 DEF IInv, TypeOK, SubjectsOwned, Waiting
<1>20. OwnersSound'
  BY <1>1, <1>5, <1>8, <1>9 DEF IInv, TypeOK, OwnersSound, Started, MayAdd
<1>21. References'
  <2>1. \A u \in Task : u # id => Adding(u)' = Adding(u)
    BY <1>1, <1>8 DEF Adding
  <2>2. f \in Adding(id)'
    BY <1>8 DEF Adding
  <2>3. present' = {u \in Task : tasks'[u].refs > 0}
    BY <1>1, <1>7 DEF IInv, References
  <2>4. \A u \in Task : u # id => (Held(u)' <=> Held(u))
    BY <1>1, <2>1 DEF Held
  <2>5. Held(id)'
    BY <2>2 DEF Held
  <2>6. ASSUME NEW u \in Task, Registered(u)'
        PROVE  tasks'[u].refs = (IF Held(u)' THEN 1 ELSE 0)
                                + (IF tasks'[u].completed THEN 0 ELSE 1)
    <3>1. CASE u = id
      BY <1>7, <2>5, <3>1
    <3>2. CASE u # id
      BY <1>5, <1>7, <2>4, <2>6, <3>2 DEF IInv, References
    <3> QED
      BY <3>1, <3>2
  <2> QED
    BY <2>3, <2>6 DEF References
<1>22. DependenciesRegistered' /\ DependenciesFirst'
  <2>1. \A u \in Task : tasks[u].deps \subseteq Task
    BY DEF IInv, TypeOK, Info
  <2>2. \A u \in Task : pc'[u] # "new" => pc[u] # "new" /\ u # id
    BY <1>1, <1>4, <1>8, <1>9 DEF Started
  <2> QED
    BY <1>5, <1>6, <1>7, <2>1, <2>2 DEF IInv, DependenciesRegistered, DependenciesFirst
<1>23. StartOrder'
  BY <1>1, <1>4, <1>5, <1>8, <1>9, SMTT(40) DEF IInv, TypeOK, StartOrder, Started, OnStack
<1> QED
  BY <1>10, <1>11, <1>12, <1>13, <1>16, <1>17, <1>18, <1>19, <1>20, <1>21, <1>22, <1>23 DEF IInv

LEMMA AddTaskEnqueueStep ==
    ASSUME IInv, NEW w \in Workers, NEW f \in Frame, AddTaskEnqueue(w, f)
    PROVE  IInv'
<1>2. PICK t \in Frame, n \in Workers : t = subject[f] /\ n = nextWorker
  BY DEF IInv, TypeOK
<1>1. /\ pc[f] = "adding" /\ Active(w, f)
      /\ queue' = [queue EXCEPT ![n] = Append(@, t)]
      /\ nextWorker' = AfterWorker(n)
      /\ parked' = parked \ {n}
      /\ handle' = handle \cup {t}
      /\ pc' = [pc EXCEPT ![f] = "body"]
      /\ UNCHANGED <<canstart, nextId, tasks, present, owner, subject, top, below, startedAt,
                     clock>>
  BY <1>2 DEF AddTaskEnqueue, stacks
<1>3. /\ t \in Task /\ Registered(t) /\ ~Started(t) /\ owner[t] = f /\ t \notin handle
      /\ ~Queued(t)
  BY <1>1, <1>2 DEF IInv, AddingSound
<1>4. \A g \in Frame : (g # f => pc'[g] = pc[g]) /\ pc'[f] = "body"
  BY <1>1 DEF IInv, TypeOK
<1>5. Task \subseteq Frame
  BY DEF Task, Frame
<1>6. queue \in [Workers -> Seq(Task)] /\ n \in Workers /\ queue[n] \in Seq(Task)
  BY <1>2 DEF IInv, TypeOK
<1>7. /\ queue' \in [Workers -> Seq(Task)]
      /\ \A v \in Workers : v # n => queue'[v] = queue[v]
      /\ DOMAIN queue'[n] = DOMAIN queue[n] \cup {Len(queue[n]) + 1}
      /\ \A i \in DOMAIN queue[n] : queue'[n][i] = queue[n][i]
      /\ queue'[n][Len(queue[n]) + 1] = t
      /\ Len(queue[n]) + 1 \notin DOMAIN queue[n]
  BY <1>1, <1>3, <1>6
<1>8. TypeOK'
  <2>1. AfterWorker(n) \in Workers
    BY <1>6, ThreadsAssumption DEF AfterWorker, Workers
  <2> QED
    BY <1>1, <1>3, <1>7, <2>1 DEF IInv, TypeOK, PC
<1>9. FreshIds' /\ FlagsMatch' /\ OwnersSound'
  BY <1>1, <1>3, <1>4, <1>5, SMTT(40)
  DEF IInv, TypeOK, FreshIds, FlagsMatch, OwnersSound, Registered, Started, OnStack, MayAdd
<1>10. \A u \in Task : Queued(u)' <=> (Queued(u) \/ u = t)
  BY <1>6, <1>7, ZenonT(60) DEF Queued
<1>11. ListsSound'
  <2>1. \A v \in Workers : \A i \in DOMAIN queue'[v] :
           (v = n /\ i = Len(queue[n]) + 1 /\ queue'[v][i] = t)
           \/ (i \in DOMAIN queue[v] /\ queue'[v][i] = queue[v][i] /\ queue[v][i] # t)
    BY <1>3, <1>6, <1>7 DEF Queued
  <2>2. \A v \in Workers : \A i \in DOMAIN queue[v] : queue[v][i] \in Task
    BY <1>6
  <2>3. \A v \in Workers : \A i \in DOMAIN queue'[v] :
           queue'[v][i] <= nextId' /\ pc'[queue'[v][i]] = "new"
    BY <1>1, <1>3, <1>4, <1>5, <2>1, <2>2 DEF IInv, ListsSound, Registered, Started
  <2>4. \A w1, w2 \in Workers : \A i \in DOMAIN queue'[w1], j \in DOMAIN queue'[w2] :
           queue'[w1][i] = queue'[w2][j] => w1 = w2 /\ i = j
    BY <2>1 DEF IInv, ListsSound
  <2> QED
    BY <2>3, <2>4 DEF ListsSound, Registered, Started
<1>12. AddingSound'
  BY <1>1, <1>3, <1>4, <1>5, <1>10 DEF IInv, AddingSound, Registered, Started
<1>13. NotLost'
  <2>1. owner \in [Task -> Frame]
    BY DEF IInv, TypeOK
  <2> QED
    BY <1>1, <1>2, <1>4, <1>5, <1>10, <2>1 DEF IInv, NotLost, Registered, Started
<1>14. StacksSound'
  BY <1>1, StacksKept DEF IInv, OnStack
<1>15. SubjectsOwned'
  BY <1>1, <1>4 DEF IInv, SubjectsOwned, Waiting
<1>16. References'
  <2>1. \A u \in Task : u # t => Adding(u)' = Adding(u)
    BY <1>1, <1>2, <1>4 DEF Adding
  <2>2. f \in Adding(t)
    BY <1>1, <1>2 DEF Adding
  <2>3. \A u \in Task : Held(u)' <=> Held(u)
    BY <1>1, <2>1, <2>2 DEF Held
  <2> QED
    BY <1>1, <2>3 DEF IInv, References, Registered
<1>17. DependenciesRegistered' /\ DependenciesFirst' /\ StartOrder'
  BY <1>1, <1>4, <1>5
  DEF IInv, TypeOK, DependenciesRegistered, DependenciesFirst, StartOrder, Registered, Started,
      OnStack
<1>18. NoLostWakeup'
  BY <1>1, <1>6, <1>7 DEF IInv, TypeOK, NoLostWakeup
<1> QED
  BY <1>8, <1>9, <1>11, <1>12, <1>13, <1>14, <1>15, <1>16, <1>17, <1>18 DEF IInv

-----------------------------------------------------------------------------
(* The steps that change a stack.                                          *)

(***************************************************************************)
(* What both callers of ThreadTick do when it finds a task: the task's     *)
(* frame goes on top of the stack, and a frame that was helping is now     *)
(* below it and will poll when it gets back.                               *)
(***************************************************************************)
LEMMA PickStep ==
    ASSUME IInv, NEW w \in Workers, Tick(w),
           UNCHANGED <<canstart, nextId, nextWorker, parked, infos, subject>>,
           pc' \in [Frame -> PC], pc'[top'[w]] = "claimed",
           \A g \in Frame : g # top'[w] /\ g # top[w] => pc'[g] = pc[g],
           IF top[w] \in Task \/ w = 0
             THEN pc[top[w]] = "helping" /\ pc'[top[w]] = "polling"
             ELSE pc'[Main] = pc[Main]
    PROVE  IInv'
<1>1. PICK i \in DOMAIN queue[w] :
        /\ FirstEligible(w, i)
        /\ queue' = [queue EXCEPT ![w] = RemoveAt(@, i)]
        /\ top' = [top EXCEPT ![w] = queue[w][i]]
        /\ below' = [below EXCEPT ![queue[w][i]] = top[w]]
        /\ clock' = clock + 1
        /\ startedAt' = [startedAt EXCEPT ![queue[w][i]] = clock + 1]
  BY DEF Tick
<1>2. PICK t \in Task : t = queue[w][i]
  BY DEF IInv, TypeOK
<1>3. PICK p \in Frame : p = top[w]
  BY DEF IInv, TypeOK
<1>4. UNCHANGED <<canstart, nextId, nextWorker, parked, tasks, present, handle, owner, subject>>
  BY DEF infos
<1>5. Registered(t) /\ ~Started(t) /\ Queued(t) /\ Eligible(t)
  BY <1>1, <1>2 DEF IInv, ListsSound, Queued, FirstEligible
<1>6. Task \subseteq Frame /\ Main \in Frame /\ Main \notin Task /\ Frame = Task \cup {Main}
  BY MaxTasksAssumption DEF Task, Frame, Main
<1>7. /\ top'[w] = t /\ \A v \in Workers : v # w => top'[v] = top[v]
      /\ below'[t] = p /\ \A u \in Task : u # t => below'[u] = below[u]
      /\ clock \in Nat /\ clock' = clock + 1 /\ startedAt'[t] = clock + 1
      /\ \A g \in Frame : g # t => startedAt'[g] = startedAt[g]
  BY <1>1, <1>2, <1>3, <1>6 DEF IInv, TypeOK
<1>8. pc[t] = "new" /\ p # t /\ pc'[t] = "claimed"
  BY <1>3, <1>5, <1>7 DEF IInv, StacksSound, Started, OnStack
<1>9. \A g \in Frame : g # t => pc'[g] = pc[g]
                                \/ (g = p /\ pc[g] = "helping" /\ pc'[g] = "polling")
  BY <1>3, <1>6, <1>7
<1>10. p \in Task => pc[p] = "helping" /\ pc'[p] = "polling"
  BY <1>3
<1>11. \A u \in Task : (pc'[u] \in OnStack <=> pc[u] \in OnStack \/ u = t)
                       /\ (pc'[u] # "new" <=> pc[u] # "new" \/ u = t)
  BY <1>6, <1>8, <1>9 DEF OnStack
<1>12. /\ queue[w] \in Seq(Task) /\ i \in 1 .. Len(queue[w])
       /\ queue'[w] \in Seq(Task)
       /\ Len(queue'[w]) = Len(queue[w]) - 1
       /\ DOMAIN queue'[w] = 1 .. Len(queue[w]) - 1
       /\ \A j \in 1 .. Len(queue[w]) - 1 :
            queue'[w][j] = IF j < i THEN queue[w][j] ELSE queue[w][j + 1]
       /\ \A v \in Workers : v # w => queue'[v] = queue[v]
  <2>1. queue[w] \in Seq(Task) /\ i \in 1 .. Len(queue[w])
    <3>1. queue \in [Workers -> Seq(Task)]
      BY DEF IInv, TypeOK
    <3> QED
      BY <3>1
  <2>2. queue'[w] = RemoveAt(queue[w], i) /\ \A v \in Workers : v # w => queue'[v] = queue[v]
    BY <1>1 DEF IInv, TypeOK
  <2>3. /\ RemoveAt(queue[w], i) \in Seq(Task)
        /\ Len(RemoveAt(queue[w], i)) = Len(queue[w]) - 1
        /\ \A j \in 1 .. Len(queue[w]) - 1 :
             RemoveAt(queue[w], i)[j] = IF j < i THEN queue[w][j] ELSE queue[w][j + 1]
    BY <2>1, RemoveAtProperties
  <2> HIDE DEF RemoveAt
  <2>4. DOMAIN queue'[w] = 1 .. Len(queue[w]) - 1
    BY <2>2, <2>3
  <2> QED
    BY <2>1, <2>2, <2>3, <2>4
<1>13. TypeOK'
  <2>1. queue' \in [Workers -> Seq(Task)]
    BY <1>1, <1>12 DEF IInv, TypeOK
  <2>2. top' \in [Workers -> Frame] /\ below' \in [Task -> Frame]
    BY <1>1, <1>2, <1>6 DEF IInv, TypeOK
  <2>3. startedAt' \in [Frame -> Nat] /\ clock' \in Nat
    BY <1>1, <1>2, <1>6 DEF IInv, TypeOK
  <2> QED
    BY <1>4, <2>1, <2>2, <2>3 DEF IInv, TypeOK
<1>14. FreshIds' /\ SubjectsOwned'
  BY <1>4, <1>5, <1>6, <1>8, <1>9, <1>11
  DEF IInv, FreshIds, SubjectsOwned, Registered, Started, Waiting
<1>15. FlagsMatch'
  <2>1. \A u \in Task : u # t =>
          /\ pc'[u] = "returned" <=> pc[u] = "returned"
          /\ pc'[u] \in OnStack \ {"claimed"} <=> pc[u] \in OnStack \ {"claimed"}
    BY <1>6, <1>9 DEF OnStack
  <2> QED
    BY <1>4, <1>8, <2>1 DEF IInv, FlagsMatch, OnStack
<1>16. ASSUME NEW v \in Workers, NEW j \in DOMAIN queue'[v]
       PROVE  \E k \in DOMAIN queue[v] :
                /\ queue'[v][j] = queue[v][k] /\ (v = w => k # i)
                /\ k = IF v = w /\ j >= i THEN j + 1 ELSE j
  <2>1. CASE v = w
    <3>1. j \in 1 .. Len(queue[w]) - 1 /\ Len(queue[w]) \in Nat
      BY <1>12, <2>1
    <3> DEFINE k == IF j < i THEN j ELSE j + 1
    <3>2. k \in DOMAIN queue[w] /\ k # i /\ queue'[w][j] = queue[w][k]
      <4>1. DOMAIN queue[w] = 1 .. Len(queue[w]) /\ i \in 1 .. Len(queue[w])
        BY <1>12
      <4>2. k \in 1 .. Len(queue[w]) /\ k # i
        BY <3>1, <4>1
      <4>3. queue'[w][j] = IF j < i THEN queue[w][j] ELSE queue[w][j + 1]
        BY <1>12, <3>1
      <4> QED
        BY <4>1, <4>2, <4>3
    <3>3. k = IF j >= i THEN j + 1 ELSE j
      BY <1>12, <3>1
    <3> QED
      BY <2>1, <3>2, <3>3
  <2>2. CASE v # w
    BY <1>12, <2>2
  <2> QED
    BY <2>1, <2>2
<1>17. \A v \in Workers : \A j \in DOMAIN queue'[v] :
         queue'[v][j] # t /\ \E k \in DOMAIN queue[v] : queue'[v][j] = queue[v][k]
  BY <1>2, <1>16 DEF IInv, ListsSound
<1>18. \A u \in Task : Queued(u)' <=> Queued(u) /\ u # t
  <2>1. ASSUME NEW u \in Task, Queued(u), u # t
        PROVE  Queued(u)'
    <3>1. PICK v \in Workers : \E k \in DOMAIN queue[v] : queue[v][k] = u
      BY <2>1 DEF Queued
    <3>4. PICK k \in DOMAIN queue[v] : queue[v][k] = u
      BY <3>1
    <3>2. CASE v # w
      BY <1>12, <3>4, <3>2 DEF Queued
    <3>3. CASE v = w
      <4>1. k \in 1 .. Len(queue[w]) /\ k # i /\ Len(queue[w]) \in Nat
        BY <1>2, <1>12, <2>1, <3>4, <3>3
      <4> DEFINE j == IF k < i THEN k ELSE k - 1
      <4>2. j \in 1 .. Len(queue[w]) - 1 /\ (IF j < i THEN j ELSE j + 1) = k
        BY <1>12, <4>1
      <4>3. j \in DOMAIN queue'[w] /\ queue'[w][j] = u
        BY <1>12, <3>4, <3>3, <4>2
      <4> QED
        BY <4>3 DEF Queued
    <3> QED
      BY <3>2, <3>3
  <2>2. \A u \in Task : Queued(u)' => Queued(u) /\ u # t
    BY <1>17 DEF Queued
  <2> QED
    BY <2>1, <2>2
<1>19. ListsSound'
  <2>1. \A v \in Workers : \A j \in DOMAIN queue'[v] :
          queue'[v][j] <= nextId' /\ pc'[queue'[v][j]] = "new"
    <3>1. \A v \in Workers : \A k \in DOMAIN queue[v] : queue[v][k] \in Task
      BY DEF IInv, TypeOK
    <3> QED
      BY <1>4, <1>11, <1>17, <3>1 DEF IInv, ListsSound, Registered, Started
  <2>2. ASSUME NEW w1 \in Workers, NEW w2 \in Workers,
               NEW j1 \in DOMAIN queue'[w1], NEW j2 \in DOMAIN queue'[w2],
               queue'[w1][j1] = queue'[w2][j2]
        PROVE  w1 = w2 /\ j1 = j2
    <3>1. PICK k1 \in DOMAIN queue[w1] :
             /\ queue'[w1][j1] = queue[w1][k1]
             /\ k1 = IF w1 = w /\ j1 >= i THEN j1 + 1 ELSE j1
      BY <1>16
    <3>2. PICK k2 \in DOMAIN queue[w2] :
             /\ queue'[w2][j2] = queue[w2][k2]
             /\ k2 = IF w2 = w /\ j2 >= i THEN j2 + 1 ELSE j2
      BY <1>16
    <3>3. w1 = w2 /\ k1 = k2
      <4>1. queue[w1][k1] = queue[w2][k2]
        BY <2>2, <3>1, <3>2
      <4> QED
        BY <4>1 DEF IInv, ListsSound
    <3>4. j1 \in Nat /\ j2 \in Nat /\ i \in Nat
      <4>1. queue'[w1] \in Seq(Task) /\ queue'[w2] \in Seq(Task)
        BY <1>13 DEF TypeOK
      <4> QED
        BY <1>12, <4>1
    <3> QED
      BY <3>1, <3>2, <3>3, <3>4
  <2> QED
    BY <2>1, <2>2 DEF ListsSound, Registered, Started
<1>20. AddingSound'
  <2>1. \A g \in Frame : pc'[g] = "adding" => pc[g] = "adding"
    BY <1>8, <1>9
  <2> QED
    BY <1>4, <1>5, <1>11, <1>18, <2>1 DEF IInv, AddingSound, Registered, Started
<1>21. NotLost'
  <2>1. \A g \in Frame : pc[g] = "adding" => pc'[g] = "adding"
    BY <1>8, <1>9
  <2>2. owner \in [Task -> Frame]
    BY DEF IInv, TypeOK
  <2> QED
    BY <1>4, <1>8, <1>11, <1>18, <2>1, <2>2 DEF IInv, NotLost, Registered, Started
<1>22. StacksSound'
  <2> USE <1>6, <1>7, <1>8 DEF IInv
  <2>1. \A v \in Workers : top[v] # t
    BY DEF StacksSound, OnStack
  <2>2. \A u \in Task : pc[u] \in OnStack => below[u] # t /\ (p \in Task => below[u] # p)
    BY <1>3 DEF StacksSound
  <2>3. \A v \in Workers : top'[v] \in Task => pc'[top'[v]] \in OnStack
    BY <1>11, <2>1 DEF StacksSound
  <2>4. \A u \in Task : pc'[u] \in OnStack /\ below'[u] \in Task =>
          pc'[below'[u]] = "polling" /\ \A v \in Workers : top'[v] # below'[u]
    <3>1. \A v \in Workers : p \in Task => top'[v] # p
      BY <1>3 DEF StacksSound
    <3>2. ASSUME NEW u \in Task, u # t, pc'[u] \in OnStack, below'[u] \in Task
          PROVE  pc'[below'[u]] = "polling" /\ \A v \in Workers : top'[v] # below'[u]
      <4>1. pc[u] \in OnStack /\ below'[u] = below[u] /\ below[u] # t
        BY <1>11, <2>2, <3>2
      <4>2. pc[below[u]] = "polling" /\ \A v \in Workers : top[v] # below[u]
        BY <3>2, <4>1 DEF StacksSound
      <4> QED
        BY <1>9, <3>2, <4>1, <4>2
    <3> QED
      BY <1>10, <3>1, <3>2
  <2>5. \A w1, w2 \in Workers : top'[w1] = top'[w2] /\ top'[w1] \in Task => w1 = w2
    BY <2>1 DEF StacksSound
  <2>6. \A u1, u2 \in Task :
          pc'[u1] \in OnStack /\ pc'[u2] \in OnStack /\ below'[u1] = below'[u2]
             /\ below'[u1] \in Task => u1 = u2
    BY <1>11, <2>2 DEF StacksSound
  <2>7. \A u \in Task : pc'[u] \in OnStack =>
          \/ \E v \in Workers : top'[v] = u
          \/ \E x \in Task : pc'[x] \in OnStack /\ below'[x] = u
    <3>1. ASSUME NEW u \in Task, u # t, pc'[u] \in OnStack
          PROVE  \/ \E v \in Workers : top'[v] = u
                 \/ \E x \in Task : pc'[x] \in OnStack /\ below'[x] = u
      <4>1. pc[u] \in OnStack
        BY <1>11, <3>1
      <4>2. CASE \E v \in Workers : top[v] = u
        BY <1>3, <1>11, <4>2
      <4>3. CASE \E x \in Task : pc[x] \in OnStack /\ below[x] = u
        <5>1. PICK x \in Task : pc[x] \in OnStack /\ below[x] = u
          BY <4>3
        <5> QED
          BY <1>11, <5>1 DEF OnStack
      <4> QED
        BY <4>1, <4>2, <4>3 DEF StacksSound
    <3> QED
      BY <3>1
  <2>8. pc'[Main] \in OnStack \ {"claimed"}
    BY <1>9 DEF StacksSound, OnStack
  <2>9. top'[0] # Main => pc'[Main] = "polling"
    <3>1. 0 \in Workers
      BY ThreadsAssumption DEF Workers
    <3>2. CASE w = 0
      BY <1>3, <1>9, <3>1, <3>2 DEF StacksSound
    <3>3. CASE w # 0
      BY <1>9, <3>1, <3>3 DEF StacksSound
    <3> QED
      BY <3>2, <3>3
  <2> QED
    BY <2>3, <2>4, <2>5, <2>6, <2>7, <2>8, <2>9 DEF StacksSound
<1>23. OwnersSound'
  <2>1. \A g \in Frame : pc[g] # "new" => pc'[g] # "new"
    BY <1>8, <1>9
  <2> QED
    BY <1>4, <2>1 DEF IInv, TypeOK, OwnersSound, Registered, Started, MayAdd
<1>24. References'
  <2>1. \A g \in Frame : pc'[g] = "adding" <=> pc[g] = "adding"
    BY <1>8, <1>9
  <2>2. \A u \in Task : Adding(u)' = Adding(u)
    BY <1>4, <2>1 DEF Adding
  <2> QED
    BY <1>4, <2>2 DEF IInv, References, Registered, Held
<1>25. DependenciesRegistered' /\ DependenciesFirst'
  <2>1. \A u \in Task : tasks[u].deps \subseteq Task
    BY DEF IInv, TypeOK, Info
  <2>2. \A d \in tasks[t].deps : tasks[d].completed
    <3>1. \A d \in tasks[t].deps : d \in Task /\ Registered(d)
      BY <2>1 DEF IInv, DependenciesRegistered
    <3>2. \A d \in tasks[t].deps : d \notin present => tasks[d].completed
      BY <3>1 DEF IInv, References
    <3> QED
      BY <1>5, <3>2 DEF Eligible
  <2> QED
    BY <1>4, <1>11, <2>1, <2>2 DEF IInv, DependenciesRegistered, DependenciesFirst, Registered
<1>26. StartOrder'
  <2> USE DEF IInv
  <2>1. startedAt \in [Frame -> Nat] /\ owner \in [Task -> Frame] /\ below \in [Task -> Frame]
    BY DEF TypeOK
  <2>2. \A g \in Frame : startedAt'[g] <= clock'
    BY <1>6, <1>7, <2>1 DEF StartOrder
  <2>3. \A u \in Task : Registered(u) => owner[u] # t
    BY <1>8 DEF OwnersSound, Started
  <2>4. \A u \in Task : Registered(u) /\ pc'[u] # "new" => startedAt'[owner[u]] < startedAt'[u]
    <3>1. startedAt'[owner[t]] < startedAt'[t]
      BY <1>5, <1>6, <1>7, <2>1, <2>3 DEF StartOrder
    <3>2. \A u \in Task : u # t /\ Registered(u) /\ pc'[u] # "new"
             => startedAt'[owner[u]] < startedAt'[u]
      BY <1>6, <1>7, <1>11, <2>1, <2>3 DEF StartOrder, Started
    <3> QED
      BY <3>1, <3>2
  <2>5. \A u \in Task : pc'[u] \in OnStack => startedAt'[below'[u]] < startedAt'[u]
    <3>1. startedAt'[p] < startedAt'[t]
      BY <1>6, <1>7, <1>8, <2>1 DEF StartOrder
    <3>2. \A u \in Task : pc[u] \in OnStack => below[u] # t
      BY <1>8 DEF StacksSound
    <3> QED
      BY <1>6, <1>7, <1>11, <2>1, <3>1, <3>2 DEF StartOrder
  <2> QED
    BY <1>4, <2>2, <2>4, <2>5 DEF StartOrder, Registered, Started
<1>27. NoLostWakeup'
  <2>1. queue[w] # << >>
    BY <1>12
  <2> QED
    BY <1>4, <1>12, <2>1 DEF IInv, TypeOK, NoLostWakeup
<1> QED
  BY <1>13, <1>14, <1>15, <1>19, <1>20, <1>21, <1>22, <1>23, <1>24, <1>25, <1>26, <1>27 DEF IInv

LEMMA HelpPickStep ==
    ASSUME IInv, NEW w \in Workers, NEW f \in Frame, HelpPick(w, f)
    PROVE  IInv'
<1>1. /\ Active(w, f) /\ pc[f] = "helping" /\ Tick(w)
      /\ pc' = [pc EXCEPT ![f] = "polling", ![top'[w]] = "claimed"]
      /\ UNCHANGED <<canstart, nextId, nextWorker, parked, infos, subject>>
  BY DEF HelpPick
<1>2. top[w] = f /\ (f = Main => w = 0)
  BY <1>1 DEF Active
<1>3. top'[w] \in Task /\ ~Started(top'[w])
  <2>1. PICK i \in DOMAIN queue[w] : top' = [top EXCEPT ![w] = queue[w][i]]
    BY <1>1 DEF Tick
  <2>2. queue[w][i] \in Task /\ ~Started(queue[w][i])
    BY <2>1 DEF IInv, TypeOK, ListsSound
  <2> QED
    BY <2>1, <2>2 DEF IInv, TypeOK
<1>4. Task \subseteq Frame /\ top'[w] # f
  BY <1>1, <1>3 DEF Task, Frame, Started
<1>5. /\ pc' \in [Frame -> PC] /\ pc'[top'[w]] = "claimed" /\ pc'[f] = "polling"
      /\ \A g \in Frame : g # top'[w] /\ g # f => pc'[g] = pc[g]
  BY <1>1, <1>3, <1>4 DEF IInv, TypeOK, PC
<1>6. top[w] \in Task \/ w = 0
  BY <1>2 DEF Task, Frame, Main
<1> QED
  BY <1>1, <1>2, <1>5, <1>6, PickStep

LEMMA WorkerPickStep ==
    ASSUME IInv, NEW w \in Workers, WorkerPick(w)
    PROVE  IInv'
<1>1. /\ w # 0 /\ top[w] = 0 /\ Tick(w)
      /\ pc' = [pc EXCEPT ![top'[w]] = "claimed"]
      /\ UNCHANGED <<canstart, nextId, nextWorker, parked, infos, subject>>
  BY DEF WorkerPick
<1>2. top'[w] \in Task /\ ~Started(top'[w])
  <2>1. PICK i \in DOMAIN queue[w] : top' = [top EXCEPT ![w] = queue[w][i]]
    BY <1>1 DEF Tick
  <2>2. queue[w][i] \in Task /\ ~Started(queue[w][i])
    BY <2>1 DEF IInv, TypeOK, ListsSound
  <2> QED
    BY <2>1, <2>2 DEF IInv, TypeOK
<1>3. Task \subseteq Frame /\ Main \in Frame /\ Main \notin Task /\ 0 \notin Task
  BY MaxTasksAssumption DEF Task, Frame, Main
<1>4. /\ pc' \in [Frame -> PC] /\ pc'[top'[w]] = "claimed" /\ pc'[Main] = pc[Main]
      /\ \A g \in Frame : g # top'[w] => pc'[g] = pc[g]
  BY <1>1, <1>2, <1>3 DEF IInv, TypeOK, PC
<1>5. ~(top[w] \in Task \/ w = 0)
  BY <1>1, <1>3
<1> QED
  BY <1>1, <1>4, <1>5, PickStep

LEMMA StartStep ==
    ASSUME IInv, NEW w \in Workers, NEW f \in Frame, Start(w, f)
    PROVE  IInv'
<1>1. Active(w, f) /\ pc[f] = "claimed"
  BY DEF Start
<1>2. f \in Task
  BY <1>1 DEF IInv, StacksSound, Task, Frame, Main, OnStack
<1>3. ~tasks[f].running
  BY <1>1, <1>2 DEF IInv, FlagsMatch, OnStack
<1>4. /\ pc' = [pc EXCEPT ![f] = "body"] /\ top' = top
      /\ tasks' = [tasks EXCEPT ![f].running = TRUE]
  BY <1>1, <1>3 DEF Start, IInv, TypeOK
<1>5. UNCHANGED <<canstart, nextId, nextWorker, queue, parked, present, handle, owner, subject,
                  below, startedAt, clock>>
  BY DEF Start, pool
<1>6. \A g \in Frame : (g # f => pc'[g] = pc[g]) /\ pc'[f] = "body"
  BY <1>4 DEF IInv, TypeOK
<1>7. Task \subseteq Frame
  BY DEF Task, Frame
<1>8. /\ \A u \in Task : u # f => tasks'[u] = tasks[u]
      /\ \A u \in Task :
           /\ tasks'[u].deps = tasks[u].deps /\ tasks'[u].completed = tasks[u].completed
           /\ tasks'[u].hasReturn = tasks[u].hasReturn /\ tasks'[u].refs = tasks[u].refs
      /\ tasks'[f].running = TRUE
  BY <1>2, <1>4 DEF IInv, TypeOK, Info
<1> HIDE DEF Start
<1>9. TypeOK'
  <2>1. tasks' \in [Task -> Info]
    <3>1. tasks \in [Task -> Info] /\ tasks[f] \in Info
      BY <1>2 DEF IInv, TypeOK
    <3>2. [tasks[f] EXCEPT !.running = TRUE] \in Info
      BY <3>1 DEF Info
    <3> QED
      BY <1>4, <3>1, <3>2
  <2>2. pc' \in [Frame -> PC]
    BY <1>4 DEF IInv, TypeOK, PC
  <2>3. top' \in [Workers -> Frame]
    BY <1>4 DEF IInv, TypeOK
  <2> QED
    BY <1>5, <2>1, <2>2, <2>3 DEF IInv, TypeOK
<1>10. FreshIds' /\ OwnersSound'
  <2>1. FreshIds'
    BY <1>1, <1>2, <1>5, <1>6, <1>7, <1>8 DEF IInv, FreshIds, Registered, Started
  <2>2. OwnersSound'
    BY <1>5, <1>6 DEF IInv, TypeOK, OwnersSound, Registered, Started, MayAdd
  <2> QED
    BY <2>1, <2>2
<1>11. FlagsMatch'
  <2>1. \A u \in Task : u # f => pc'[u] = pc[u] /\ tasks'[u] = tasks[u]
    BY <1>6, <1>7, <1>8
  <2>2. tasks'[f].completed = tasks[f].completed /\ tasks'[f].hasReturn = tasks[f].hasReturn
        /\ tasks'[f].running = TRUE /\ pc'[f] = "body"
    BY <1>2, <1>6, <1>8
  <2>3. ~tasks[f].completed /\ ~tasks[f].hasReturn
    BY <1>1, <1>2 DEF IInv, FlagsMatch
  <2>4. \A u \in Task : u # f =>
        /\ tasks'[u].completed <=> pc'[u] = "returned"
        /\ tasks'[u].running <=> pc'[u] \in OnStack \ {"claimed"}
        /\ tasks'[u].hasReturn => tasks'[u].completed
    BY <2>1 DEF IInv, FlagsMatch
  <2>5. /\ tasks'[f].completed <=> pc'[f] = "returned"
        /\ tasks'[f].running <=> pc'[f] \in OnStack \ {"claimed"}
        /\ tasks'[f].hasReturn => tasks'[f].completed
    BY <2>2, <2>3 DEF OnStack
  <2> QED
    BY <2>4, <2>5 DEF FlagsMatch
<1>12. ListsSound' /\ AddingSound' /\ NotLost' /\ NoLostWakeup'
  <2>1. queue \in [Workers -> Seq(Task)] /\ owner \in [Task -> Frame]
    BY DEF IInv, TypeOK
  <2>2. ListsSound' /\ NoLostWakeup'
    BY <1>1, <1>5, <1>6, <1>7, <2>1, SMTT(40) DEF IInv, ListsSound, NoLostWakeup, Registered, Started
  <2>3. \A u \in Task : Queued(u)' <=> Queued(u)
    BY <1>5 DEF Queued
  <2>4. AddingSound' /\ NotLost'
    BY <1>1, <1>5, <1>6, <1>7, <2>1, <2>3 DEF IInv, AddingSound, NotLost, Registered, Started
  <2> QED
    BY <2>2, <2>4
<1>13. StacksSound'
  BY <1>1, <1>4, <1>5, StacksKept DEF IInv, OnStack
<1>14. SubjectsOwned'
  BY <1>5, <1>6 DEF IInv, SubjectsOwned, Waiting
<1>15. References'
  <2>1. \A u \in Task : Adding(u)' = Adding(u)
    BY <1>1, <1>5, <1>6 DEF Adding
  <2> QED
    BY <1>5, <1>8, <2>1 DEF IInv, References, Registered, Held
<1>16. DependenciesRegistered' /\ DependenciesFirst'
  <2>1. \A u \in Task : tasks[u].deps \subseteq Task
    BY DEF IInv, TypeOK, Info
  <2> QED
    BY <1>1, <1>5, <1>6, <1>7, <1>8, <2>1
    DEF IInv, DependenciesRegistered, DependenciesFirst, Registered
<1>17. StartOrder'
  BY <1>1, <1>5, <1>6, <1>7 DEF IInv, TypeOK, StartOrder, Registered, Started, OnStack
<1> QED
  BY <1>9, <1>10, <1>11, <1>12, <1>13, <1>14, <1>15, <1>16, <1>17 DEF IInv

LEMMA FinishStep ==
    ASSUME IInv, NEW w \in Workers, NEW f \in Frame, Finish(w, f)
    PROVE  IInv'
<1>1. /\ top[w] = f /\ f # Main /\ pc[f] = "body"
      /\ present' = Release(f).keep
      /\ pc' = [pc EXCEPT ![f] = "returned"]
      /\ top' = [top EXCEPT ![w] = below[f]]
      /\ UNCHANGED <<canstart, nextId, nextWorker, queue, parked, handle, owner, subject, below,
                     startedAt, clock>>
  BY DEF Finish, pool, Active
<1>2. tasks' = [tasks EXCEPT ![f].completed = TRUE, ![f].running = FALSE,
                             ![f].hasReturn = TRUE, ![f].refs = Release(f).refs]
  BY DEF Finish
<1>3. f \in Task /\ Registered(f) /\ Started(f)
  BY <1>1 DEF IInv, FreshIds, Started, Task, Frame, Main
<1>4. ~tasks[f].completed /\ tasks[f].refs = (IF Held(f) THEN 1 ELSE 0) + 1
  BY <1>1, <1>3 DEF IInv, FlagsMatch, References
<1>19. tasks[f].refs \in {1, 2} /\ tasks[f].refs - 1 \in 0 .. 2
  BY <1>4
<1>5. Task \subseteq Frame
  BY DEF Task, Frame
<1>6. \A g \in Frame : (g # f => pc'[g] = pc[g]) /\ pc'[f] = "returned"
  BY <1>1 DEF IInv, TypeOK
<1>7. /\ \A u \in Task : u # f => tasks'[u] = tasks[u]
      /\ tasks'[f] = [tasks[f] EXCEPT !.completed = TRUE, !.running = FALSE,
                                      !.hasReturn = TRUE, !.refs = tasks[f].refs - 1]
  BY <1>2, <1>3 DEF IInv, TypeOK, Release
<1>8. /\ tasks'[f].deps = tasks[f].deps /\ tasks'[f].completed = TRUE
      /\ tasks'[f].running = FALSE /\ tasks'[f].hasReturn = TRUE
      /\ tasks'[f].refs = tasks[f].refs - 1
  BY <1>3, <1>7 DEF IInv, TypeOK, Info
<1>9. present' = IF tasks[f].refs = 1 THEN present \ {f} ELSE present
  BY <1>1, <1>4 DEF Release
<1>10. TypeOK'
  <2>1. tasks' \in [Task -> Info]
    <3>1. tasks \in [Task -> Info] /\ tasks[f] \in Info
      BY <1>3 DEF IInv, TypeOK
    <3>2. tasks'[f] \in Info
      <4>1. tasks'[f] = [deps |-> tasks[f].deps, canRun |-> tasks[f].canRun, running |-> FALSE,
                         completed |-> TRUE, hasReturn |-> TRUE, refs |-> tasks[f].refs - 1]
        BY <1>7, <3>1 DEF Info
      <4>2. tasks[f].deps \in SUBSET Task /\ tasks[f].canRun \in BOOLEAN
        BY <3>1 DEF Info
      <4> QED
        BY <1>19, <4>1, <4>2 DEF Info
    <3>3. tasks' = [tasks EXCEPT ![f] = tasks'[f]]
      BY <1>2, <1>3, <3>1
    <3> QED
      BY <3>1, <3>2, <3>3
  <2>2. present' \subseteq Task
    BY <1>9 DEF IInv, TypeOK
  <2>3. pc' \in [Frame -> PC] /\ top' \in [Workers -> Frame]
    BY <1>1, <1>3 DEF IInv, TypeOK, PC
  <2> QED
    BY <1>1, <2>1, <2>2, <2>3 DEF IInv, TypeOK
<1>11. FreshIds' /\ OwnersSound'
  BY <1>1, <1>3, <1>5, <1>6, <1>7
  DEF IInv, TypeOK, FreshIds, OwnersSound, Registered, Started, MayAdd
<1>12. FlagsMatch'
  <2>1. \A u \in Task : u # f => pc'[u] = pc[u] /\ tasks'[u] = tasks[u]
    BY <1>5, <1>6, <1>7
  <2> QED
    BY <1>3, <1>6, <1>8, <2>1 DEF IInv, FlagsMatch, OnStack
<1>13. ListsSound' /\ AddingSound' /\ NotLost' /\ NoLostWakeup'
  <2>1. queue \in [Workers -> Seq(Task)] /\ owner \in [Task -> Frame]
    BY DEF IInv, TypeOK
  <2>2. ListsSound' /\ NoLostWakeup'
    BY <1>1, <1>3, <1>5, <1>6, <2>1 DEF IInv, ListsSound, NoLostWakeup, Registered, Started
  <2>3. \A u \in Task : Queued(u)' <=> Queued(u)
    BY <1>1 DEF Queued
  <2>4. AddingSound' /\ NotLost'
    BY <1>1, <1>3, <1>5, <1>6, <2>1, <2>3 DEF IInv, AddingSound, NotLost, Registered, Started
  <2> QED
    BY <2>2, <2>4
<1>14. StacksSound'
  <2> USE <1>1, <1>3, <1>5, <1>6 DEF IInv
  <2>1. \A u \in Task : (pc'[u] \in OnStack <=> pc[u] \in OnStack /\ u # f)
    BY DEF OnStack
  <2>2. /\ top'[w] = below[f] /\ \A v \in Workers : v # w => top'[v] = top[v] /\ top[v] # f
        /\ pc[f] \in OnStack
    BY DEF TypeOK, StacksSound, OnStack
  <2>3. \A u \in Task : pc[u] \in OnStack => below[u] # f
    BY DEF StacksSound
  <2>4. below[f] \in Task => pc[below[f]] = "polling" /\ \A v \in Workers : top[v] # below[f]
    BY <2>2 DEF StacksSound
  <2>5. \A v \in Workers : top'[v] \in Task => pc'[top'[v]] \in OnStack
    <3>1. top'[w] \in Task => pc'[top'[w]] \in OnStack
      BY <2>2, <2>3, <2>4 DEF OnStack
    <3>2. \A v \in Workers : v # w /\ top'[v] \in Task => pc'[top'[v]] \in OnStack
      BY <2>1, <2>2 DEF StacksSound
    <3> QED
      BY <3>1, <3>2
  <2>6. \A u \in Task : pc'[u] \in OnStack /\ below[u] \in Task =>
          pc'[below[u]] = "polling" /\ \A v \in Workers : top'[v] # below[u]
    <3>1. ASSUME NEW u \in Task, pc'[u] \in OnStack, below[u] \in Task
          PROVE  pc'[below[u]] = "polling" /\ \A v \in Workers : top'[v] # below[u]
      <4>1. pc[u] \in OnStack /\ u # f /\ below[u] # f
        BY <2>1, <2>3, <3>1
      <4>2. pc[below[u]] = "polling" /\ \A v \in Workers : top[v] # below[u]
        BY <3>1, <4>1 DEF StacksSound
      <4>3. below[u] # below[f]
        BY <2>2, <3>1, <4>1 DEF StacksSound
      <4> QED
        BY <2>2, <3>1, <4>1, <4>2, <4>3
    <3> QED
      BY <3>1
  <2>7. \A w1, w2 \in Workers : top'[w1] = top'[w2] /\ top'[w1] \in Task => w1 = w2
    BY <2>2, <2>4 DEF StacksSound
  <2>8. \A u1, u2 \in Task :
          pc'[u1] \in OnStack /\ pc'[u2] \in OnStack /\ below[u1] = below[u2]
             /\ below[u1] \in Task => u1 = u2
    BY <2>1 DEF StacksSound
  <2>9. \A u \in Task : pc'[u] \in OnStack =>
          \/ \E v \in Workers : top'[v] = u
          \/ \E x \in Task : pc'[x] \in OnStack /\ below[x] = u
    <3>1. ASSUME NEW u \in Task, pc'[u] \in OnStack
          PROVE  \/ \E v \in Workers : top'[v] = u
                 \/ \E x \in Task : pc'[x] \in OnStack /\ below[x] = u
      <4>1. pc[u] \in OnStack /\ u # f
        BY <2>1, <3>1
      <4>2. CASE \E v \in Workers : top[v] = u
        BY <2>2, <4>1, <4>2
      <4>3. CASE \E x \in Task : pc[x] \in OnStack /\ below[x] = u
        BY <2>1, <2>2, <4>3
      <4> QED
        BY <4>1, <4>2, <4>3 DEF StacksSound
    <3> QED
      BY <3>1
  <2>10. pc'[Main] \in OnStack \ {"claimed"}
    BY MaxTasksAssumption DEF StacksSound, Main, Frame, Task
  <2>11. top'[0] # Main => pc'[Main] = "polling"
    <3>1. 0 \in Workers /\ Main \in Frame
      BY ThreadsAssumption, MaxTasksAssumption DEF Workers, Main, Frame
    <3> QED
      BY <2>2, <3>1 DEF StacksSound
  <2> QED
    BY <2>5, <2>6, <2>7, <2>8, <2>9, <2>10, <2>11 DEF StacksSound
<1>15. SubjectsOwned'
  BY <1>1, <1>6 DEF IInv, SubjectsOwned, Waiting
<1>16. References'
  <2>1. \A u \in Task : Adding(u)' = Adding(u)
    BY <1>1, <1>6 DEF Adding
  <2>2. \A u \in Task : Held(u)' <=> Held(u)
    BY <1>1, <2>1 DEF Held
  <2>3. present' = {u \in Task : tasks'[u].refs > 0}
    <3>1. present = {u \in Task : tasks[u].refs > 0}
      BY DEF IInv, References
    <3>2. f \in present' <=> tasks'[f].refs > 0
      BY <1>3, <1>8, <1>9, <1>19, <3>1
    <3>3. \A u \in Task : u # f => (u \in present' <=> u \in present)
      BY <1>9
    <3>4. present' \subseteq Task
      BY <1>9, <3>1
    <3> QED
      BY <1>7, <3>1, <3>2, <3>3, <3>4
  <2>4. ASSUME NEW u \in Task, Registered(u)'
        PROVE  tasks'[u].refs = (IF Held(u)' THEN 1 ELSE 0)
                                + (IF tasks'[u].completed THEN 0 ELSE 1)
    <3>1. CASE u = f
      BY <1>3, <1>4, <1>8, <2>2, <3>1
    <3>2. CASE u # f
      BY <1>1, <1>7, <2>2, <2>4, <3>2 DEF IInv, References, Registered
    <3> QED
      BY <3>1, <3>2
  <2> QED
    BY <2>3, <2>4 DEF References
<1>17. DependenciesRegistered' /\ DependenciesFirst'
  <2>1. \A u \in Task : tasks[u].deps \subseteq Task
    BY DEF IInv, TypeOK, Info
  <2>2. \A u \in Task : /\ tasks'[u].deps = tasks[u].deps
                        /\ tasks[u].completed => tasks'[u].completed
                        /\ pc'[u] # "new" => pc[u] # "new"
    BY <1>1, <1>5, <1>6, <1>7, <1>8
  <2> QED
    BY <1>1, <2>1, <2>2 DEF IInv, DependenciesRegistered, DependenciesFirst, Registered
<1>18. StartOrder'
  BY <1>1, <1>5, <1>6 DEF IInv, TypeOK, StartOrder, Registered, Started, OnStack
<1> QED
  BY <1>10, <1>11, <1>12, <1>13, <1>14, <1>15, <1>16, <1>17, <1>18 DEF IInv

-----------------------------------------------------------------------------
(* The invariant, and what it implies.                                     *)

(***************************************************************************)
(* The invariant is inductive.                                             *)
(***************************************************************************)
LEMMA IInvStep == IInv /\ [Next]_vars => IInv'
<1> SUFFICES ASSUME IInv, [Next]_vars PROVE IInv'
  OBVIOUS
<1>1. CASE InitManger
  BY <1>1, InitMangerStep
<1>2. CASE UNCHANGED vars
  BY <1>2, StutterStep
<1>3. ASSUME NEW w \in Workers, NEW f \in Frame, FrameStep(w, f)
      PROVE  IInv'
  BY <1>3, AddTaskRegisterStep, AddTaskEnqueueStep, RunStep, DropHandleStep, WaitForStep,
     PollStep, HelpPickStep, HelpNothingStep, StartStep, FinishStep DEF FrameStep
<1>4. ASSUME NEW w \in Workers, WorkerPick(w) \/ Park(w)
      PROVE  IInv'
  BY <1>4, WorkerPickStep, ParkStep
<1> QED
  BY <1>1, <1>2, <1>3, <1>4 DEF Next, Step

(***************************************************************************)
(* Every reachable state satisfies the inductive invariant.                *)
(***************************************************************************)
THEOREM InvariantHolds == Spec => []IInv
<1> QED
  BY InitIInv, IInvStep, PTL DEF Spec

(***************************************************************************)
(* Types: among them, that a reference count (a size_t) is never           *)
(* decremented below zero.                                                 *)
(***************************************************************************)
THEOREM TypesCorrect == Spec => []TypeOK
<1>1. IInv => TypeOK
  BY DEF IInv
<1> QED
  BY InvariantHolds, <1>1, PTL

(***************************************************************************)
(* Reference counts are exact: a task's info is in the map as long as its  *)
(* handle or its execution may look it up, and no longer.                  *)
(***************************************************************************)
THEOREM ReferencesExact == Spec => []References
<1>1. IInv => References
  BY DEF IInv
<1> QED
  BY InvariantHolds, <1>1, PTL

(***************************************************************************)
(* No task starts before everything it depends on has completed.           *)
(***************************************************************************)
THEOREM DependenciesRespected == Spec => []DependenciesFirst
<1>1. IInv => DependenciesFirst
  BY DEF IInv
<1> QED
  BY InvariantHolds, <1>1, PTL

(***************************************************************************)
(* A pool worker that sleeps has an empty list.                            *)
(***************************************************************************)
THEOREM WakeupsKept == Spec => []NoLostWakeup
<1>1. IInv => NoLostWakeup
  BY DEF IInv
<1> QED
  BY InvariantHolds, <1>1, PTL

(***************************************************************************)
(* Waiting never goes round in a circle: what a frame waits for, and what  *)
(* it must let return first, started later than it did.                    *)
(***************************************************************************)
THEOREM WaitsAcyclic == Spec => []NoCircularWait
<1>1. IInv => NoCircularWait
  <2> SUFFICES ASSUME IInv PROVE NoCircularWait
    OBVIOUS
  <2>1. \A t \in Task : pc[t] \in OnStack => startedAt[below[t]] < startedAt[t]
    BY DEF IInv, StartOrder
  <2>2. ASSUME NEW f \in Frame, Waiting(f), pc[subject[f]] \in OnStack
        PROVE  startedAt[f] < startedAt[subject[f]]
    <3>1. subject[f] \in Task /\ owner[subject[f]] = f /\ Registered(subject[f])
      BY <2>2 DEF IInv, TypeOK, SubjectsOwned, FreshIds
    <3>2. Started(subject[f])
      BY <2>2 DEF Started, OnStack
    <3> QED
      BY <3>1, <3>2 DEF IInv, StartOrder
  <2> QED
    BY <2>1, <2>2 DEF NoCircularWait
<1> QED
  BY InvariantHolds, <1>1, PTL

(***************************************************************************)
(* WaitFor's walk over its own worker's list, outside the WorkerDatas      *)
(* mutex, never meets another thread's AddTask appending to that list.     *)
(***************************************************************************)
THEOREM QueuesRaceFree == Spec => []NoQueueRace
<1>1. IInv => NoQueueRace
  <2> SUFFICES ASSUME IInv, NEW w \in Workers, NEW f \in Frame,
                      pc[f] = "adding", nextWorker = w, Active(w, top[w]),
                      pc[top[w]] = "helping"
               PROVE  FALSE
    BY DEF NoQueueRace
  <2>1. owner[subject[f]] = f /\ subject[f] \in Task /\ Registered(subject[f])
    BY DEF IInv, AddingSound
  <2>2. f = Main => top[0] = Main
    BY DEF IInv, StacksSound
  <2>3. CASE Threads = 0
    <3>1. w = 0
      BY <2>3 DEF Workers
    <3>2. f \in Task
      BY <2>2, <3>1 DEF Task, Frame, Main
    <3>3. (\E v \in Workers : top[v] = f) \/ (\E u \in Task : pc[u] \in OnStack /\ below[u] = f)
      BY <3>2 DEF IInv, StacksSound, OnStack
    <3>4. \A v \in Workers : v = 0
      BY <2>3 DEF Workers
    <3> QED
      BY <3>1, <3>2, <3>3, <3>4 DEF IInv, StacksSound
  <2>4. CASE Threads # 0
    <3>1. f = Main
      BY <2>1, <2>4 DEF IInv, OwnersSound, MayAdd
    <3>2. w # 0 /\ top[w] # Main /\ top[w] \in Frame
      BY <2>2, <3>1 DEF Active, IInv, TypeOK
    <3>3. subject[top[w]] \in Task /\ owner[subject[top[w]]] = top[w]
          /\ Registered(subject[top[w]])
      BY <3>2 DEF IInv, TypeOK, SubjectsOwned, Waiting, FreshIds
    <3> QED
      BY <2>4, <3>2, <3>3 DEF IInv, OwnersSound, MayAdd
  <2> QED
    BY <2>3, <2>4
<1> QED
  BY InvariantHolds, <1>1, PTL

-----------------------------------------------------------------------------
(* Places.                                                                 *)

\* A set whose elements are all equal has at most one; empty ones have none.
LEMMA CardinalityOfOne ==
    ASSUME NEW S, NEW x, x \in S, \A y \in S : y = x
    PROVE  Cardinality(S) = 1
<1>1. S = {x}
  OBVIOUS
<1> QED
  BY <1>1, FS_Singleton

LEMMA CardinalityOfNone ==
    ASSUME NEW S, \A y \in S : FALSE
    PROVE  Cardinality(S) = 0
<1>1. S = {}
  OBVIOUS
<1> QED
  BY <1>1, FS_EmptySet

(***************************************************************************)
(* Every task that was added and has not completed is in exactly one       *)
(* place: none is lost, none runs twice.                                   *)
(***************************************************************************)
THEOREM TasksInOnePlace == Spec => []OnePlace
<1>1. ASSUME IInv, NEW t \in Task
      PROVE  Cardinality(Adding(t)) + Cardinality(Slots(t)) + Cardinality(Tops(t))
                 + Cardinality(Unders(t))
             = IF Registered(t) /\ ~tasks[t].completed THEN 1 ELSE 0
  <2> USE <1>1
  <2>1. Adding(t) # {} => Registered(t) /\ ~Started(t) /\ Slots(t) = {}
    <3> SUFFICES ASSUME NEW f \in Frame, pc[f] = "adding", subject[f] = t
                 PROVE  Registered(t) /\ ~Started(t) /\ Slots(t) = {}
      BY DEF Adding
    <3>1. Registered(t) /\ ~Started(t) /\ ~Queued(t)
      BY DEF IInv, AddingSound
    <3> QED
      BY <3>1 DEF Queued, Slots, AllSlots
  <2>2. Slots(t) # {} => Registered(t) /\ ~Started(t)
    BY DEF IInv, ListsSound, Slots, AllSlots
  <2>3. Tops(t) # {} => pc[t] \in OnStack /\ Unders(t) = {}
    BY DEF IInv, StacksSound, Tops, Unders
  <2>4. Unders(t) # {} => pc[t] \in OnStack
    BY DEF IInv, StacksSound, Unders, OnStack
  <2>5. pc[t] \in OnStack => Started(t) /\ Registered(t) /\ ~tasks[t].completed
    BY DEF IInv, FreshIds, FlagsMatch, Started, OnStack
  <2>6. ~Started(t) => ~tasks[t].completed
    BY DEF IInv, FlagsMatch, Started
  <2>7. CASE Registered(t) /\ ~Started(t)
    <3>1. Cardinality(Tops(t)) = 0 /\ Cardinality(Unders(t)) = 0
      BY <2>3, <2>4, <2>5, <2>7, CardinalityOfNone
    <3>2. CASE Queued(t)
      <4>1. PICK v \in Workers : \E i \in DOMAIN queue[v] : queue[v][i] = t
        BY <3>2 DEF Queued
      <4>2. PICK i \in DOMAIN queue[v] : queue[v][i] = t
        BY <4>1
      <4>3. <<v, i>> \in Slots(t)
        BY <4>2 DEF Slots, AllSlots
      <4>4. \A s \in Slots(t) : s = <<v, i>>
        BY <4>2 DEF IInv, ListsSound, Slots, AllSlots
      <4>5. Cardinality(Slots(t)) = 1
        BY <4>3, <4>4, CardinalityOfOne
      <4>6. Cardinality(Adding(t)) = 0
        BY <2>1, <4>3, CardinalityOfNone
      <4> QED
        BY <2>6, <2>7, <3>1, <4>5, <4>6
    <3>3. CASE ~Queued(t)
      <4>1. owner[t] \in Adding(t)
        BY <2>7, <3>3 DEF IInv, TypeOK, NotLost, Adding
      <4>2. \A f \in Adding(t) : f = owner[t]
        BY DEF IInv, AddingSound, Adding
      <4>3. Cardinality(Adding(t)) = 1
        BY <4>1, <4>2, CardinalityOfOne
      <4>4. Cardinality(Slots(t)) = 0
        BY <2>1, <4>1, CardinalityOfNone
      <4> QED
        BY <2>6, <2>7, <3>1, <4>3, <4>4
    <3> QED
      BY <3>2, <3>3
  <2>8. CASE pc[t] \in OnStack
    <3>1. Cardinality(Adding(t)) = 0 /\ Cardinality(Slots(t)) = 0
      BY <2>1, <2>2, <2>5, <2>8, CardinalityOfNone
    <3>2. CASE \E w \in Workers : top[w] = t
      <4>1. PICK w \in Workers : top[w] = t
        BY <3>2
      <4>2. w \in Tops(t) /\ \A v \in Tops(t) : v = w
        BY <4>1 DEF IInv, StacksSound, Tops
      <4>3. Cardinality(Tops(t)) = 1
        BY <4>2, CardinalityOfOne
      <4>4. Cardinality(Unders(t)) = 0
        BY <2>3, <4>2, CardinalityOfNone
      <4> QED
        BY <2>5, <2>8, <3>1, <4>3, <4>4
    <3>3. CASE ~\E w \in Workers : top[w] = t
      <4>1. PICK u \in Task : pc[u] \in OnStack /\ below[u] = t
        BY <2>8, <3>3 DEF IInv, StacksSound
      <4>2. u \in Unders(t) /\ \A x \in Unders(t) : x = u
        BY <4>1 DEF IInv, StacksSound, Unders
      <4>3. Cardinality(Unders(t)) = 1
        BY <4>2, CardinalityOfOne
      <4>4. Cardinality(Tops(t)) = 0
        BY <3>3, CardinalityOfNone DEF Tops
      <4> QED
        BY <2>5, <2>8, <3>1, <4>3, <4>4
    <3> QED
      BY <3>2, <3>3
  <2>9. CASE ~(Registered(t) /\ ~Started(t)) /\ pc[t] \notin OnStack
    <3>1. Adding(t) = {} /\ Slots(t) = {} /\ Tops(t) = {} /\ Unders(t) = {}
      BY <2>1, <2>2, <2>3, <2>4, <2>9
    <3>2. /\ Cardinality(Adding(t)) = 0 /\ Cardinality(Slots(t)) = 0
          /\ Cardinality(Tops(t)) = 0 /\ Cardinality(Unders(t)) = 0
      BY <3>1, FS_EmptySet
    <3>3. ~(Registered(t) /\ ~tasks[t].completed)
      <4>1. pc[t] \in PC
        <5>1. t \in Frame
          BY DEF Task, Frame
        <5> QED
          BY <5>1 DEF IInv, TypeOK
      <4> QED
        BY <2>9, <4>1 DEF IInv, FlagsMatch, Started, PC, OnStack
    <3> QED
      BY <3>2, <3>3
  <2> QED
    BY <2>7, <2>8, <2>9
<1>2. IInv => OnePlace
  BY <1>1 DEF OnePlace
<1> QED
  BY InvariantHolds, <1>2, PTL

-----------------------------------------------------------------------------
(* The pool implements the abstract TaskPool.                              *)

LEMMA InitRefines == Init => Pool!Init
<1> SUFFICES ASSUME Init PROVE Pool!Init
  OBVIOUS
<1>1. \A t \in Task : PhaseOf(t) = "none" /\ tasks[t].deps = {}
  BY DEF Init, PhaseOf, Registered, Task, NoInfo
<1> QED
  BY <1>1 DEF Pool!Init

LEMMA RegisterRefines ==
    ASSUME IInv, NEW w \in Workers, NEW f \in Frame, AddTaskRegister(w, f)
    PROVE  Pool!Next
<1>1. PICK id \in Task : id = nextId + 1
  BY DEF AddTaskRegister
<1>2. PICK D \in SUBSET Owned(f) : tasks' = [tasks EXCEPT ![id] = FreshInfo(D)]
  BY <1>1 DEF AddTaskRegister
<1>3. nextId' = id /\ nextId \in Nat /\ pc[f] = "body" /\ pc' = [pc EXCEPT ![f] = "adding"]
  BY <1>1, MaxTasksAssumption DEF AddTaskRegister, IInv, TypeOK
<1>4. ~Registered(id) /\ pc[id] = "new" /\ id # f
  BY <1>1, <1>3 DEF IInv, FreshIds, Registered, Started, Task
<1>5. /\ \A u \in Task : u # id => tasks'[u] = tasks[u]
      /\ tasks'[id] = FreshInfo(D)
      /\ \A u \in Task : Registered(u)' <=> Registered(u) \/ u = id
      /\ \A u \in Task : pc'[u] = "new" <=> pc[u] = "new"
  BY <1>1, <1>2, <1>3, <1>4 DEF IInv, TypeOK, Registered, Task, Frame
<1>6. \A u \in Task : u # id => PhaseOf(u)' = PhaseOf(u)
  BY <1>5 DEF PhaseOf, Taken
<1>7. PhaseOf(id) = "none" /\ PhaseOf(id)' = "waiting"
  BY <1>4, <1>5 DEF PhaseOf
<1>8. D \in SUBSET {u \in Task : PhaseOf(u) # "none"}
  BY DEF IInv, TypeOK, Owned, FreshIds, PhaseOf, Taken
<1>9. tasks'[id].deps = D
  BY <1>5 DEF FreshInfo, NoInfo
<1>10. [u \in Task |-> PhaseOf(u)]' = [[u \in Task |-> PhaseOf(u)] EXCEPT ![id] = "waiting"]
  BY <1>6, <1>7
<1>11. [u \in Task |-> tasks[u].deps]' = [[u \in Task |-> tasks[u].deps] EXCEPT ![id] = D]
  BY <1>5, <1>9
<1>12. Pool!Create(id)
  BY <1>7, <1>8, <1>10, <1>11 DEF Pool!Create
<1> QED
  BY <1>12 DEF Pool!Next

LEMMA TickRefines ==
    ASSUME IInv, NEW w \in Workers, Tick(w), UNCHANGED <<nextId, tasks>>,
           pc'[top'[w]] = "claimed",
           \A g \in Task : g # top'[w] => (pc'[g] = "new" <=> pc[g] = "new")
    PROVE  Pool!Next
<1>1. PICK i \in DOMAIN queue[w] :
        FirstEligible(w, i) /\ top' = [top EXCEPT ![w] = queue[w][i]]
  BY DEF Tick
<1>2. PICK t \in Task : t = queue[w][i]
  BY DEF IInv, TypeOK
<1>3. top'[w] = t /\ Registered(t) /\ pc[t] = "new" /\ Eligible(t)
  BY <1>1, <1>2 DEF IInv, TypeOK, ListsSound, Started, FirstEligible
<1>4. ~tasks[t].completed
  BY <1>3 DEF IInv, FlagsMatch
<1>5. PhaseOf(t) = "waiting" /\ PhaseOf(t)' = "running"
  BY <1>3, <1>4 DEF PhaseOf, Registered, Taken
<1>6. \A u \in Task : u # t => PhaseOf(u)' = PhaseOf(u)
  BY <1>3 DEF PhaseOf, Registered, Taken
<1>7. \A d \in tasks[t].deps : d \in Task /\ PhaseOf(d) \in {"done", "taken"}
  <2>1. \A d \in tasks[t].deps : d \in Task /\ Registered(d)
    BY DEF IInv, TypeOK, Info, DependenciesRegistered
  <2>2. \A d \in tasks[t].deps : tasks[d].completed
    BY <1>3, <2>1 DEF IInv, References, Eligible
  <2>3. \A d \in tasks[t].deps : pc[d] = "returned"
    BY <2>1, <2>2 DEF IInv, FlagsMatch
  <2> QED
    BY <2>1, <2>2, <2>3 DEF PhaseOf, Taken
<1>8. /\ [u \in Task |-> PhaseOf(u)]' = [[u \in Task |-> PhaseOf(u)] EXCEPT ![t] = "running"]
      /\ UNCHANGED [u \in Task |-> tasks[u].deps]
  BY <1>5, <1>6
<1>9. Pool!Begin(t)
  BY <1>5, <1>7, <1>8 DEF Pool!Begin
<1> QED
  BY <1>9 DEF Pool!Next

LEMMA FinishRefines ==
    ASSUME IInv, NEW w \in Workers, NEW f \in Frame, Finish(w, f)
    PROVE  Pool!Next
<1>1. /\ f # Main /\ pc[f] = "body" /\ pc' = [pc EXCEPT ![f] = "returned"] /\ nextId' = nextId
      /\ tasks' = [tasks EXCEPT ![f].completed = TRUE, ![f].running = FALSE,
                                ![f].hasReturn = TRUE, ![f].refs = Release(f).refs]
  BY DEF Finish, pool
<1>2. f \in Task /\ Registered(f) /\ ~tasks[f].completed
  BY <1>1 DEF IInv, FreshIds, FlagsMatch, Started, Task, Frame, Main
<1>3. /\ \A u \in Task : u # f => tasks'[u] = tasks[u]
      /\ tasks'[f].completed = TRUE /\ tasks'[f].hasReturn = TRUE
      /\ tasks'[f].deps = tasks[f].deps
  BY <1>1, <1>2 DEF IInv, TypeOK, Info
<1>4. \A u \in Task : (pc'[u] = "new" <=> pc[u] = "new")
  BY <1>1 DEF IInv, TypeOK, Task, Frame
<1>5. PhaseOf(f) = "running" /\ PhaseOf(f)' = "done"
  BY <1>1, <1>2, <1>3, <1>4 DEF PhaseOf, Registered, Taken
<1>6. \A u \in Task : u # f => PhaseOf(u)' = PhaseOf(u)
  BY <1>1, <1>3, <1>4 DEF PhaseOf, Registered, Taken
<1>7. /\ [u \in Task |-> PhaseOf(u)]' = [[u \in Task |-> PhaseOf(u)] EXCEPT ![f] = "done"]
      /\ UNCHANGED [u \in Task |-> tasks[u].deps]
  BY <1>2, <1>3, <1>5, <1>6
<1>8. Pool!End(f)
  BY <1>2, <1>5, <1>7 DEF Pool!End
<1> QED
  BY <1>2, <1>8 DEF Pool!Next

LEMMA PollRefines ==
    ASSUME IInv, NEW w \in Workers, NEW f \in Frame, Poll(w, f)
    PROVE  Pool!Next \/ UNCHANGED <<[u \in Task |-> PhaseOf(u)], [u \in Task |-> tasks[u].deps]>>
<1>1. PICK t \in Task : t = subject[f]
  BY DEF Poll, IInv, SubjectsOwned, Waiting, TypeOK
<1>2. /\ nextId' = nextId /\ pc[f] = "polling"
      /\ tasks' = [tasks EXCEPT ![t].canRun = TRUE, ![t].hasReturn = FALSE]
  BY <1>1 DEF Poll, pool
<1>3. \E x \in {"body", "helping"} : pc' = [pc EXCEPT ![f] = x]
  BY DEF Poll
<1>4. /\ \A u \in Task : u # t => tasks'[u] = tasks[u]
      /\ tasks'[t].hasReturn = FALSE /\ tasks'[t].completed = tasks[t].completed
      /\ tasks'[t].deps = tasks[t].deps
  BY <1>2 DEF IInv, TypeOK, Info
<1>5. \A u \in Task : (pc'[u] = "new" <=> pc[u] = "new")
  <2>1. PICK x \in {"body", "helping"} : pc' = [pc EXCEPT ![f] = x]
    BY <1>3
  <2>2. \A g \in Frame : pc'[g] = IF g = f THEN x ELSE pc[g]
    BY <2>1 DEF IInv, TypeOK
  <2>3. Task \subseteq Frame
    BY DEF Task, Frame
  <2> QED
    BY <1>2, <2>2, <2>3
<1>6. \A u \in Task : u # t => PhaseOf(u)' = PhaseOf(u)
  BY <1>2, <1>4, <1>5 DEF PhaseOf, Registered, Taken
<1>7. CASE ~tasks[t].hasReturn
  <2>1. PhaseOf(t)' = PhaseOf(t)
    BY <1>2, <1>4, <1>5, <1>7 DEF PhaseOf, Registered, Taken
  <2> QED
    BY <1>4, <1>6, <2>1
<1>8. CASE tasks[t].hasReturn
  <2>1. tasks[t].completed /\ pc[t] = "returned" /\ Registered(t)
    BY <1>8 DEF IInv, FlagsMatch, FreshIds, NoInfo
  <2>2. PhaseOf(t) = "done" /\ PhaseOf(t)' = "taken"
    BY <1>2, <1>4, <1>5, <1>8, <2>1 DEF PhaseOf, Registered, Taken
  <2>3. /\ [u \in Task |-> PhaseOf(u)]' = [[u \in Task |-> PhaseOf(u)] EXCEPT ![t] = "taken"]
        /\ UNCHANGED [u \in Task |-> tasks[u].deps]
    BY <1>4, <1>6, <2>2
  <2>4. Pool!Take(t)
    BY <2>2, <2>3 DEF Pool!Take
  <2> QED
    BY <2>4 DEF Pool!Next
<1> QED
  BY <1>7, <1>8

\* The other steps of a frame change no task's phase.
LEMMA FrameStutters ==
    ASSUME IInv, NEW w \in Workers, NEW f \in Frame,
           \/ AddTaskEnqueue(w, f) \/ Run(w, f) \/ DropHandle(w, f) \/ WaitFor(w, f)
           \/ HelpNothing(w, f) \/ Start(w, f)
    PROVE  UNCHANGED <<[u \in Task |-> PhaseOf(u)], [u \in Task |-> tasks[u].deps]>>
<1>1. nextId' = nextId
  BY DEF AddTaskEnqueue, Run, DropHandle, WaitFor, HelpNothing, Start, pool
<1>2. \A u \in Task : (pc'[u] = "new" <=> pc[u] = "new")
  <2>1. pc' = pc \/ \E x \in PC \ {"new"} : pc[f] # "new" /\ pc' = [pc EXCEPT ![f] = x]
    BY DEF AddTaskEnqueue, Run, DropHandle, WaitFor, HelpNothing, Start, PC
  <2>2. Task \subseteq Frame
    BY DEF Task, Frame
  <2>3. ASSUME NEW x \in PC \ {"new"}, pc[f] # "new", pc' = [pc EXCEPT ![f] = x]
        PROVE  \A g \in Frame : pc'[g] = "new" <=> pc[g] = "new"
    BY <2>3 DEF IInv, TypeOK
  <2> QED
    BY <2>1, <2>2, <2>3
<1>3. \A u \in Task : /\ tasks'[u].deps = tasks[u].deps
                      /\ tasks'[u].completed = tasks[u].completed
                      /\ tasks'[u].hasReturn = tasks[u].hasReturn
  <2>1. CASE AddTaskEnqueue(w, f) \/ WaitFor(w, f) \/ HelpNothing(w, f)
    BY <2>1 DEF AddTaskEnqueue, WaitFor, HelpNothing, infos
  <2>2. CASE Run(w, f)
    <3>1. PICK t \in Owned(f) : tasks' = [tasks EXCEPT ![t].canRun = TRUE]
      BY <2>2 DEF Run
    <3> QED
      BY <3>1 DEF IInv, TypeOK, Info, Owned
  <2>3. CASE DropHandle(w, f)
    <3>1. PICK t \in Owned(f) : tasks' = [tasks EXCEPT ![t].refs = Release(t).refs]
      BY <2>3 DEF DropHandle
    <3> QED
      BY <3>1 DEF IInv, TypeOK, Info, Owned
  <2>4. CASE Start(w, f)
    <3>1. tasks' = [tasks EXCEPT ![f].running = TRUE]
      BY <2>4 DEF Start
    <3> QED
      BY <3>1 DEF IInv, TypeOK, Info
  <2> QED
    BY <2>1, <2>2, <2>3, <2>4
<1>4. \A u \in Task : PhaseOf(u)' = PhaseOf(u)
  BY <1>1, <1>2, <1>3 DEF PhaseOf, Registered, Taken
<1> QED
  BY <1>3, <1>4

LEMMA StepRefines ==
    ASSUME IInv, [Next]_vars
    PROVE  Pool!Next \/ UNCHANGED <<[u \in Task |-> PhaseOf(u)], [u \in Task |-> tasks[u].deps]>>
<1>1. CASE UNCHANGED vars \/ InitManger \/ \E w \in Workers : Park(w)
  <2>1. UNCHANGED <<nextId, tasks, pc>>
    BY <1>1 DEF vars, pool, infos, InitManger, Park
  <2>2. \A u \in Task : PhaseOf(u)' = PhaseOf(u)
    BY <2>1 DEF PhaseOf, Registered, Taken
  <2> QED
    BY <2>1, <2>2
<1>2. ASSUME NEW w \in Workers, WorkerPick(w)
      PROVE  Pool!Next
  <2>1. /\ Tick(w) /\ UNCHANGED <<nextId, tasks>> /\ pc' = [pc EXCEPT ![top'[w]] = "claimed"]
    BY <1>2 DEF WorkerPick, infos
  <2>2. top'[w] \in Task
    BY <2>1 DEF Tick, IInv, TypeOK
  <2>3. pc'[top'[w]] = "claimed" /\ \A g \in Task : g # top'[w] => pc'[g] = pc[g]
    BY <2>1, <2>2 DEF IInv, TypeOK, Task, Frame
  <2> QED
    BY <2>1, <2>3, TickRefines
<1>3. ASSUME NEW w \in Workers, NEW f \in Frame, HelpPick(w, f)
      PROVE  Pool!Next
  <2>1. /\ Tick(w) /\ UNCHANGED <<nextId, tasks>> /\ pc[f] = "helping"
        /\ pc' = [pc EXCEPT ![f] = "polling", ![top'[w]] = "claimed"]
    BY <1>3 DEF HelpPick, infos
  <2>2. top'[w] \in Task
    BY <2>1 DEF Tick, IInv, TypeOK
  <2>3. pc'[top'[w]] = "claimed"
        /\ \A g \in Task : g # top'[w] => (pc'[g] = "new" <=> pc[g] = "new")
    BY <2>1, <2>2, SMTT(40) DEF IInv, TypeOK, Task, Frame
  <2> QED
    BY <2>1, <2>3, TickRefines
<1>4. ASSUME NEW w \in Workers, NEW f \in Frame, FrameStep(w, f)
      PROVE  Pool!Next
             \/ UNCHANGED <<[u \in Task |-> PhaseOf(u)], [u \in Task |-> tasks[u].deps]>>
  BY <1>3, <1>4, RegisterRefines, FinishRefines, PollRefines, FrameStutters DEF FrameStep
<1> QED
  BY <1>1, <1>2, <1>4 DEF Next, Step

(***************************************************************************)
(* The thread pool, with its round-robin lists, its helping waits and its  *)
(* reference counts, implements the abstract TaskPool: a task begins once, *)
(* after all it depends on, and its result is taken once, after it ended.  *)
(***************************************************************************)
THEOREM PoolImplemented == Spec => ImplementsTaskPool
<1>1. IInv /\ [Next]_vars => [Pool!Next]_Pool!vars
  BY StepRefines DEF Pool!vars
<1>2. Spec => Pool!Spec
  BY InitRefines, InvariantHolds, <1>1, PTL DEF Spec, Pool!Spec
<1> QED
  BY <1>2 DEF ImplementsTaskPool
=============================================================================
