------------------------ MODULE TaskMangerInvariant ------------------------
(***************************************************************************)
(* An inductive invariant of TaskManger, in named parts, strong enough to  *)
(* imply its safety properties.                                            *)
(***************************************************************************)
EXTENDS TaskManger

Started(t) == pc[t] # "new"
Queued(t) == \E w \in Workers : \E i \in DOMAIN queue[w] : queue[w][i] = t

\* An id not handed out yet has left no trace.
FreshIds ==
    \A t \in Task : ~Registered(t) =>
        tasks[t] = NoInfo /\ ~Started(t) /\ t \notin handle

\* The flags of a task's info tell where its frame is.
FlagsMatch ==
    \A t \in Task :
        /\ tasks[t].completed <=> pc[t] = "returned"
        /\ tasks[t].running <=> pc[t] \in OnStack \ {"claimed"}
        /\ tasks[t].hasReturn => tasks[t].completed

\* The worker lists hold ids that were added and not started, each once.
ListsSound ==
    /\ \A w \in Workers : \A i \in DOMAIN queue[w] :
         Registered(queue[w][i]) /\ ~Started(queue[w][i])
    /\ \A w1, w2 \in Workers : \A i \in DOMAIN queue[w1], j \in DOMAIN queue[w2] :
         queue[w1][i] = queue[w2][j] => w1 = w2 /\ i = j

\* The id a frame is adding is its own and not in a list yet.
AddingSound ==
    \A f \in Frame : pc[f] = "adding" =>
        /\ subject[f] \in Task /\ Registered(subject[f]) /\ ~Started(subject[f])
        /\ owner[subject[f]] = f
        /\ subject[f] \notin handle /\ ~Queued(subject[f])

\* A registered task that has not started is in a list or on its way to one.
NotLost ==
    \A t \in Task : Registered(t) /\ ~Started(t) =>
        Queued(t) \/ (pc[owner[t]] = "adding" /\ subject[owner[t]] = t)

\* The stacks hold exactly the frames that started and did not return, each
\* once; only the innermost frame of a worker is doing anything.
StacksSound ==
    /\ \A w \in Workers : top[w] \in Task => pc[top[w]] \in OnStack
    /\ \A u \in Task : pc[u] \in OnStack /\ below[u] \in Task =>
         pc[below[u]] = "polling" /\ \A w \in Workers : top[w] # below[u]
    /\ \A w1, w2 \in Workers : top[w1] = top[w2] /\ top[w1] \in Task => w1 = w2
    /\ \A u1, u2 \in Task :
         pc[u1] \in OnStack /\ pc[u2] \in OnStack /\ below[u1] = below[u2]
             /\ below[u1] \in Task => u1 = u2
    /\ \A t \in Task : pc[t] \in OnStack =>
         \/ \E w \in Workers : top[w] = t
         \/ \E u \in Task : pc[u] \in OnStack /\ below[u] = t
    /\ pc[Main] \in OnStack \ {"claimed"}
    /\ top[0] # Main => pc[Main] = "polling"

\* A frame waits for a task whose handle it holds.
SubjectsOwned ==
    \A f \in Frame : Waiting(f) => subject[f] \in handle /\ owner[subject[f]] = f

\* Only frames that have started, and that may, own tasks.
OwnersSound ==
    \A t \in Task : Registered(t) => Started(owner[t]) /\ MayAdd(owner[t])

\* Dependencies are older tasks.
DependenciesRegistered ==
    \A t \in Task : \A d \in tasks[t].deps : Registered(d) /\ d < t

\* The order of starting: an owner before its tasks, a frame before those
\* above it.
StartOrder ==
    /\ \A f \in Frame : startedAt[f] <= clock
    /\ \A t \in Task : Registered(t) /\ Started(t) => startedAt[owner[t]] < startedAt[t]
    /\ \A t \in Task : pc[t] \in OnStack => startedAt[below[t]] < startedAt[t]

IInv ==
    /\ TypeOK
    /\ FreshIds /\ FlagsMatch
    /\ ListsSound /\ AddingSound /\ NotLost
    /\ StacksSound /\ SubjectsOwned /\ OwnersSound
    /\ References
    /\ DependenciesRegistered /\ DependenciesFirst
    /\ StartOrder
    /\ NoLostWakeup
=============================================================================
