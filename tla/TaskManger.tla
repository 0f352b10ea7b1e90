----------------------------- MODULE TaskManger -----------------------------
(***************************************************************************)
(* UCodeLang's task pool (LangCore/TaskManger.hpp).                        *)
(*                                                                         *)
(* Threads: worker 0 is the thread of the main program, workers            *)
(* 1..Threads run ThreadStart.  AddTask deals task ids round-robin to the  *)
(* workers' own lists.  A thread blocked in WaitFor does not sleep: it     *)
(* takes ("helps with") a task of its own list and calls it on top of its  *)
(* own stack, so WaitFor nests.                                            *)
(*                                                                         *)
(* A FRAME is an activation that can own Task handles: frame t is the body *)
(* of task t, frame Main (0, the code's NullTaskID) is the main program.   *)
(* top[w] is the innermost frame of worker w and below[t] the frame that   *)
(* task t was called from; 0 at the bottom of a pool worker stands for its *)
(* ThreadStart loop.                                                       *)
(*                                                                         *)
(* Every action is one critical section of the code (the `tasks' mutex,    *)
(* the `WorkerDatas' mutex) or one step of a frame between two of them.    *)
(***************************************************************************)
EXTENDS Integers, Sequences, FiniteSets, SequencesExt

CONSTANTS
    Threads,    \* TaskManger::Threads(Count): pool threads beside the caller
    MaxTasks    \* bound: task ids handed out by NewTaskID in one behaviour

ASSUME ThreadsAssumption == Threads \in Nat
ASSUME MaxTasksAssumption == MaxTasks \in Nat

Workers == 0 .. Threads
Task    == 1 .. MaxTasks
Main    == 0
Frame   == 0 .. MaxTasks

VARIABLES
    canstart,    \* set by Init(), read by ThreadStart
    nextId,      \* _NextID
    nextWorker,  \* WorkerGroup::NextWorker
    queue,       \* WorkerGroup::WorkerDatas[w].TaskToID
    parked,      \* pool workers asleep on UpdateWorker
    tasks,       \* RuningTaskInfo of each id handed out
    present,     \* the keys of the `tasks' map
    handle,      \* ids with a live Task object
    owner,       \* owner[t]: the frame that holds t's Task object
    pc,          \* where each frame is
    subject,     \* the id a frame is adding or waiting for
    top, below,  \* the stacks of the workers
    startedAt,   \* history: the order in which the tasks were picked
    clock        \* history: how many tasks have been picked

pool   == <<canstart, nextId, nextWorker, queue, parked>>
infos  == <<tasks, present, handle, owner>>
stacks == <<top, below, startedAt, clock>>
vars   == <<pool, infos, pc, subject, stacks>>

Info == [deps: SUBSET Task, canRun: BOOLEAN, running: BOOLEAN,
         completed: BOOLEAN, hasReturn: BOOLEAN, refs: 0 .. 2]

NoInfo == [deps |-> {}, canRun |-> FALSE, running |-> FALSE,
           completed |-> FALSE, hasReturn |-> FALSE, refs |-> 0]

PC == {"new", "claimed", "body", "adding", "polling", "helping", "returned"}

\* A frame that is on some worker's stack.
OnStack == {"claimed", "body", "adding", "polling", "helping"}

Waiting(f) == pc[f] \in {"polling", "helping"}

Registered(t) == t <= nextId

(***************************************************************************)
(* f is the innermost frame of worker w.                                   *)
(***************************************************************************)
Active(w, f) == top[w] = f /\ (f = Main => w = 0)

(***************************************************************************)
(* The handles of a frame, and the frames that may add tasks.  With pool   *)
(* threads only the main program adds: WaitFor walks its worker's list     *)
(* without the WorkerDatas mutex, which another thread's AddTask would     *)
(* race with (NoQueueRace).                                                *)
(***************************************************************************)
OwnedAnyFrame(f) == handle            \* mutant: waits for another frame's task

Owned(f) == {t \in handle : owner[t] = f}

MayAddAnyFrame(f) == TRUE             \* mutant: a pool task adds tasks

MayAdd(f) == Threads = 0 \/ f = Main

Init ==
    /\ canstart = FALSE
    /\ nextId = 0
    /\ nextWorker = 0
    /\ queue = [w \in Workers |-> << >>]
    /\ parked = {}
    /\ tasks = [t \in Task |-> NoInfo]
    /\ present = {}
    /\ handle = {}
    /\ owner = [t \in Task |-> Main]
    /\ pc = [f \in Frame |-> IF f = Main THEN "body" ELSE "new"]
    /\ subject = [f \in Frame |-> 0]
    /\ top = [w \in Workers |-> 0]
    /\ below = [t \in Task |-> 0]
    /\ startedAt = [f \in Frame |-> 0]
    /\ clock = 0

-----------------------------------------------------------------------------
(* The manager's own operations.                                           *)

\* Init(): sizes the worker lists and lets the pool threads go.
InitManger ==
    /\ ~canstart
    /\ canstart' = TRUE
    /\ UNCHANGED <<nextId, nextWorker, queue, parked, infos, pc, subject, stacks>>

(***************************************************************************)
(* AddTask, first half: NewTaskID and the insertion of the task's info     *)
(* with two references, the handle's and the executor's.                   *)
(***************************************************************************)
FreshInfoOneRef(D) ==                 \* mutant: no reference for the executor
    [NoInfo EXCEPT !.deps = D, !.refs = 1]

FreshInfo(D) == [NoInfo EXCEPT !.deps = D, !.refs = 2]

AddTaskRegister(w, f) ==
    LET id == nextId + 1 IN
    /\ canstart /\ Active(w, f) /\ pc[f] = "body" /\ MayAdd(f)
    /\ id \in Task
    /\ nextId' = id
    /\ \E D \in SUBSET Owned(f) : tasks' = [tasks EXCEPT ![id] = FreshInfo(D)]
    /\ present' = present \cup {id}
    /\ owner' = [owner EXCEPT ![id] = f]
    /\ pc' = [pc EXCEPT ![f] = "adding"]
    /\ subject' = [subject EXCEPT ![f] = id]
    /\ UNCHANGED <<canstart, nextWorker, queue, parked, handle, stacks>>

(***************************************************************************)
(* AddTask, second half, under the WorkerDatas mutex: choose the worker    *)
(* round-robin, append to its list, notify it, return the handle.          *)
(***************************************************************************)
AfterWorkerTooFar(n) ==               \* mutant: off by one at the last worker
    IF n + 1 > Threads + 1 THEN 0 ELSE n + 1

AfterWorker(n) == IF n + 1 > Threads THEN 0 ELSE n + 1

AddTaskEnqueueSilently(w, f) ==       \* mutant: no notify_one
    /\ Active(w, f) /\ pc[f] = "adding"
    /\ queue' = [queue EXCEPT ![nextWorker] = Append(@, subject[f])]
    /\ nextWorker' = AfterWorker(nextWorker)
    /\ handle' = handle \cup {subject[f]}
    /\ pc' = [pc EXCEPT ![f] = "body"]
    /\ UNCHANGED <<canstart, nextId, parked, tasks, present, owner, subject, stacks>>

AddTaskEnqueue(w, f) ==
    /\ Active(w, f) /\ pc[f] = "adding"
    /\ queue' = [queue EXCEPT ![nextWorker] = Append(@, subject[f])]
    /\ nextWorker' = AfterWorker(nextWorker)
    /\ parked' = parked \ {nextWorker}
    /\ handle' = handle \cup {subject[f]}
    /\ pc' = [pc EXCEPT ![f] = "body"]
    /\ UNCHANGED <<canstart, nextId, tasks, present, owner, subject, stacks>>

\* Task::Run: the task may be picked from now on.
Run(w, f) ==
    /\ Active(w, f) /\ pc[f] = "body"
    /\ \E t \in Owned(f) :
         /\ ~tasks[t].canRun
         /\ tasks' = [tasks EXCEPT ![t].canRun = TRUE]
    /\ UNCHANGED <<pool, present, handle, owner, pc, subject, stacks>>

(***************************************************************************)
(* ~Task: release the handle's reference, erase the info at zero.          *)
(***************************************************************************)
ReleaseErasesEarly(t) ==              \* mutant: erased while one reference is left
    LET left == tasks[t].refs - 1 IN
    [refs |-> left, keep |-> IF left <= 1 THEN present \ {t} ELSE present]

Release(t) ==
    LET left == tasks[t].refs - 1 IN
    [refs |-> left, keep |-> IF left = 0 THEN present \ {t} ELSE present]

DropHandle(w, f) ==
    /\ Active(w, f) /\ pc[f] = "body"
    /\ \E t \in Owned(f) :
         /\ tasks' = [tasks EXCEPT ![t].refs = Release(t).refs]
         /\ present' = Release(t).keep
         /\ handle' = handle \ {t}
    /\ UNCHANGED <<pool, owner, pc, subject, stacks>>

(***************************************************************************)
(* WaitFor(item) is entered.  The result of a task can be moved out once,  *)
(* so a frame waits once per task; and a task whose dependencies nobody    *)
(* allowed to run never becomes eligible, so (as WaitFor(list) does for    *)
(* its whole list) the frame has called Run on them first.                 *)
(***************************************************************************)
Taken(t) == tasks[t].completed /\ ~tasks[t].hasReturn

DependenciesRun(t) ==
    \E S \in SUBSET Task :
        /\ t \in S
        /\ \A u \in S : tasks[u].deps \subseteq S /\ (u # t => tasks[u].canRun)

WaitFor(w, f) ==
    /\ Active(w, f) /\ pc[f] = "body"
    /\ \E t \in Owned(f) :
         /\ ~Taken(t)
         /\ DependenciesRun(t)
         /\ subject' = [subject EXCEPT ![f] = t]
    /\ pc' = [pc EXCEPT ![f] = "polling"]
    /\ UNCHANGED <<pool, infos, stacks>>

\* One turn of WaitFor's loop: allow the task, move its result out if any.
Poll(w, f) ==
    LET t == subject[f] IN
    /\ Active(w, f) /\ pc[f] = "polling"
    /\ tasks' = [tasks EXCEPT ![t].canRun = TRUE, ![t].hasReturn = FALSE]
    /\ pc' = [pc EXCEPT ![f] = IF tasks[t].hasReturn THEN "body" ELSE "helping"]
    /\ UNCHANGED <<pool, present, handle, owner, subject, stacks>>

-----------------------------------------------------------------------------
(* ThreadTick and its two callers.                                         *)

\* The test ThreadTick applies to each id of the list, in order.
EligibleAnyTime(t) ==                 \* mutant: dependencies not looked at
    t \in present /\ tasks[t].canRun /\ ~tasks[t].running

EligibleAbsentWaits(t) ==             \* mutant: an erased dependency blocks
    /\ t \in present
    /\ tasks[t].canRun /\ ~tasks[t].running
    /\ \A d \in tasks[t].deps : d \in present /\ tasks[d].completed

Eligible(t) ==
    /\ t \in present
    /\ tasks[t].canRun /\ ~tasks[t].running
    /\ \A d \in tasks[t].deps : d \in present => tasks[d].completed

FirstEligible(w, i) ==
    /\ i \in DOMAIN queue[w] /\ Eligible(queue[w][i])
    /\ \A j \in 1 .. i - 1 : ~Eligible(queue[w][j])

(***************************************************************************)
(* ThreadTick on worker w's list: the first eligible id is erased from it  *)
(* and its function is moved out, to be called on top of the stack.        *)
(***************************************************************************)
TickKeeps(w) ==                       \* mutant: the id is not erased from the list
    \E i \in DOMAIN queue[w] :
        LET t == queue[w][i] IN
        /\ FirstEligible(w, i)
        /\ top' = [top EXCEPT ![w] = t]
        /\ below' = [below EXCEPT ![t] = top[w]]
        /\ clock' = clock + 1
        /\ startedAt' = [startedAt EXCEPT ![t] = clock + 1]
        /\ UNCHANGED queue

Tick(w) ==
    \E i \in DOMAIN queue[w] :
        LET t == queue[w][i] IN
        /\ FirstEligible(w, i)
        /\ queue' = [queue EXCEPT ![w] = RemoveAt(@, i)]
        /\ top' = [top EXCEPT ![w] = t]
        /\ below' = [below EXCEPT ![t] = top[w]]
        /\ clock' = clock + 1
        /\ startedAt' = [startedAt EXCEPT ![t] = clock + 1]

\* WaitFor calls ThreadTick and gets a function.
HelpPick(w, f) ==
    /\ Active(w, f) /\ pc[f] = "helping"
    /\ Tick(w)
    /\ pc' = [pc EXCEPT ![f] = "polling", ![top'[w]] = "claimed"]
    /\ UNCHANGED <<canstart, nextId, nextWorker, parked, infos, subject>>

(***************************************************************************)
(* WaitFor calls ThreadTick and gets nothing: no id is eligible, or the    *)
(* `tasks' mutex was taken by another thread (TryLock).                    *)
(***************************************************************************)
HelpNothing(w, f) ==
    /\ Active(w, f) /\ pc[f] = "helping"
    /\ Threads > 0 \/ \A i \in DOMAIN queue[w] : ~Eligible(queue[w][i])
    /\ pc' = [pc EXCEPT ![f] = "polling"]
    /\ UNCHANGED <<pool, infos, subject, stacks>>

\* A turn of ThreadStart's loop that gets a function to call.
WorkerPick(w) ==
    /\ canstart /\ w # 0 /\ top[w] = 0 /\ w \notin parked
    /\ Tick(w)
    /\ pc' = [pc EXCEPT ![top'[w]] = "claimed"]
    /\ UNCHANGED <<canstart, nextId, nextWorker, parked, infos, subject>>

ParkIdle(w) ==                        \* mutant: sleeps though the list is not empty
    /\ canstart /\ w # 0 /\ top[w] = 0 /\ w \notin parked
    /\ \A i \in DOMAIN queue[w] : ~Eligible(queue[w][i])
    /\ parked' = parked \cup {w}
    /\ UNCHANGED <<canstart, nextId, nextWorker, queue, infos, pc, subject, stacks>>

\* A turn of ThreadStart's loop that finds its list empty: sleep.
Park(w) ==
    /\ canstart /\ w # 0 /\ top[w] = 0 /\ w \notin parked
    /\ queue[w] = << >>
    /\ parked' = parked \cup {w}
    /\ UNCHANGED <<canstart, nextId, nextWorker, queue, infos, pc, subject, stacks>>

-----------------------------------------------------------------------------
(* The function AddTask wraps around the task's body.                      *)

\* It claims the task, or returns at once when the task is already running.
Start(w, f) ==
    /\ Active(w, f) /\ pc[f] = "claimed"
    /\ tasks' = [tasks EXCEPT ![f].running = TRUE]
    /\ pc' = [pc EXCEPT ![f] = IF tasks[f].running THEN "returned" ELSE "body"]
    /\ top' = [top EXCEPT ![w] = IF tasks[f].running THEN below[f] ELSE @]
    /\ UNCHANGED <<pool, present, handle, owner, subject, below, startedAt, clock>>

(***************************************************************************)
(* The body returned (its handles are destroyed by then): store the        *)
(* result, drop the executor's reference, go back to the frame below.      *)
(***************************************************************************)
FinishNoResult(w, f) ==               \* mutant: SetReturn forgotten
    /\ Active(w, f) /\ f # Main /\ pc[f] = "body"
    /\ Owned(f) = {}
    /\ tasks' = [tasks EXCEPT ![f].completed = TRUE, ![f].running = FALSE,
                              ![f].refs = Release(f).refs]
    /\ present' = Release(f).keep
    /\ pc' = [pc EXCEPT ![f] = "returned"]
    /\ top' = [top EXCEPT ![w] = below[f]]
    /\ UNCHANGED <<pool, handle, owner, subject, below, startedAt, clock>>

Finish(w, f) ==
    /\ Active(w, f) /\ f # Main /\ pc[f] = "body"
    /\ Owned(f) = {}
    /\ tasks' = [tasks EXCEPT ![f].completed = TRUE, ![f].running = FALSE,
                              ![f].hasReturn = TRUE, ![f].refs = Release(f).refs]
    /\ present' = Release(f).keep
    /\ pc' = [pc EXCEPT ![f] = "returned"]
    /\ top' = [top EXCEPT ![w] = below[f]]
    /\ UNCHANGED <<pool, handle, owner, subject, below, startedAt, clock>>

-----------------------------------------------------------------------------
FrameStep(w, f) ==
    \/ AddTaskRegister(w, f) \/ AddTaskEnqueue(w, f)
    \/ Run(w, f) \/ DropHandle(w, f)
    \/ WaitFor(w, f) \/ Poll(w, f) \/ HelpPick(w, f) \/ HelpNothing(w, f)
    \/ Start(w, f) \/ Finish(w, f)

Step(w) == (\E f \in Frame : FrameStep(w, f)) \/ WorkerPick(w) \/ Park(w)

Next == InitManger \/ \E w \in Workers : Step(w)

Spec == Init /\ [][Next]_vars

(***************************************************************************)
(* Fairness: the operating system keeps scheduling every thread, and every *)
(* task body takes its next step.  With pool threads a helper's TryLock    *)
(* may fail, but not for ever: it does not lose every race for the mutex,  *)
(* hence strong fairness for the tick that succeeds.                       *)
(***************************************************************************)
Fairness ==
    /\ WF_vars(InitManger)
    /\ \A w \in Workers : WF_vars(Step(w))
    /\ \A w \in Workers : SF_vars(\E f \in Frame : HelpPick(w, f))

FairSpec == Spec /\ Fairness

-----------------------------------------------------------------------------
(* Properties.                                                             *)

TypeOK ==
    /\ canstart \in BOOLEAN
    /\ nextId \in 0 .. MaxTasks
    /\ nextWorker \in Workers
    /\ queue \in [Workers -> Seq(Task)]
    /\ parked \subseteq Workers
    /\ tasks \in [Task -> Info]
    /\ present \subseteq Task
    /\ handle \subseteq Task
    /\ owner \in [Task -> Frame]
    /\ pc \in [Frame -> PC]
    /\ subject \in [Frame -> Frame]
    /\ top \in [Workers -> Frame]
    /\ below \in [Task -> Frame]
    /\ startedAt \in [Frame -> Nat]
    /\ clock \in Nat

\* Places a task can be: being added by a frame, a slot of a worker's list,
\* the top of a worker's stack, under another frame of a stack.
Adding(t) == {f \in Frame : pc[f] = "adding" /\ subject[f] = t}
AllSlots == UNION {{w} \X DOMAIN queue[w] : w \in Workers}
Slots(t) == {s \in AllSlots : queue[s[1]][s[2]] = t}
Tops(t) == {w \in Workers : top[w] = t}
Unders(t) == {u \in Task : pc[u] \in OnStack /\ below[u] = t}

(***************************************************************************)
(* Every task that was added and has not completed is in exactly one       *)
(* place: being added, in one slot of one worker's list, or one frame of   *)
(* one stack; a completed one is in none.  So no task is lost and none     *)
(* runs twice (AddTask, ThreadTick and the wrapped function).              *)
(***************************************************************************)
OnePlace ==
    \A t \in Task :
        Cardinality(Adding(t)) + Cardinality(Slots(t)) + Cardinality(Tops(t))
            + Cardinality(Unders(t))
        = IF Registered(t) /\ ~tasks[t].completed THEN 1 ELSE 0

(***************************************************************************)
(* The reference counting of RuningTaskInfo: a task's info stays in the    *)
(* map exactly as long as its handle or its execution may still look it up *)
(* with GetValue, and is erased by whichever of them lets go last.         *)
(***************************************************************************)
Held(t) == t \in handle \/ Adding(t) # {}

References ==
    /\ present = {t \in Task : tasks[t].refs > 0}
    /\ \A t \in Task : Registered(t) =>
         tasks[t].refs = (IF Held(t) THEN 1 ELSE 0) + (IF tasks[t].completed THEN 0 ELSE 1)

(***************************************************************************)
(* A task runs only after everything it depends on has completed, though   *)
(* ThreadTick takes an id missing from the map for a completed one.        *)
(***************************************************************************)
DependenciesFirst ==
    \A t \in Task : pc[t] # "new" => \A d \in tasks[t].deps : tasks[d].completed

\* No wake-up is lost: a worker asleep in ThreadStart has nothing to look at.
NoLostWakeup == \A w \in parked : queue[w] = << >>

(***************************************************************************)
(* No circular wait.  A frame in WaitFor needs its subject to complete,    *)
(* and cannot go on before the frame it is helping returns; both started   *)
(* after it, so following those edges never comes back.                    *)
(***************************************************************************)
NoCircularWait ==
    /\ \A t \in Task : pc[t] \in OnStack => startedAt[below[t]] < startedAt[t]
    /\ \A f \in Frame : Waiting(f) /\ pc[subject[f]] \in OnStack
                            => startedAt[f] < startedAt[subject[f]]

(***************************************************************************)
(* WaitFor walks its own worker's list without the WorkerDatas mutex; no   *)
(* other thread is appending to that list meanwhile.                       *)
(***************************************************************************)
NoQueueRace ==
    \A w \in Workers : \A f \in Frame :
        pc[f] = "adding" /\ nextWorker = w /\ Active(w, top[w])
            => pc[top[w]] # "helping"

\* Every WaitFor returns.
WaitReturns == \A f \in Frame : Waiting(f) ~> pc[f] = "body"

\* A pool worker gets to every runnable task of its list.
PoolServes ==
    \A w \in Workers \ {0} : \A t \in Task :
        (t \in ToSet(queue[w]) /\ Eligible(t)) ~> tasks[t].completed

-----------------------------------------------------------------------------
(* The abstract specification of the pool, and how this one implements it. *)

PhaseOf(t) ==
    IF ~Registered(t) THEN "none"
    ELSE IF pc[t] = "new" THEN "waiting"
    ELSE IF Taken(t) THEN "taken"
    ELSE IF tasks[t].completed THEN "done" ELSE "running"

Pool == INSTANCE TaskPool WITH phase <- [t \in Task |-> PhaseOf(t)],
                               needs <- [t \in Task |-> tasks[t].deps]

(***************************************************************************)
(* The thread pool implements TaskPool: a task begins once, after its      *)
(* dependencies, and WaitFor takes its result once, after it has ended.    *)
(***************************************************************************)
ImplementsTaskPool == Pool!Spec

=============================================================================
