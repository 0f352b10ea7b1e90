# A verification project for UCodeLang

TLA+ models of parts of UCodeLang (a compiled and interpreted language: compiler,
package manager, run time, debugger, language server), the TLC runs that check them on small
instances, and TLAPS proofs for every value of the constants.

    tlc -config <run>.cfg <module>.tla      one run (the table under "Runs")
    tlapm <component>_proofs.tla            the proofs of one component

`PROJECT.json` lists the runs, maps every definition to the lines of `src/` it stands for, and
lists the hazards, the findings and the theorems.

## 1. The system

The program's own code lies under `src/UCodeLang/` (the library and its analyzer),
`src/UCodeLangCL/` (command line), `src/UCodeLanguageSever*/` (language server), `src/UCodeIDE/src`
and `src/UCodeAPI/` (the standard library, in UCodeLang). `UCodeIDE/Dependencies`,
`UCodeLanguageSeverlib/json` and the website are vendored or generated.

Almost all of it is sequential and CPU-bound. The behaviours that are hard come from five places:
a *task pool* whose `WaitFor` runs other tasks on the stack of the one that waits; *files* that
outlive the process and that other programs change (sources, the dependency file, the output,
intermediate files, the module index, downloads); one *Compiler* shared by all tasks of a build;
the *three threads* of the language server, which hand messages on through queues, try-locks and condition variables;
and the *stack* of a running program, which a panic takes apart while the destructors it calls use it.

| component | state | operations | hard part | correct if |
|---|---|---|---|---|
| **Task pool** `LangCore/TaskManger.hpp` | map of task infos with two references each; one list of ids per worker; round-robin cursor; sleeping threads; the stacks of all threads | `Init`, `AddTask(deps)`, `Run`, `WaitFor`, handle destruction, `ThreadStart`, `ThreadTick` | real threads and mutexes; a waiting thread *helps* with other tasks on its own stack; erased infos count as completed | no task lost or run twice, dependencies first, infos erased neither early nor never, no lost wake-up, no circular wait, every wait returns |
| **Incremental build** `Compiler::CompileFiles_UseIntDir`, `DependencyFile` | source files; dependency file (time, size, hash, uses of each file); intermediate files; the output | scan, closure over users, parse, compile, write output, write intermediate files, write dependency file, reuse | the files change between two reads; killed between two writes; half-written files; deleted files | the result is what a build from nothing would give |
| **Modules** `ModuleFile.cpp` (`BuildModule`, `BuildFile`, `DownloadModules`), `ModuleIndex` | global index, download directories, the shared `Compiler` and its settings, one stack of tasks | get, build, build a build-script, link | tasks of different modules interleave on one stack and one compiler; scripts change its settings; early returns in the middle of all that | a build does what building its modules one by one would; settings come back; links are to what was built |
| Front end (lexer, parser, `SystematicAnalysis`) | syntax trees, symbol table, pass counter | one call per compilation | dependency order of several passes | |
| IR, optimizer, back ends | IR lists, register files (`RegistersManager`) | one call per compilation | register spilling and locking | |
| Serialisation (`BitMaker`, `UClib`, `ReflectionData`) | none | to and from bytes | truncated input, widths | read back what was written |
| Linking `UCLibManger`, `RunTimeLib` | code, static and thread bytes of the loaded libraries | add library, link | addresses are shifted by what was linked before | each address names what it named in its library |
| **Calls and panics** `Interpreter`, the code of `UCodeBackEnd` | the stack of words, the program counter, register E, the status of the last call | call, return, panic (`StackUnwinding`), destructor, overflow | words of which nobody knows what they are; destructors that call functions in the middle of an unwinding; a full stack | calls return to their callers; a panic destroys what is alive, once, through a pointer to it, and reaches the host |
| Run time `RunTimeLangState`, `Jit_Interpreter` | thread state, tier of each function | load, allocate, compile a function | moving a function between tiers while it is on the stack | |
| Debugger `ProfilerDebuger`, `Debug_Interpreter` | breakpoints, stepping mode, call-stack depth | step in, over, out, continue | recursion and returns while stepping | stops where asked |
| **Language server** `UCodeLanguageSever*`, `UCodeAnalyzer` | open documents, lists of errors, phase of the session; two queues, two counters, three threads | open, change, close, hover, ...; read, hand on, write | notifications without the lock, try-locks that fail, batches, analysis a step late, a server that is gone | no message lost, handled twice or out of turn; diagnostics are those recorded; the documents are the editor's |
| Command line `UCodeLangCL/src/App.cpp` | none | parses arguments, calls the above | `clean` deletes what builds rely on | |
| `IOLink`, test runner, UAssembly, hot reload, IDE | little or none | thin wrappers, loops, text, or (hot reload) a function that returns at once | | |

How they meet: the command line, the IDE and the language server call *Modules*; a module build
adds its tasks to the *Task pool* and each of them calls *Incremental build*; that calls the front
end, the IR and a back end, and writes a library that *Linking* and the *Run time* load. A build
script is itself compiled, loaded and run in the middle of a module build.

`PROJECT.json` lists every component with what is modelled of it and why the rest is not, and
the hazards of the code at their lines.

## 2. The modules

| component | specification | abstract specification | invariant | proofs | for TLC |
|---|---|---|---|---|---|
| Task pool | `TaskManger` | `TaskPool` | `TaskMangerInvariant` | `TaskManger_proofs` | `MCTaskManger` |
| Incremental build | `IncrementalBuild` | `BuildService` | `IncrementalBuildInvariant` | `IncrementalBuild_proofs`, `IncrementalBuildSettles_proofs` | `MCIncrementalBuild` |
| Modules | `ModuleBuild` | `ModuleService` | `ModuleBuildInvariant` | `ModuleBuild_proofs` | `MCModuleBuild` |
| Language server | `LSPMain` on `LSPEditor` on `LSPSever` | `LSPService` | `LSPMainInvariant` | `LSPMain_proofs`, `LSPSession_proofs` | `MCLSPMain` |
| Calls and panics | `Interpreter` on `UCodeProgram` | `CallService` | `InterpreterInvariant` | `Interpreter_proofs` | `MCInterpreter` |

`Selection` has one operator, the elements of a sequence that are in a set (`Only`), which the language server's modules use; it is a
recursive function, where the community modules' `SelectSeq` and `FoldSeq` take an operator. `SequenceFacts` has the
lemmas about it and about `FlattenSeq` and `SetToSeqs`.

An operator whose comment says *mutant* is a plausible bug in the definition that follows it. No
specification uses it; put in place of that definition it must make a property fail.

### 2.1 TaskManger

*State.* `tasks` and `present` are the map of `RuningTaskInfo`s (flags, dependencies, references);
`queue` is each worker's `TaskToID`; `nextWorker` is the round-robin cursor; `parked` are the pool
threads asleep on their condition variable; `handle`/`owner` say which `Task` objects live in which
frame. A *frame* is the body of a task or the main program (frame 0); `top` and `below` are the
stacks: calling a task from `WaitFor` pushes its frame on the waiting thread's stack.

*Actions.* One action per critical section of the `tasks` or `WorkerDatas` mutex, or one step of a
frame between two of them. `AddTask` is two (`AddTaskRegister`, `AddTaskEnqueue`), because it takes
the two mutexes one after the other; a turn of `WaitFor`'s loop is `Poll` followed by `HelpPick` or
`HelpNothing`; the lambda that `AddTask` wraps around a body is `Start` and `Finish`. What a body
does is chosen freely among what it may do with its handles.

*Restrictions, all of them obeyed by every caller in the repository.* With pool threads only the
main program adds tasks (`MayAdd`): `WaitFor` walks its worker's list without the mutex that
`AddTask` holds. A frame waits for a task once (the result is moved out), and only when the
dependencies of that task have been allowed to run (`WaitFor` guards). `Init` comes before
`AddTask`. `HelpNothing` may happen with pool threads even if a task is eligible, because
`ThreadTick` uses `TryLock`.

*Left out.* `OnDone` (never called), move assignment over a live handle, and destruction of the
manager while threads run. `startedAt` and `clock` are history, for the argument about waiting.

### 2.2 IncrementalBuild

*State.* `disk` is each file's content and last write time; `entry` the dependency file; `int` the
intermediate files that exist; `out` the output file, which is absent, torn, or whole and then
compiled from certain contents; `phase`, `kind`, `seen` and `text` are the build in progress: what the
scan classified, the times and sizes it read, and the texts it has opened. `during` and `quiet` are
history: what each file has held since the build began, and how many builds returned in a row
without anything else happening.

*Actions.* `Scan` (times, sizes, hashes), `Load` (closure over users; read what is not open), then
`Reuse`, or `Fail`, or `OpenOutput`, `WriteOutput`, `WriteIntFiles`, `Save`: the build in the order of the
code, cut where another program could come between. The environment edits, removes and restores
files, also under a build (`Edit`), kills builds (`Crash`, and `CrashSaving` with only part of the
dependency file written), deletes the output or intermediate files, or runs `uclang clean`. A build whose external
library is missing throws out of `last_write_time` before it has written anything (`LibraryMissing`).

*A cut dependency file.* `FromBytes` reads what is there: whole entries, and of the one at the cut as much as was
written (`CutEntry`). A path that is cut names nothing; times, sizes and the hash that are cut are 0 or what they were, and
as the hash is the last of them and no content has the hash 0, such an entry matches no file (`NoHash`); an entry
whose hash is there may lack dependencies. So `Recorded` (there is an entry) is weaker than `Known` (it has a hash).
The model lets any set of entries be the whole ones, not only those in front of the cut.

*Abstractions.* The hash of a text is its content (no collisions). The settings of the compiler are
not in the model, as they are in no fingerprint either. The second output file of a native
back end is not modelled. A file is removed only while no build runs. Whether a set of texts compiles is
`Rejects`: a text may be `Bad`, or use a file that is not there. The write time of an external library
is read by the code but does not count, so it is always 0. One process builds. `FromBytes` is that of
a published build, in which its `UCodeLangThrowException` does nothing (`premake5.lua:124`); in the others a cut file ends the
compiler. What is left of a cut count of dependencies is not read as one: that could add empty paths only.

*Flags.* `MayCrash`, `MayRevert`, `MayRemove`, `MayLose`, `MayFailWrite` say what the environment does.
`Benign` (in the invariant) names the environments in which the build is right; every flag it
excludes has a configuration that shows what goes wrong (section 4).

### 2.3 ModuleBuild

*State.* The world (`index`, `dirs`, `broken`, `failing`), the request (`known`: the index as the
request was given it; `asked`: its settings), the settings of the shared compiler, and the tasks of the
request. The pool of a module build has no threads (`ModuleFile.hpp:116-131`), so what `TaskManger`
shows for 0 threads is used here: whoever waits runs the tasks in the order they were added, on top of
its own frame. A task is therefore taken in the order of its id, the running tasks are the frames
of one stack in increasing order, and a frame is an id with a `stage` (which tasks it added and waits for), the
`next` and `last` task it waits for, and its local variables: `good`, `saved` (`OldSettings`),
`paths` (what `GetPaths` said before), `outpath` (what it says afterwards, for the link) and `links`.

*Actions.* One action is what the thread does from one wait to the next: `Take` a result; `Begin` a
build task or `Get` a download task while waiting; and the parts of `BuildModule` after each wait:
`Downloaded`, `Unobtainable`, `BuildModuleDependencies`, `DependencyFailed`, `Compile`, `BuildFile`
(which saves the settings and sets the default ones), `ScriptUnobtainable`, `BuildScriptDependencies`,
`ScriptFailed`, `RunScript`. `CompileFiles` is one step: the compiler does not use the pool
while it compiles, so nothing can come between; what it does is `IncrementalBuild`. `Request` is
`uclang build` or `uclang get`; all that is left of an earlier request is in `index` and `dirs`.

*Abstractions.* A setting stands for target and optimizations. The list of error messages is not
modelled. A module whose file cannot be read counts as broken. What is broken is chosen in the initial state: a request
keeps nothing of the world except `index` and `dirs`, so changing it between two requests would give no more than
another initial state does. A failing script may or may not have had the module compiled before it
failed. One process uses the index.

### 2.4 LSPMain, LSPEditor, LSPSever

*State.* `LSPSever` is the server as one object: `files` are the open documents (text, the text lexed last, what the
lexer and the parser found, the text of the tree), `order` is how a loop over the hash table meets them, `ErrorList` and
`ClientErrors` are the analyzer's list and the copy that was published, the flags are the phase of the
session, `SeverPackets` is what was sent. `LSPMain` is the process around it: the hand of each
thread (`pcM`, `pcS`, `pcO`), the queue to the server, the batch it runs (`PacketsToRun`), and the counters `count` and `count2`
with what each waiting thread has seen of them. `LSPEditor` is the other end: all it has sent and received.

*Actions.* Main: `Read` (which frames the message, `Stream`), `LockInput`, `AddPacket`, `CountPacket`. Server: `StartSever`, `TestCount`
(with the first part of `Step`), `WaitForCount`, `RunPacket` for each packet (`OnReceivedPacket`, one handler per method),
`UpdateClientErrorList` (with the analyzer's step), `CountOutput`, `EndSever`. Writer: `TestCount2`, `WaitForCount2`, `GetPackets`. Each
notification may fall between a test and its wait; a `try_lock` fails when the other side is in its section.

*Fused steps.* A counter's increment and its notification; `GetPackets` and the writing of what it returned (only this thread
writes); the messages of one `UpdateClientErrorList` (the handlers before it send one at a time, as in the code).

*Abstractions.* Texts are model values; `LexError` and `ParseError` say what is found in them, `Depth` and `Spaceless` what framing
by braces and `cin >> V` do to them. The order of the hash table is any order, chosen again when a document is added.
`std::sort` keeps the order of equals for lists of up to `StableUpTo` elements (16 in libstdc++, more in Microsoft's library; the configurations say 16) and may leave any sorted
rearrangement of longer ones (`Sortings`). The JSON of the messages is not modelled.
The editor keeps to the protocol. `try_lock` fails only when the lock is held.

### 2.5 Interpreter, UCodeProgram

*State.* `UCodeProgram` is what a program is after the back end: for each function its steps (`call`, `drop` = `CleanupFuncCall`,
`throw`, `branch`, `plain`) and the size of its frame. `stack` is, from the outside in, each return address with the number of words
above it; `pc` is in code, in the section of `StackUnwinding` for a function, at the host, or `Wild`; `ref` is register E, where `StackUnwinding`
keeps the address it unwinds from; `this` is the pointer that the last destructor got; `panic` the addresses it reports; `left` what an
exception left behind on the stack.

*Actions.* `Call` (the host), `Go`, `CallFunc`, `CleanupFuncCall`, `Return`, `ThrowException`; of `StackUnwinding` one entry of
`FuncCleanUpFuncions` per `CleanUpVar` and the end of a section as `NextFrame`; `ThrowStackOverflow`. A pop or a return takes the top word whatever
it is: if it is not an address, control goes where a data word says (`Wild`), and `TypeOK` fails. The code generated by the back end
and the instructions that run it are one step where nothing else can see the stack between them.

*Abstractions.* What words hold, and registers other than E. All words have one size, and the room of the stack (`MaxDepth`) counts return
addresses only. `Listed` are the functions `StackUnwinding` knows (`_Input->Funcs`; initialisers of static and thread
variables are not among them). A call of UCode by the host function of a UCode call is not modelled.

*Tame programs.* `Tame` excludes what goes wrong: a call that may panic made with words pushed (section 4), a destructor that panics, a panic
out of a function that is not listed, and one thrown by a function without a frame. `ThrowJumps` stores where the call of `ThrowExceptionStr`
will be (`UCodeBackEnd.cpp:2953`) as if a prologue were put before it; a function of frame size 0 has none (`:1134`), so `LinkFuncs` (`:540`) writes the
address into the instructions behind the call. What these then do is not modelled: `ThrowException` goes to `Wild`.

## 3. Runs

| run | configuration | question | instance |
|---|---|---|---|
| `tasks_nested` | `TaskMangerNested` | the pool as the compiler uses it: bodies add tasks and wait for them | 0 threads, 3 tasks; 9 947 states |
| `tasks_pool` | `TaskMangerPool` | a pool thread that sleeps, wakes and races with the main program | 1 thread, 3 tasks; 26 637 states |
| `build_edits` | `BuildEdits` | files edited and put back at any moment, also under a build, and texts that do not compile | 2 sources in a chain, 3 contents, one of them bad; 480 864 states |
| `build_crash` | `BuildCrash` | builds killed at every step; empty files; a library | 2 sources, 1 library, 2 contents, 2 times; 824 064 states |
| `build_disturbed` | `BuildDisturbed` | everything at once: what survives | 2 sources, 2 contents; 566 176 states |
| `module_tree` | `ModuleTree` | modules, scripts, downloads and failures in every combination | 4 modules, 2 scripts, 2 settings; 267 872 states |
| `lsp_pipe` | `LSPPipe` | the three threads, their queues and locks, and texts that break the framing | 1 document, 2 texts, 5 messages; 232 851 states |
| `lsp_documents` | `LSPDocuments` | documents that open, change and close while they are analyzed a step late | 2 documents, 3 texts, 5 messages; 1 109 976 states |
| `calls` | `Calls` | calls, recursion, panics and destructors of a tame program, on a stack that overflows | 5 functions, 9 addresses; 3 603 states |
| `module_settings`, `lsp_synced`, `calls_pushing` | `ModuleSettings`, `LSPSynced`, `CallsPushing` | one finding each (section 4) | |

What the properties say:

* Task pool. `OnePlace`: an added, uncompleted task is in exactly one place (being added, one slot of
  one list, one frame of one stack). `References`: an info is erased exactly when nobody can look it up any more.
  `DependenciesFirst`. `NoLostWakeup`. `NoCircularWait`: what waits started before what it waits for. `NoQueueRace`: the
  unlocked walk in `WaitFor` meets no `AddTask`. `WaitReturns`, `PoolServes` (liveness).
  `ImplementsTaskPool`: all that a user of the pool sees are tasks that begin once, after their dependencies, and whose
  result is taken once.
* Incremental build. `UpToDate`: when the next scan would find nothing to do, the output is whole and
  current. `EntriesDescribeOutput`: the dependency file speaks of the output beside it. `SettlesSoon`:
  the recompilations that dropped entries cause come to an end within one more build than there are files; the bound
  is reached. `CompilesFresh`: whatever has been disturbed, a build that saw a change returns a compilation of what the
  files held during it. `ImplementsBuildService`: the results are those of a build from nothing.
* Modules. `EveryTaskAwaited`: no task is left behind by an early return. `SettingsBack`: the request
  gives the compiler back as it got it. `OutputsInPlace`: settings and directory of an output agree, although they are
  read at different times. `LinksBuilt`, `LinksComplete`: a module is linked with its imports, all of them,
  each at the path where this request built it. `BuildReturns` (liveness). `ImplementsModuleService`: a build succeeds exactly
  if each module it needs, directly or not, is in the index, has no errors and has a script that works.
* Language server. `NothingForgotten`: what waits for a thread is counted past what that thread has seen, failed `try_lock`s included.
  `AnswersInTurn`: each request gets the answer its phase of the session calls for, in turn, whatever the batches. `DrainedWhenIdle`
  (liveness): a message that finds both threads asleep takes along all before it, those whose wake-up was missed too. `ImplementsLSPService`: it is one server with a
  queue on each side. `ToldErrors`: the diagnostics the editor saw last are those the server recorded. `FilesFound`: until shutdown no list of errors names a
  document that is gone.
* Calls and panics. `TypeOK`: control never goes where a data word says. `Aligned`: above each address are exactly the words of its function and of its
  pending call. `ImplementsCallService`: calls return, and panics destroy each variable that is alive once, through a pointer to
  itself. `PanicsEnd` (liveness).

That every message is handled *soon* does not hold: a notification between test and wait is lost, and its message waits for the
next one. `NothingForgotten` and `DrainedWhenIdle` are what does. Likewise diagnostics lag: the list is made before the documents are analyzed, so
they reach the editor with the packet after.

*Bounds, and why they are enough.* `MaxTasks = 3` is the least number with a task that depends on another while a third is
helped with; 0 threads give the nesting, 1 thread the races (a second pool thread shares nothing with the
first but the mutexes). Four tasks without threads and two threads with three tasks were checked as well and pass, and
the safety properties are proved for all numbers. Two source files make a chain (one uses the other only when
it holds a certain content); with three contents of which two have the same size, a file can change without its
size changing, or break. `MaxStamp` is 0 where old times may come back (then all times may as well be equal, which is
the worst case) and 1 where time only moves on; a greater one lets the same things happen again. `QuietCap` caps the
history variable `quiet` two above the number of files, so above what `SettlesSoon` allows. The tree of modules is the smallest in which
one module is imported twice, a script imports what a sibling imports, and a script's import has a script of its own;
`MaxTask = 22` is never the reason that a step is refused (the run checks for deadlock).
Five messages (`MaxSent`) are initialize, initialized and three more: a document opened, changed and closed, or closed while another has errors;
`MaxOther = 1` lets a request come at any moment. The program of `calls` has each kind of step, recursion, a destructor that has variables and calls a function, and a
variable that ends before the panic; nine addresses (`MaxDepth`) hold an unwinding with destructors above a recursion, or overflow at any place. Programs of every shape,
and sessions of every length, are what the proofs are about.

*Deadlock.* The runs of the task pool do not check it, because a program that has used all its tasks stops; that no
wait is stuck is `WaitReturns`. Neither do the language server's: when the editor sends nothing more, or the process has died, nothing happens. All other runs check it.

*Fairness.* Task pool: each thread keeps being scheduled (weak fairness of `Step(w)`), and a helper that finds a task
eligible again and again does not lose every `TryLock` (strong fairness of `HelpPick`). Bodies are assumed to go on: what a body does
is the caller's. Modules: weak fairness of the one thread, which never waits for anything outside. Incremental
build: no liveness is stated, so no fairness is needed. Language server: each thread is scheduled (weak fairness of each); the editor need not send. Calls: weak fairness of
`Extecute`, the loop of `Call`; the host need not call.

## 4. Findings

Each is a run that is expected to fail, on a property the code's own documentation or comments state.

* `module_settings` - while a build script is compiled, the shared compiler has default settings
  (`ModuleFile.cpp:659`), and the waits inside run tasks of other modules, which are then built for the default target
  (against `doc/src/UCodeCL/Commands/Build.md`). `OutputsInPlace` and `LinksBuilt` show that they are at least placed
  and linked consistently.
* `lsp_synced` - messages are read with `std::cin >> V` (`main.cpp:196`), which skips white space: the server's copy of a document is the editor's without
  its blanks, although the server asks for the full content.
* `calls_pushing` - `StackUnwinding` finds variables from the top of the stack and drops frames by their size alone
  (`UCodeBackEnd.cpp:841`, `:930`). If the call that panicked had parameters or saved registers on the stack, destructors get wrong pointers and a
  pushed word is taken for the next return address (against `Panic.md` and `defer.md`).

### Further configurations, all expected to fail

They are not among the runs of `PROJECT.json`; each shows why the passing runs and the theorems exclude something.
The first four violate `ImplementsBuildService` of `MCIncrementalBuild`: what they do is excluded from `build_edits` and `build_crash`, which therefore
say nothing of it, and only `CompilesFresh` holds with it (`build_disturbed`). `ModuleGet` violates `GetDownloads` of `MCModuleBuild`, `CallsFrameless` violates `TypeOK` of `MCInterpreter`.

* `BuildRemoved` - the loop under the comment "check for removed" (`Compiler.cpp:570`) goes over the entries of the *new*
  dependency file, which is still empty, so a deleted source file is never noticed.
* `BuildOutputLost` - if only the output is gone, `Files` is empty (nothing changed), and an empty program is compiled,
  written and returned as success (`Compiler.cpp:963`).
* `BuildWriteFails` - an output that cannot be opened for writing is recorded as built (`Compiler.cpp:1025`).
* `BuildCrashRevert` - the output is replaced before the dependency file (`Compiler.cpp:1024`); a build killed in between, and
  files put back to what they were, make the next build return the wrong output.
* `ModuleGet` - a failed download leaves its directory, which counts as a finished download the next time
  (`ModuleFile.cpp:476`); and the test that compares the downloaded module with the one asked for is inverted
  (`ModuleFile.cpp:586`).
* `CallsFrameless` - a panic in a function without a frame patches the wrong instructions (`UCodeBackEnd.cpp:2953`, section 2.5).

### Seen while reading, without a run

* Calls: a `Call` that panics before any return may say `Success`, as `RetValue` is never reset (`Interpreter.cpp:126`); a stack overflow leaves its words on the
  stack for every later `Call` (`left` in the model); a panic inside a destructor makes `StackUnwinding` pop its own address; functions that initialise
  static and thread variables are not known to it; parameters passed by value are not destroyed by a panic.
* Language server: with one message more, a document closed in the same batch as shutdown is looked up and the process dies, which is why `FilesFound` says
  *until shutdown*; before the server's thread has started and after it ended, the other two use a null or freed server (`Die` in `LSPService`).
* Debugger: a step at the `Return` of the outermost function does not stop (`ProfilerDebuger.cpp:183`).

## 5. Proofs

The theorems are about `Spec`, and none uses its fairness. The constants are arbitrary, under the assumptions named in the modules
(TLC evaluates these in the runs): any number of threads and tasks; any finite set of source files, any contents, sizes and uses;
any modules, imports (also cyclic ones), scripts and settings; any documents, texts and sessions; any tame program and any room on the stack.

**TaskManger_proofs.** `IInv` has 14 named parts. The properties are not inductive because each depends on where *all* frames are:
`StacksSound` (the stacks hold each running frame once, and only the innermost acts), `FlagsMatch` (the flags of an info tell where
its frame is), `ListsSound`/`AddingSound`/`NotLost` (ids in the lists are distinct and not started), `SubjectsOwned` and
`OwnersSound`, and `StartOrder`, which gives the acyclic waits: an owner starts before its tasks, a frame before those above it.
Proved: `TypesCorrect`, `TasksInOnePlace`, `ReferencesExact`, `DependenciesRespected`, `WakeupsKept`, `WaitsAcyclic`,
`QueuesRaceFree`, `PoolImplemented`.

**IncrementalBuild_proofs.** `TypesCorrect` and `CompilationsFresh` hold in every environment; the others assume `Benign`: nothing is deleted, writes do not
fail, and if old contents and times can come back, builds are not killed and files are not empty. The invariant's parts follow the build: what is recorded
is what is there or older, or matches nothing (`EntriesOld`), the output was compiled from what is recorded or its entry is outdated
(`OutputRecorded`), what the scan found stays true as long as the build relies on it (`ScanValid`), each text was there during
this build (`TextsValid`), and a reused output was current at some moment of it (`ReuseValid`). Proved: `OutputsUpToDate`,
`EntriesDescribe`, `ServiceImplemented`. `CompilationsFresh` has a smaller invariant, `Fresh`, which needs nothing of the environment: what
a build has read of a file, that file has held since the build began.

**IncrementalBuildSettles_proofs.** `BuildsSettle` bounds the builds that compile again over files that do not change, by one more than there are source files.
Its hypotheses are that the output and the dependency file can be written, and that no source files use each other in a circle (`Acyclic`: in every set of source
files one uses none of the set, whatever it holds; TLC evaluates it for the runs' instances). Everything else may have happened before: files removed, outputs lost, builds killed. A build compiles again although nothing
changed because the one before dropped entries. `SettleInv` counts what is left of that: a build that began in the quiet has seen the files as they are (`QuietScan`), and
after `quiet` such builds there is a set of at least `quiet - 2` source files that no later build compiles again, closed under what they use (`Settled`, `Progress`); by `Acyclic` each further
build adds one to it. Files that have errors are the other way to end (`Stuck`): nothing is written until they change.

**ModuleBuild_proofs.** The invariant says of each frame on the stack what it waits for (`WaitingAt`), what it has learned
(`LearnedAt`), what it has collected to link (`CollectedAt`), and of each result what it means (`ResultAt`). The key to the
settings is `Base(t)`, the settings that frame t finds when the frames above it have returned: the defaults if a frame *under* it is in a
script, else those of the request. Each step is then one of four: the frame on top returns (`ReturnStep`), adds tasks and goes on
(`EnterStep`), begins another task (`BeginStep`, `GetStep`) or takes a result (`TakeStep`). The refinement rests on two
lemmas: the modules built with success are closed under what they need (`BuiltIsBuildable`), and a fault spreads to all
that need it (`NotBuildable`). Proved: `TypesCorrect`, `TasksAwaited`, `SettingsRestored`, `OutputsPlaced`, `LinksWereBuilt`,
`LinksAreComplete`, `ServiceImplemented`.

**LSPMain_proofs.** `LSPInv` says what the queues may hold, that no waiting thread has seen more than was counted (`CountsOK`), that
the server's thread has messages only while it runs them (`SeverThreadOK`), and that framing is out of step only after a text whose braces do not balance (`FramingOK`).
`NothingForgotten` is inductive with these. The refinement maps the queue, the batch and the packet in main's hand to one sequence,
so that `AddPacket` and `TestCount` stutter. The refinement and the session's proofs share a lemma, `SessionStep`: every step of the three threads sends (`Sends`), handles
one message (`Serves`), publishes (`Reports`), delivers (`Delivers`), kills the process (`Dies`) or does none of that (`Aside`). Proved: `Invariance`, `NothingIsForgotten`, `ServerImplementsService`.

**LSPSession_proofs.** What the server does with the messages, for all documents, texts and lengths of a session. `SessionInv` is proved over the six steps of `SessionStep`. Its main part is
`InTurn`: the message at place i of those on their way is the one the editor sent at place `Handled + i`, and the phase and the set of open documents are those
of the first `Handled` messages. With it the answer to the next message is the one `AnswersInTurn` asks for, although the server sees only its flags; with `EditorKeepsRules` (the
editor changes and closes what it has open) the documents the server looks up are there. `ToldErrors` needs `ListOK`, that errors of one document stand together (`Runs`): the list is made document by document,
a stable sort by the length of the path keeps runs, and grouping runs gives one message per document (`GroupsAreRight`). `ToldErrors` says nothing of a list longer than `StableUpTo`, and could not: there
the sort may mix the errors of two documents whose paths have one length, and each then gets several messages, the later replacing the earlier. No run reaches such a list. Proved: `SessionInvariance`, `TypesKept`,
`AnswersAreInTurn`, `EditorIsTold`, `FilesAreFound`.

**Induction over sequences.** The library's induction theorems take an operator and cannot be instantiated here. `SequenceFacts` has them about sets instead: a set that has 0 and with each number the next has
all of `Nat` (`NatSet`, from the well-foundedness of `<`), and one that has the empty sequence and with each sequence all that are longer by one element has all of `Seq(S)` (`SeqSet`). What `Only`,
`FlattenSeq` and `Grouped` compute is proved by them; the recursive function inside each is handled by its existence and uniqueness on 0..Len(s).

**Interpreter_proofs.** All assume `Tame`, so functions that throw have a frame. `CallInv` reads the stack as a chain of places and unwindings (`Chain`): each leads to the next (`Linked`: a call to its function, a
panic to the unwinding, an unwinding to the destructor it is at), only the first address is the host's (`StackOK`), and the heights are `Aligned`. An
address is then found where one is popped. Each action is one of few moves of the chain: `MoveStep` (on in the same place), `EnterStep`,
`PanicStep`, `DestroyStep`, `ReturnStep`, `BackStep` (a destructor returns), `NextStep` (the next frame is unwound). Proved: `ControlStays`,
`StackAligned`, `InterpreterImplementsService`.

**Only model-checked.** The liveness properties `WaitReturns`, `PoolServes`, `BuildReturns`, `DrainedWhenIdle` and `PanicsEnd`: they need fairness and ENABLED, which the provers do not
reason about. Every safety and action property of the passing runs, and every refinement, has a theorem; the refinements are of the abstract
specifications' safety, as these state no fairness.

## 6. Not modelled

* Front end, IR and optimizer: passes over syntax trees and lists, sequential, with no state from one compilation to the next. `IncrementalBuild` has of them what it relies on: which
  contents have errors, and which files a file uses.
* Back ends: only what `UCodeProgram` has of `UCodeBackEnd`. The selection of instructions, the registers and the native and web back ends are left out.
* Linking (`UCLibManger`): one pass over lists. `LinkLib` does not move the addresses of the second library's code (`:126`), but wherever the repository links two
  libraries the second holds host functions only and has no code, so there is no behaviour to check.
* Serialisation: conversions of data. Of the allocator (`Allocator`), the mode with a state is never switched on; `HotReload` returns at once (`RunTimeLangState.cpp:246`).
* The other instructions of the interpreter, thread state, the JIT and the tiers; the debugger, whose loops look at the stack after every instruction, below the steps of `Interpreter`.
* IDE, standard library, UAssembly, test runner and `IOLink`: no state of their own, wrappers, or programs in the language.
* Of the modelled components: what sections 2.1 to 2.5 leave out. Two processes in one directory, and two that write the
  index, are hazards of the code for which there is no model; nor is there one for a move assignment over a live task handle
  (`TaskManger.hpp:351`) and for a dependency that is never run (`:715`), neither of which a caller in the repository does, nor for the plain `bool` that lets
  the pool's threads start and is never cleared to stop them (`:647`): the threads are there from the beginning, and the manager is not destroyed.

## 7. Plan

Done: 1. `TaskManger`, 2. `IncrementalBuild`, 3. `ModuleBuild`, 4. `LSPMain`, 5. `Interpreter`, with their abstract specifications and proofs.

Next, in the order of what the behaviour is worth:

6. `Debugger`: `Interpreter` cut into instructions, and stepping over it. Runs: recursion, return out of the stepped function, breakpoint inside a step, panic
   inside a step.
7. `CallTiers`: `Jit_Interpreter` - when a function moves to compiled code, while it is on the stack. Abstract: `CallService`, whichever tier ran it.
8. Two processes in one build directory, and two that change the index of modules: `IncrementalBuild` and `ModuleBuild` with a second actor.
9. The settings in the fingerprints of `IncrementalBuild`, with which `ModuleBuild` could use it in place of its one-step `CompileFiles`.
10. `Registers`: `RegistersManager` - locking and spilling. To prove: a locked register is not given out.
11. Operators for `BitMaker` (read back what was written, truncated input) and for the order of the analysis passes, checked over bounded
    inputs.

`Interpreter` is to be extended by calls of the host and back into UCode, whose status is that of the inner call, and `ModuleBuild` by the commands that edit the index.
