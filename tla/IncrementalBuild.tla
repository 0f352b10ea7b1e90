-------------------------- MODULE IncrementalBuild --------------------------
(***************************************************************************)
(* Compiler::CompileFiles_UseIntDir: the incremental build of a module.    *)
(*                                                                         *)
(* A build compares the files with the entries of the dependency file of   *)
(* the last build, reuses the output when nothing changed and otherwise    *)
(* compiles ALL files, writes the output, the intermediate files of the    *)
(* changed ones and at last a new dependency file.  Other programs change  *)
(* the files, also while a build runs, and a build may be killed.          *)
(*                                                                         *)
(* One action is one stretch of the build between two reads or writes of   *)
(* files that another program could observe or come between.  Reads of     *)
(* DIFFERENT files in one stretch are one step: a change between two of    *)
(* them has the same effect as one before or after all of them.            *)
(***************************************************************************)
EXTENDS Integers, FiniteSets

CONSTANTS
    Source, External,   \* source files, and libraries passed as ExternalFiles
    Content, Absent,    \* what a file may hold; no such file (or no such entry)
    NoHash,             \* in place of the content: an entry whose hash was not read
    Bad,                \* contents with an error in them
    Size,               \* the size of each content
    Uses,               \* Uses[f][v]: the files source file f takes symbols from when it holds v
    MaxStamp,           \* bound: last-write times are 0 .. MaxStamp
    MayCrash,           \* a build may be killed
    MayRevert,          \* a file may come back with an old content and time
    MayRemove,          \* a file may be deleted
    MayLose,            \* the output may be deleted
    MayFailWrite        \* the output or dependency file may not be writable

File  == Source \union External
Value == Content \union {Absent}
Stamp == 0 .. MaxStamp

ASSUME FilesAssumption ==
    IsFiniteSet(Source) /\ Source \intersect External = {} /\ Source # {}
ASSUME ContentAssumption ==
    Content \subseteq Nat /\ Absent \notin Content /\ NoHash \notin Value
ASSUME BadAssumption == Bad \subseteq Content
ASSUME SizeAssumption == Size \in [Content -> Nat]
ASSUME UsesAssumption == Uses \in [Source -> [Content -> SUBSET File]]
ASSUME StampAssumption == MaxStamp \in Nat
ASSUME FlagsAssumption ==
    {MayCrash, MayRevert, MayRemove, MayLose, MayFailWrite} \subseteq BOOLEAN

VARIABLES
    disk,       \* each file's content and last write time
    entry,      \* DependencyFile: what is recorded of each file
    int,        \* source files whose intermediate file exists
    out,        \* Data.OutFile: "absent", "torn" or "whole", and what it was built from
    phase,      \* where CompileFiles_UseIntDir is
    kind,       \* MyStruct::Type of the files it looked at
    seen,       \* last write time and size it read of them
    text,       \* MyStruct::OpenedFile, Absent when not opened (yet)
    result,     \* what the last build returned, "none" while one runs
    during,     \* history: what each file has held since the build began
    quiet       \* history: builds that returned since anything else changed

storage == <<disk, entry, int, out>>
job     == <<phase, kind, seen, text>>
history == <<during, quiet>>
vars    == <<storage, job, result, history>>

Entry == [content: Value \union {NoHash}, stamp: Stamp, size: Nat, uses: SUBSET Source]

NoEntry == [content |-> Absent, stamp |-> 0, size |-> 0, uses |-> {}]

Nothing == [f \in File |-> Absent]

Init ==
    /\ disk \in [File -> [content: Value, stamp: {0}]]
    /\ \E f \in Source : disk[f].content # Absent
    /\ entry = [f \in File |-> NoEntry]
    /\ int = {}
    /\ out = [state |-> "absent", lib |-> Nothing]
    /\ phase = "idle"
    /\ kind = [f \in File |-> "None"]
    /\ seen = [f \in File |-> [stamp |-> 0, size |-> 0]]
    /\ text = Nothing
    /\ result = [status |-> "none"]
    /\ during = [f \in File |-> {}]
    /\ quiet = 0

-----------------------------------------------------------------------------
(* The scan *)

Exists(f)   == disk[f].content # Absent
Recorded(f) == entry[f].content # Absent
Known(f)    == entry[f].content \notin {Absent, NoHash}
SizeOf(v) == IF v = Absent THEN 0 ELSE Size[v]

\* The write time of an external file is read but does not count.
Untouched(f) ==
    /\ f \in Source => entry[f].stamp = disk[f].stamp /\ f \in int
    /\ entry[f].size = SizeOf(disk[f].content)

\* Mutant: no hash is compared when time and size are the same.
ClassifyByTime(f) ==
    IF ~Exists(f) THEN "None"
    ELSE IF ~Recorded(f) THEN "NewFile"
    ELSE IF Untouched(f) THEN "FileNotChanged" ELSE "UpdatedFile"

Classify(f) ==
    IF ~Exists(f) THEN "None"
    ELSE IF ~Recorded(f) THEN "NewFile"
    ELSE IF Untouched(f) /\ entry[f].content = disk[f].content
         THEN "FileNotChanged" ELSE "UpdatedFile"

\* A file that was opened to compare its hash stays open, unless it is empty.
Opened(f) == Exists(f) /\ Recorded(f) /\ Untouched(f) /\ SizeOf(disk[f].content) > 0

Scan ==
    /\ phase = "idle"
    /\ \A f \in External : Exists(f)
    /\ phase' = "scanned"
    /\ kind' = [f \in File |-> Classify(f)]
    /\ seen' = [f \in File |-> [stamp |-> disk[f].stamp, size |-> SizeOf(disk[f].content)]]
    /\ text' = [f \in File |-> IF Opened(f) THEN disk[f].content ELSE Absent]
    /\ result' = [status |-> "none"]
    /\ during' = [f \in File |-> {disk[f].content}]
    /\ UNCHANGED <<storage, quiet>>

\* last_write_time throws when a library is not there; nothing was written.
LibraryMissing ==
    /\ phase = "idle"
    /\ \E f \in External : ~Exists(f)
    /\ result' = [status |-> "exception"]
    /\ UNCHANGED <<storage, job, history>>

\* ChangedFiles: new and updated files, and the source files recorded as
\* using one of them, directly or not.
Closed(S) ==
    /\ {f \in File : kind[f] \in {"NewFile", "UpdatedFile"}} \subseteq S
    /\ \A f \in Source : kind[f] = "FileNotChanged" /\ entry[f].uses \intersect S # {}
                            => f \in S

Changed == {f \in File : \A S \in SUBSET File : Closed(S) => f \in S}

\* Mutant: only changed files are parsed.
LoadChangedOnly ==
    /\ phase = "scanned"
    /\ phase' = IF Changed = {} /\ out.state # "absent" THEN "reusing" ELSE "loaded"
    /\ text' = [f \in File |-> IF f \in Changed THEN disk[f].content ELSE Absent]
    /\ UNCHANGED <<storage, kind, seen, result, history>>

(***************************************************************************)
(* If any file changed all files are parsed, those not yet open are read   *)
(* now; if none did, `Files' stays empty.                                  *)
(***************************************************************************)
Load ==
    /\ phase = "scanned"
    /\ phase' = IF Changed = {} /\ out.state # "absent" THEN "reusing" ELSE "loaded"
    /\ text' = IF Changed = {} THEN Nothing
               ELSE [f \in File |-> IF kind[f] = "None" THEN Absent
                                    ELSE IF text[f] # Absent THEN text[f]
                                    ELSE disk[f].content]
    /\ UNCHANGED <<storage, kind, seen, result, history>>

-----------------------------------------------------------------------------
(* The results *)

Rejects(v) ==
    \E f \in Source : /\ v[f] # Absent
                      /\ v[f] \in Bad \/ \E g \in Uses[f][v[f]] : v[g] = Absent

Finish(r) ==
    /\ result' = r
    /\ phase' = "idle"
    /\ kind' = [f \in File |-> "None"]
    /\ seen' = [f \in File |-> [stamp |-> 0, size |-> 0]]
    /\ text' = Nothing
    /\ during' = [f \in File |-> {}]

\* One more build without a change in between; QuietCap is a bound.
QuietCap == Cardinality(Source) + 2
QuietBuild == quiet' = IF quiet < QuietCap THEN quiet + 1 ELSE quiet

\* The parser or the analysis found errors: nothing is written.
Fail ==
    /\ phase = "loaded"
    /\ Rejects(text)
    /\ Finish([status |-> "errors"])
    /\ QuietBuild
    /\ UNCHANGED storage

\* Nothing changed: the result is the content of the output file.
Reuse ==
    /\ phase = "reusing"
    /\ Finish([status |-> IF out.state = "whole" THEN "value" ELSE "torn", lib |-> out.lib])
    /\ QuietBuild
    /\ UNCHANGED storage

\* Mutant: entries of updated files are kept as they are.
NewEntryKeepsUpdated(f) ==
    IF kind[f] = "NewFile"
    THEN [content |-> text[f], stamp |-> seen[f].stamp, size |-> seen[f].size, uses |-> {}]
    ELSE entry[f]

\* Mutant: new files are not recorded.
NewEntryForgetsNew(f) == IF kind[f] = "FileNotChanged" THEN entry[f] ELSE NoEntry

\* Mutant: libraries are recorded among the source files used.
NewEntryMixed(f) ==
    IF kind[f] = "NewFile"
    THEN [content |-> text[f], stamp |-> seen[f].stamp, size |-> seen[f].size,
          uses |-> IF f \in Source THEN Uses[f][text[f]] ELSE {}]
    ELSE IF kind[f] = "FileNotChanged" /\ f \notin Changed THEN entry[f]
    ELSE NoEntry

\* The entries of unchanged files are kept and new files get one; those of
\* updated files, and of files that use a changed one, are not passed on.
NewEntry(f) ==
    IF kind[f] = "NewFile"
    THEN [content |-> text[f], stamp |-> seen[f].stamp, size |-> seen[f].size,
          uses |-> IF f \in Source THEN Uses[f][text[f]] \intersect Source ELSE {}]
    ELSE IF kind[f] = "FileNotChanged" /\ f \notin Changed THEN entry[f]
    ELSE NoEntry

\* Mutant: the dependency file is written before the output.
OpenOutputSaved ==
    /\ phase = "loaded"
    /\ ~Rejects(text)
    /\ out' = [state |-> "torn", lib |-> Nothing]
    /\ phase' = "opened"
    /\ entry' = [f \in File |-> NewEntry(f)]
    /\ UNCHANGED <<disk, int, kind, seen, text, result, history>>

\* Opening the output file truncates it; if that fails the build goes on.
OpenOutput ==
    /\ phase = "loaded"
    /\ ~Rejects(text)
    /\ \/ /\ out' = [state |-> "torn", lib |-> Nothing]
          /\ phase' = "opened"
       \/ /\ MayFailWrite
          /\ phase' = "written"
          /\ UNCHANGED out
    /\ UNCHANGED <<disk, entry, int, kind, seen, text, result, history>>

WriteOutput ==
    /\ phase = "opened"
    /\ out' = [state |-> "whole", lib |-> text]
    /\ phase' = "written"
    /\ UNCHANGED <<disk, entry, int, kind, seen, text, result, history>>

WriteIntFiles ==
    /\ phase = "written"
    /\ int' = int \union (Changed \intersect Source)
    /\ phase' = "saving"
    /\ UNCHANGED <<disk, entry, out, kind, seen, text, result, history>>

Save ==
    /\ phase = "saving"
    /\ \/ Changed # {} /\ entry' = [f \in File |-> NewEntry(f)]
       \/ (Changed = {} \/ MayFailWrite) /\ UNCHANGED entry
    /\ Finish([status |-> "value", lib |-> text])
    /\ QuietBuild
    /\ UNCHANGED <<disk, int, out>>

-----------------------------------------------------------------------------
(* The environment *)

Disturb == quiet' = 0

Abandon ==
    /\ Finish(result)
    /\ Disturb

\* The build is killed; files keep what was written so far.
Crash ==
    /\ MayCrash
    /\ phase # "idle"
    /\ Abandon
    /\ UNCHANGED storage

\* What FromBytes makes of f's entry where the file ends.  A path that is cut off
\* names no file; numbers that are, the hash as the last, count as 0, and no
\* content has the hash 0; of the dependencies those that are there are read.
CutEntry(f) ==
    LET whole == NewEntry(f)
    IN  {NoEntry} \union
        IF whole = NoEntry THEN {}
        ELSE {[whole EXCEPT !.uses = S] : S \in SUBSET whole.uses} \union
             {[NoEntry EXCEPT !.content = NoHash, !.stamp = t, !.size = n] :
                  t \in {0, whole.stamp}, n \in {0, whole.size}}

\* Killed while it writes the dependency file: some entries are there, and a
\* part of one.
CrashSaving ==
    /\ MayCrash
    /\ phase = "saving"
    /\ Changed # {}
    /\ \E kept \in SUBSET File, last \in File : \E part \in CutEntry(last) :
         entry' = [f \in File |-> IF f \in kept THEN NewEntry(f)
                                 ELSE IF f = last THEN part ELSE NoEntry]
    /\ Abandon
    /\ UNCHANGED <<disk, int, out>>

\* Time only moves on; an external file is told by its content instead.
Later(f, new, old) ==
    old.content # Absent =>
        IF f \in Source THEN new.stamp > old.stamp ELSE new.content > old.content

\* A file is created, edited or touched; external files need no time.
Edit(f) ==
    /\ \E v \in [content: Content, stamp: Stamp] :
         /\ f \in External => v.stamp = 0
         /\ ~MayRevert => Later(f, v, disk[f])
         /\ disk' = [disk EXCEPT ![f] = v]
         /\ during' = IF phase = "idle" THEN during
                      ELSE [during EXCEPT ![f] = @ \union {v.content}]
    /\ Disturb
    /\ UNCHANGED <<entry, int, out, job, result>>

Remove(f) ==
    /\ MayRemove
    /\ phase = "idle"
    /\ Exists(f)
    /\ disk' = [disk EXCEPT ![f] = [content |-> Absent, stamp |-> 0]]
    /\ Disturb
    /\ UNCHANGED <<entry, int, out, job, result, during>>

LoseOutput ==
    /\ MayLose
    /\ phase = "idle"
    /\ out' = [state |-> "absent", lib |-> Nothing]
    /\ Disturb
    /\ UNCHANGED <<disk, entry, int, job, result, during>>

LoseIntFile(f) ==
    /\ phase = "idle"
    /\ f \in int
    /\ int' = int \ {f}
    /\ Disturb
    /\ UNCHANGED <<disk, entry, out, job, result, during>>

\* `uclang clean': the intermediate and the output directory are deleted.
Clean ==
    /\ phase = "idle"
    /\ entry' = [f \in File |-> NoEntry]
    /\ int' = {}
    /\ out' = [state |-> "absent", lib |-> Nothing]
    /\ Disturb
    /\ UNCHANGED <<disk, job, result, during>>

Build ==
    \/ Scan \/ LibraryMissing \/ Load \/ Fail \/ Reuse
    \/ OpenOutput \/ WriteOutput \/ WriteIntFiles \/ Save

Environment ==
    \/ Crash \/ CrashSaving \/ LoseOutput \/ Clean
    \/ \E f \in File : Edit(f) \/ Remove(f) \/ LoseIntFile(f)

Next == Build \/ Environment

Spec == Init /\ [][Next]_vars

-----------------------------------------------------------------------------
(* Properties *)

TypeOK ==
    /\ disk \in [File -> [content: Value, stamp: Stamp]]
    /\ entry \in [File -> Entry]
    /\ int \subseteq Source
    /\ out \in [state: {"absent", "torn", "whole"}, lib: [File -> Value]]
    /\ phase \in {"idle", "scanned", "reusing", "loaded", "opened", "written", "saving"}
    /\ kind \in [File -> {"None", "NewFile", "UpdatedFile", "FileNotChanged"}]
    /\ seen \in [File -> [stamp: Stamp, size: Nat]]
    /\ text \in [File -> Value]
    /\ result \in [status: {"none", "errors", "exception"}] \union
                 [status: {"value", "torn"}, lib: [File -> Value]]
    /\ during \in [File -> SUBSET Value]
    /\ quiet \in 0 .. QuietCap

(***************************************************************************)
(* When the scan would find nothing to do, the output it would reuse is    *)
(* complete and is the compilation of the files as they are: no sequence   *)
(* of edits, builds, failed builds, cleans and crashes makes a stale       *)
(* output pass for a current one.                                          *)
(***************************************************************************)
UpToDate ==
    (/\ phase = "idle" /\ out.state # "absent"
     /\ \A f \in File : Classify(f) \in {"None", "FileNotChanged"})
    => /\ out.state = "whole"
       /\ \A f \in File : out.lib[f] = disk[f].content

(***************************************************************************)
(* The dependency file speaks of the output beside it: what it records of  *)
(* a file is what the output was compiled from; or, unless old contents    *)
(* can come back, the file has changed since and will be compiled again.   *)
(***************************************************************************)
Superseded(f) ==
    /\ Exists(f)
    /\ IF f \in Source THEN disk[f].stamp > entry[f].stamp
                       ELSE disk[f].content > entry[f].content

EntriesDescribeOutput ==
    phase = "idle" /\ out.state = "whole" =>
        \A f \in File : Known(f) => \/ out.lib[f] = entry[f].content
                                    \/ ~MayRevert /\ Superseded(f)

(***************************************************************************)
(* Entries that a build drops make the next build compile again; that      *)
(* stops, if no source files use each other.  Once the files no longer     *)
(* change, and the build that may be running then has returned, at most as *)
(* many builds compile as there are source files, and one more.            *)
(***************************************************************************)
SettlesSoon ==
    phase = "opened" => quiet <= Cardinality(Source) + 1

Service == INSTANCE BuildService WITH
    files <- [f \in File |-> disk[f].content], building <- (phase # "idle")

(***************************************************************************)
(* The incremental build returns what a build from nothing could return:   *)
(* errors only if the files have errors, and otherwise the compilation of  *)
(* what each file held at some moment of this very build.                  *)
(***************************************************************************)
ImplementsBuildService == Service!Spec

(***************************************************************************)
(* Whatever else happened to its files, a build that has seen a change is  *)
(* right: it compiles all files and not only the changed ones.             *)
(***************************************************************************)
Returns == phase # "idle" /\ phase' = "idle" /\ result' # result

CompilesFresh ==
    [][Returns /\ Changed # {} =>
         \E v \in [File -> Value] : /\ \A f \in File : v[f] \in during[f]
                                    /\ result' = Service!Compile(v)]_vars
=============================================================================
