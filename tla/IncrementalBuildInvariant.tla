---------------------- MODULE IncrementalBuildInvariant ----------------------
(***************************************************************************)
(* The inductive invariant of IncrementalBuild, in an environment that     *)
(* deletes nothing, lets every write succeed, and does not both kill       *)
(* builds (or fill and empty files under one) and bring old files back.    *)
(***************************************************************************)
EXTENDS IncrementalBuild

Benign ==
    /\ ~MayRemove /\ ~MayLose /\ ~MayFailWrite
    /\ MayRevert => ~MayCrash /\ \A n \in Content : Size[n] > 0

Compiling == phase \in {"loaded", "opened", "written", "saving"}
Direct    == {"NewFile", "UpdatedFile"}

\* The next scan will count f as changed, whatever happens before it.
Outdated(f) ==
    /\ Exists(f)
    /\ \/ ~Known(f) \/ Superseded(f) \/ f \in Source \ int
       \/ entry[f].size # SizeOf(disk[f].content)

\* Files do not disappear, so nothing is remembered of one that never was.
NothingRemoved ==
    /\ \E f \in Source : Exists(f)
    /\ \A f \in File : /\ Known(f) => Exists(f)
                       /\ out.lib[f] # Absent => Exists(f)
                       /\ kind[f] # "None" => Exists(f)

\* What is recorded is what is there, or is older.
EntriesOld ==
    ~MayRevert => \A f \in File : Known(f) =>
        \/ Superseded(f)
        \/ /\ entry[f].content = disk[f].content
           /\ f \in Source => entry[f].stamp = disk[f].stamp

\* The output was compiled from what is recorded, or its entry is older.
OutputRecorded ==
    /\ out.state = "absent" => \A f \in File : ~Known(f)
    /\ out.state = "whole" =>
         /\ ~Rejects(out.lib)
         /\ phase \notin {"written", "saving"} => \A f \in File : Known(f) =>
              \/ out.lib[f] = entry[f].content
              \/ ~MayRevert /\ Superseded(f)
    /\ out.state = "torn" /\ phase # "opened" =>
         /\ MayCrash
         /\ \E f \in File : Outdated(f)
    /\ phase = "opened" => out.state = "torn"
    /\ phase \in {"written", "saving"} => out.state = "whole" /\ out.lib = text

\* What the scan found out stays true as far as the build relies on it.
ScanValid ==
    /\ phase = "idle" => \A f \in File : kind[f] = "None" /\ text[f] = Absent
    /\ phase = "scanned" =>
         /\ \E f \in Source : kind[f] # "None"
         /\ out.state = "torn" => \E f \in File : kind[f] \in Direct
         /\ out.state = "whole" => \A f \in File :
              kind[f] \in {"None", "FileNotChanged"} => out.lib[f] \in during[f]
    /\ phase # "idle" => \A f \in File :
         /\ kind[f] = "None" => Absent \in during[f] /\ ~Known(f)
         /\ kind[f] = "NewFile" <=> kind[f] # "None" /\ ~Recorded(f)
         /\ kind[f] = "FileNotChanged" => Known(f)
    /\ phase \notin {"idle", "written", "saving"} /\ ~MayRevert => \A f \in File :
         kind[f] = "UpdatedFile" => Outdated(f)

\* What was read of a file: it was there during the build, and it is what is
\* recorded, or the record is older.
TextsValid ==
    /\ phase # "idle" => \A f \in File :
         /\ kind[f] # "None" => disk[f].content \in during[f]
         /\ text[f] # Absent => text[f] \in during[f]
         /\ kind[f] = "None" => text[f] = Absent
         /\ MayRevert /\ kind[f] = "FileNotChanged" /\ phase # "reusing"
               => text[f] = entry[f].content
         /\ ~MayRevert /\ text[f] # Absent /\ Known(f)
               => text[f] = entry[f].content \/ Superseded(f)
         /\ ~MayRevert /\ f \in Source /\ kind[f] # "None" =>
               /\ seen[f].stamp <= disk[f].stamp
               /\ seen[f].stamp = disk[f].stamp /\ text[f] # Absent
                    => text[f] = disk[f].content
         /\ ~MayRevert /\ f \in External /\ text[f] # Absent
               => text[f] <= disk[f].content
    /\ Compiling => Changed # {} /\ \A f \in File : kind[f] # "None" => text[f] # Absent
    /\ phase \in {"opened", "written", "saving"} => ~Rejects(text)

\* A build that reuses the output returns what the files held.
ReuseValid ==
    phase = "reusing" => out.state = "whole" /\ \A f \in File : out.lib[f] \in during[f]

Parts ==
    /\ NothingRemoved /\ EntriesOld /\ OutputRecorded
    /\ ScanValid /\ TextsValid /\ ReuseValid

IInv == Benign => Parts

-----------------------------------------------------------------------------
(* The invariant behind CompilesFresh, which needs no benign environment:  *)
(* while a build runs no file is removed, and what it has read of a file   *)
(* the file has held since the build began.                                *)

ReadFresh ==
    phase # "idle" => \A f \in File :
        /\ disk[f].content \in during[f]
        /\ text[f] # Absent => text[f] \in during[f]
        /\ kind[f] = "None" => Absent \in during[f]

CompiledFresh ==
    /\ Compiling /\ Changed # {} => \A f \in File : text[f] \in during[f]
    /\ phase \in {"opened", "written", "saving"} => ~Rejects(text)
    /\ phase = "reusing" => Changed = {}

Fresh == ReadFresh /\ CompiledFresh

-----------------------------------------------------------------------------
(* The invariant behind SettlesSoon.  Once the files are quiet, each build *)
(* that compiles settles at least one more source file: one of which all   *)
(* that it uses is settled.                                                *)

\* No source files use each other, directly or not, whatever they hold.
Acyclic ==
    \A S \in SUBSET Source : S # {} =>
        \E f \in S : \A v \in Content : Uses[f][v] \intersect S = {}

EntryUses ==
    \A f \in File : Known(f) =>
        entry[f].uses \subseteq
            IF f \in Source THEN Uses[f][entry[f].content] \intersect Source ELSE {}

\* A build that began when the files were quiet has seen them as they are.
QuietScan ==
    quiet >= 1 /\ phase # "idle" =>
        /\ \A f \in File :
             /\ phase # "saving" => kind[f] = Classify(f)
             /\ kind[f] = "None" => ~Exists(f)
             /\ kind[f] = "NewFile" => Exists(f) /\ ~Recorded(f)
             /\ kind[f] = "UpdatedFile" => Exists(f) /\ Recorded(f)
             /\ kind[f] = "FileNotChanged" => Classify(f) = "FileNotChanged"
             /\ seen[f] = [stamp |-> disk[f].stamp, size |-> SizeOf(disk[f].content)]
             /\ text[f] # Absent => text[f] = disk[f].content
        /\ Compiling => text = IF Changed = {} THEN Nothing
                               ELSE [f \in File |-> disk[f].content]
        /\ phase = "saving" => Changed \intersect Source \subseteq int
        /\ phase \in {"written", "saving"} => out.state = "whole"
        /\ phase = "reusing" => out.state # "absent"

\* No next build will compile f again, unless something changes.
Settled(T) ==
    \A f \in T : Exists(f) => Classify(f) = "FileNotChanged" /\ entry[f].uses \subseteq T

\* The files have errors, so nothing is written until they change.
Stuck ==
    /\ Rejects([f \in File |-> disk[f].content])
    /\ \E f \in File : Classify(f) \in Direct
    /\ phase \in {"idle", "scanned", "loaded"}

\* Updated files are gone with the first quiet build, new libraries with the
\* second; from then on settled files are what matters.
Progress ==
    /\ out.state # "absent"
    /\ \A f \in File : Classify(f) # "UpdatedFile"
    /\ quiet >= 3 => \A f \in External : Classify(f) # "NewFile"
    /\ \E T \in SUBSET Source : Settled(T) /\ (T = Source \/ Cardinality(T) >= quiet - 2)

Settling ==
    /\ quiet >= 2 => Stuck \/ Progress
    /\ quiet >= 2 /\ Compiling => Changed # {}
    /\ quiet >= 2 /\ phase \in {"opened", "written", "saving"} =>
         \A f \in File : kind[f] # "UpdatedFile"

SettleInv == EntryUses /\ QuietScan /\ Settling
=============================================================================
