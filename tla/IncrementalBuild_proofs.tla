----------------------- MODULE IncrementalBuild_proofs -----------------------
(***************************************************************************)
(* TLAPS proofs about IncrementalBuild, for any files, contents, sizes,    *)
(* uses and write times.                                                   *)
(***************************************************************************)
EXTENDS IncrementalBuildInvariant, FiniteSetTheorems, TLAPS

-----------------------------------------------------------------------------
(* Types.                                                                  *)

LEMMA QuietCapNat == QuietCap \in Nat
<1>1. Cardinality(Source) \in Nat
  BY FS_CardinalityType, FilesAssumption
<1> QED
  BY <1>1 DEF QuietCap

LEMMA SizeNat == \A v \in Value : SizeOf(v) \in Nat
  BY SizeAssumption, ContentAssumption DEF SizeOf, Value

LEMMA InitTypeOK == Init => TypeOK
<1> SUFFICES ASSUME Init PROVE TypeOK
  OBVIOUS
<1> USE StampAssumption DEF Init, Value, Stamp
<1>1. disk \in [File -> [content: Value, stamp: Stamp]]
  OBVIOUS
<1>2. entry \in [File -> Entry]
  BY DEF NoEntry, Entry
<1>3. out \in [state: {"absent", "torn", "whole"}, lib: [File -> Value]]
  BY DEF Nothing
<1>4. quiet \in 0 .. QuietCap
  BY QuietCapNat
<1>5. /\ int \subseteq Source /\ phase = "idle"
      /\ kind \in [File -> {"None", "NewFile", "UpdatedFile", "FileNotChanged"}]
      /\ seen \in [File -> [stamp: Stamp, size: Nat]]
      /\ text \in [File -> Value] /\ result \in [status: {"none", "errors", "exception"}]
      /\ during \in [File -> SUBSET Value]
  BY DEF Nothing
<1> QED
  BY <1>1, <1>2, <1>3, <1>4, <1>5 DEF TypeOK

LEMMA ClassifyType ==
    \A f \in File : Classify(f) \in {"None", "NewFile", "UpdatedFile", "FileNotChanged"}
  BY DEF Classify

\* What a build leaves behind when it returns or is killed.
LEMMA FinishTypes ==
    ASSUME NEW r, Finish(r)
    PROVE  /\ phase' = "idle" /\ text' = Nothing /\ text' \in [File -> Value]
           /\ kind' \in [File -> {"None", "NewFile", "UpdatedFile", "FileNotChanged"}]
           /\ seen' \in [File -> [stamp: Stamp, size: Nat]]
           /\ during' \in [File -> SUBSET Value]
           /\ result' = r
  BY StampAssumption DEF Finish, Nothing, Value, Stamp

LEMMA QuietTypes ==
    ASSUME TypeOK, QuietBuild \/ Disturb
    PROVE  quiet' \in 0 .. QuietCap
  BY QuietCapNat DEF TypeOK, QuietBuild, Disturb

LEMMA NewEntryType ==
    ASSUME TypeOK, NEW f \in File
    PROVE  NewEntry(f) \in Entry
<1>1. /\ text[f] \in Value /\ seen[f].stamp \in Stamp /\ seen[f].size \in Nat
      /\ entry[f] \in Entry
  BY DEF TypeOK
<1>2. NoEntry \in Entry
  BY StampAssumption DEF NoEntry, Entry, Value, Stamp
<1>3. \A U \in SUBSET Source :
        [content |-> text[f], stamp |-> seen[f].stamp, size |-> seen[f].size,
         uses |-> U] \in Entry
  BY <1>1 DEF Entry
<1>4. (IF f \in Source THEN Uses[f][text[f]] \intersect Source ELSE {}) \in SUBSET Source
  OBVIOUS
<1> QED
  BY <1>1, <1>2, <1>3, <1>4 DEF NewEntry

\* What is known after a dependency file was cut off is what was written of it.
LEMMA CutEntryFacts ==
    ASSUME TypeOK, NEW f \in File, NEW part \in CutEntry(f)
    PROVE  /\ part \in Entry
           /\ part.content \notin {Absent, NoHash} =>
                /\ part.content = NewEntry(f).content /\ part.stamp = NewEntry(f).stamp
                /\ part.uses \subseteq NewEntry(f).uses
<1>1. NewEntry(f) \in Entry
  BY NewEntryType
<1>2. NoEntry \in Entry /\ NoEntry.content = Absent
  BY StampAssumption DEF NoEntry, Entry, Value, Stamp
<1>3. \/ part = NoEntry
      \/ \E S \in SUBSET NewEntry(f).uses : part = [NewEntry(f) EXCEPT !.uses = S]
      \/ \E t \in {0, NewEntry(f).stamp}, n \in {0, NewEntry(f).size} :
           part = [NoEntry EXCEPT !.content = NoHash, !.stamp = t, !.size = n]
  BY DEF CutEntry
<1>4. CASE part = NoEntry
  BY <1>2, <1>4
<1>5. CASE \E S \in SUBSET NewEntry(f).uses : part = [NewEntry(f) EXCEPT !.uses = S]
  BY <1>1, <1>5 DEF Entry
<1>6. CASE \E t \in {0, NewEntry(f).stamp}, n \in {0, NewEntry(f).size} :
             part = [NoEntry EXCEPT !.content = NoHash, !.stamp = t, !.size = n]
  <2>1. PICK t \in {0, NewEntry(f).stamp}, n \in {0, NewEntry(f).size} :
          part = [NoEntry EXCEPT !.content = NoHash, !.stamp = t, !.size = n]
    BY <1>6
  <2>2. t \in Stamp /\ n \in Nat
    BY <1>1, StampAssumption DEF Entry, Stamp
  <2>3. part \in Entry /\ part.content = NoHash
    BY <1>2, <2>1, <2>2 DEF Entry
  <2> QED
    BY <2>3
<1> QED
  BY <1>3, <1>4, <1>5, <1>6

LEMMA CrashSavingEntries ==
    ASSUME TypeOK, CrashSaving
    PROVE  /\ entry' \in [File -> Entry]
           /\ \A f \in File : Known(f)' =>
                /\ entry'[f].content = NewEntry(f).content /\ entry'[f].stamp = NewEntry(f).stamp
                /\ entry'[f].uses \subseteq NewEntry(f).uses
<1> PICK kept \in SUBSET File, last \in File :
      \E part \in CutEntry(last) :
         entry' = [f \in File |-> IF f \in kept THEN NewEntry(f)
                                 ELSE IF f = last THEN part ELSE NoEntry]
  BY DEF CrashSaving
<1>1. PICK part \in CutEntry(last) :
        entry' = [f \in File |-> IF f \in kept THEN NewEntry(f)
                                ELSE IF f = last THEN part ELSE NoEntry]
  OBVIOUS
<1>2. NoEntry \in Entry /\ NoEntry.content = Absent
  BY StampAssumption DEF NoEntry, Entry, Value, Stamp
<1>3. \A f \in File : NewEntry(f) \in Entry
  BY NewEntryType
<1>4. part \in Entry
  BY CutEntryFacts
<1>5. entry' \in [File -> Entry]
  BY <1>1, <1>2, <1>3, <1>4
<1>6. ASSUME NEW f \in File, Known(f)'
      PROVE  /\ entry'[f].content = NewEntry(f).content /\ entry'[f].stamp = NewEntry(f).stamp
             /\ entry'[f].uses \subseteq NewEntry(f).uses
  <2>1. CASE f \in kept
    BY <1>1, <2>1
  <2>2. CASE f \notin kept /\ f = last
    <3>1. entry'[f] = part /\ part.content \notin {Absent, NoHash}
      BY <1>1, <1>6, <2>2 DEF Known
    <3> QED
      BY <2>2, <3>1, CutEntryFacts
  <2>3. CASE f \notin kept /\ f # last
    BY <1>1, <1>2, <1>6, <2>3 DEF Known
  <2> QED
    BY <2>1, <2>2, <2>3
<1> QED
  BY <1>5, <1>6

\* The next-state relation as one disjunct per action.
LEMMA Actions ==
    ASSUME [Next]_vars
    PROVE  \/ Scan \/ LibraryMissing \/ Load \/ Fail \/ Reuse
           \/ OpenOutput \/ WriteOutput \/ WriteIntFiles \/ Save \/ Crash \/ CrashSaving \/ LoseOutput \/ Clean
           \/ \E f \in File : Edit(f)
           \/ \E f \in File : Remove(f)
           \/ \E f \in File : LoseIntFile(f)
           \/ UNCHANGED vars
  BY DEF Next, Build, Environment

LEMMA StepTypeOK == TypeOK /\ [Next]_vars => TypeOK'
<1> SUFFICES ASSUME TypeOK, [Next]_vars PROVE TypeOK'
  OBVIOUS
<1> USE DEF storage, job, history
<1>1. CASE Scan
  <2>1. /\ kind' \in [File -> {"None", "NewFile", "UpdatedFile", "FileNotChanged"}]
        /\ phase' = "scanned" /\ result' = [status |-> "none"]
    BY <1>1, ClassifyType DEF Scan
  <2>2. \A f \in File : disk[f].content \in Value /\ disk[f].stamp \in Stamp
    BY DEF TypeOK
  <2>3. \A f \in File : SizeOf(disk[f].content) \in Nat
    BY <2>2, SizeNat
  <2>4. seen' \in [File -> [stamp: Stamp, size: Nat]]
    BY <1>1, <2>2, <2>3 DEF Scan
  <2>5. text' \in [File -> Value] /\ during' \in [File -> SUBSET Value]
    BY <1>1, <2>2 DEF Scan, Value
  <2> QED
    BY <1>1, <2>1, <2>4, <2>5 DEF Scan, TypeOK
<1>2. CASE Load
  <2>1. \A f \in File : disk[f].content \in Value /\ text[f] \in Value /\ Absent \in Value
    BY DEF TypeOK, Value
  <2>2. text' \in [File -> Value]
    BY <1>2, <2>1 DEF Load, Nothing
  <2> QED
    BY <1>2, <2>2 DEF Load, TypeOK
<1>3. CASE Fail
  <2>1. PICK r : r = [status |-> "errors"] /\ Finish(r)
    BY <1>3 DEF Fail
  <2> QED
    BY <1>3, <2>1, FinishTypes, QuietTypes DEF Fail, TypeOK
<1>4. CASE Reuse
  <2>1. PICK r : /\ r = [status |-> IF out.state = "whole" THEN "value" ELSE "torn",
                         lib |-> out.lib]
                 /\ Finish(r)
    BY <1>4 DEF Reuse
  <2>2. r \in [status: {"value", "torn"}, lib: [File -> Value]]
    BY <2>1 DEF TypeOK
  <2> QED
    BY <1>4, <2>1, <2>2, FinishTypes, QuietTypes DEF Reuse, TypeOK
<1>5. CASE OpenOutput
  <2>1. out' \in [state: {"absent", "torn", "whole"}, lib: [File -> Value]]
    BY <1>5 DEF OpenOutput, TypeOK, Nothing, Value
  <2> QED
    BY <1>5, <2>1 DEF OpenOutput, TypeOK
<1>6. CASE WriteOutput
  BY <1>6 DEF WriteOutput, TypeOK
<1>7. CASE WriteIntFiles
  BY <1>7 DEF WriteIntFiles, TypeOK
<1>8. CASE Save
  <2>1. PICK r : r = [status |-> "value", lib |-> text] /\ Finish(r)
    BY <1>8 DEF Save
  <2>2. r \in [status: {"value", "torn"}, lib: [File -> Value]]
    BY <2>1 DEF TypeOK
  <2>3. entry' \in [File -> Entry]
    BY <1>8, NewEntryType DEF Save, TypeOK
  <2> QED
    BY <1>8, <2>1, <2>2, <2>3, FinishTypes, QuietTypes DEF Save, TypeOK
<1>9. CASE Crash
  <2>1. Finish(result)
    BY <1>9 DEF Crash, Abandon
  <2> QED
    BY <1>9, <2>1, FinishTypes, QuietTypes DEF Crash, Abandon, TypeOK
<1>10. CASE CrashSaving
  <2>1. Finish(result) /\ Disturb
    BY <1>10 DEF CrashSaving, Abandon
  <2>2. entry' \in [File -> Entry]
    BY <1>10, CrashSavingEntries
  <2> QED
    BY <1>10, <2>1, <2>2, FinishTypes, QuietTypes DEF CrashSaving, TypeOK
<1>11. CASE LoseOutput
  BY <1>11, QuietTypes DEF LoseOutput, TypeOK, Nothing, Value
<1>12. CASE Clean
  <2>1. NoEntry \in Entry
    BY StampAssumption DEF NoEntry, Entry, Value, Stamp
  <2> QED
    BY <1>12, <2>1, QuietTypes DEF Clean, TypeOK, Nothing, Value
<1>13. CASE \E f \in File : Edit(f)
  <2>1. PICK f \in File, v \in [content: Content, stamp: Stamp] :
          /\ disk' = [disk EXCEPT ![f] = v]
          /\ during' = IF phase = "idle" THEN during
                       ELSE [during EXCEPT ![f] = @ \union {v.content}]
          /\ Disturb
          /\ UNCHANGED <<entry, int, out, job, result>>
    BY <1>13 DEF Edit
  <2>2. v \in [content: Value, stamp: Stamp] /\ v.content \in Value
    BY DEF Value
  <2>3. /\ disk' \in [File -> [content: Value, stamp: Stamp]]
        /\ during' \in [File -> SUBSET Value]
    BY <2>1, <2>2 DEF TypeOK
  <2> QED
    BY <2>1, <2>3, QuietTypes DEF TypeOK
<1>14. CASE \E f \in File : Remove(f)
  <2>1. [content |-> Absent, stamp |-> 0] \in [content: Value, stamp: Stamp]
    BY StampAssumption DEF Value, Stamp
  <2> QED
    BY <1>14, <2>1, QuietTypes DEF Remove, TypeOK
<1>15. CASE \E f \in File : LoseIntFile(f)
  BY <1>15, QuietTypes DEF LoseIntFile, TypeOK
<1>16. CASE LibraryMissing
  BY <1>16 DEF LibraryMissing, TypeOK
<1>17. CASE UNCHANGED vars
  BY <1>17 DEF vars, TypeOK
<1> QED
  BY <1>1, <1>2, <1>3, <1>4, <1>5, <1>6, <1>7, <1>8, <1>9, <1>10, <1>11, <1>12,
     <1>13, <1>14, <1>15, <1>16, <1>17, Actions

(***************************************************************************)
(* Types hold, whatever the environment does: a dependency file records    *)
(* only source files as used (CompileFiles_UseIntDir, its last part).      *)
(***************************************************************************)
THEOREM TypesCorrect == Spec => []TypeOK
  BY InitTypeOK, StepTypeOK, PTL DEF Spec

-----------------------------------------------------------------------------
(* Helpers.                                                                *)

\* ChangedFiles holds the new and updated files, and is empty without them.
LEMMA ChangedFacts ==
    /\ \A f \in File : kind[f] \in Direct => f \in Changed
    /\ Changed # {} => \E f \in File : kind[f] \in Direct
<1>1. \A f \in File : kind[f] \in Direct => f \in Changed
  BY DEF Changed, Closed, Direct
<1>2. ASSUME \A f \in File : kind[f] \notin Direct PROVE Closed({})
  BY <1>2 DEF Closed, Direct
<1>3. Closed({}) => Changed = {}
  BY DEF Changed
<1> QED
  BY <1>1, <1>2, <1>3

LEMMA ChangedKept ==
    ASSUME kind' = kind, entry' = entry
    PROVE  Changed' = Changed
  BY DEF Changed, Closed

LEMMA Numbers ==
    ASSUME TypeOK, NEW f \in File
    PROVE  /\ disk[f].stamp \in Nat /\ entry[f].stamp \in Nat /\ seen[f].stamp \in Nat
           /\ Exists(f) => disk[f].content \in Nat /\ disk[f].content \in Content
           /\ Known(f) => entry[f].content \in Nat /\ entry[f].content \in Content
           /\ text[f] # Absent => text[f] \in Nat /\ text[f] \in Content
<1>1. /\ disk[f].stamp \in Stamp /\ entry[f].stamp \in Stamp /\ seen[f].stamp \in Stamp
      /\ disk[f].content \in Value /\ text[f] \in Value
      /\ entry[f].content \in Value \union {NoHash}
  BY DEF TypeOK, Entry
<1>2. \A s \in Stamp : s \in Nat
  BY StampAssumption DEF Stamp
<1>3. \A v \in Value : v # Absent => v \in Content /\ v \in Nat
  BY ContentAssumption DEF Value
<1> QED
  BY <1>1, <1>2, <1>3 DEF Exists, Known, Recorded

\* An edit supersedes what is recorded of the file.
LEMMA EditSupersedes ==
    ASSUME TypeOK, EntriesOld, ~MayRevert, NEW f \in File, Known(f), Exists(f),
           NEW v \in [content: Content, stamp: Stamp], Later(f, v, disk[f]),
           disk' = [disk EXCEPT ![f] = v], entry' = entry
    PROVE  Superseded(f)'
<1>1. v.content \in Nat /\ v.content # Absent /\ v.stamp \in Nat
  <2>1. v.content \in Content /\ v.stamp \in Stamp
    OBVIOUS
  <2>2. \A s \in Stamp : s \in Nat
    BY StampAssumption DEF Stamp
  <2>3. \A n \in Content : n # Absent /\ n \in Nat
    BY ContentAssumption
  <2> QED
    BY <2>1, <2>2, <2>3
<1>2. /\ disk[f].stamp \in Nat /\ entry[f].stamp \in Nat
      /\ disk[f].content \in Nat /\ entry[f].content \in Nat
  BY Numbers
<1>3. Exists(f)' /\ disk'[f] = v
  BY <1>1 DEF Exists, TypeOK
<1>4. CASE f \in Source
  <2>1. v.stamp > disk[f].stamp
    BY <1>4 DEF Later, Exists
  <2>2. disk[f].stamp >= entry[f].stamp
    BY <1>2, <1>4 DEF EntriesOld, Superseded
  <2> QED
    BY <1>1, <1>2, <1>3, <1>4, <2>1, <2>2 DEF Superseded
<1>5. CASE f \notin Source
  <2>1. v.content > disk[f].content
    BY <1>5 DEF Later, Exists
  <2>2. disk[f].content >= entry[f].content
    BY <1>2, <1>5 DEF EntriesOld, Superseded
  <2> QED
    BY <1>1, <1>2, <1>3, <1>5, <2>1, <2>2 DEF Superseded
<1> QED
  BY <1>4, <1>5

\* A file the next scan will find unchanged is not outdated.
LEMMA OutdatedFound ==
    ASSUME TypeOK, NEW f \in File, Outdated(f)
    PROVE  Classify(f) \in Direct
<1>1. Exists(f)
  BY DEF Outdated
<1>2. CASE ~Known(f)
  <2>1. ~Recorded(f) \/ entry[f].content = NoHash
    BY <1>2 DEF Known, Recorded
  <2>2. disk[f].content # NoHash
    BY ContentAssumption DEF TypeOK
  <2> QED
    BY <1>1, <2>1, <2>2 DEF Classify, Direct
<1>3. CASE Superseded(f) /\ Known(f)
  <2>1. /\ disk[f].stamp \in Nat /\ entry[f].stamp \in Nat
        /\ disk[f].content \in Nat /\ entry[f].content \in Nat
    BY <1>1, <1>3, Numbers
  <2>2. ~(Untouched(f) /\ entry[f].content = disk[f].content)
    BY <1>3, <2>1 DEF Superseded, Untouched
  <2> QED
    BY <1>1, <1>3, <2>2 DEF Classify, Direct
<1>4. CASE f \in Source \ int
  BY <1>1, <1>4 DEF Classify, Direct, Untouched
<1>5. CASE entry[f].size # SizeOf(disk[f].content)
  BY <1>1, <1>5 DEF Classify, Direct, Untouched
<1> QED
  BY <1>2, <1>3, <1>4, <1>5 DEF Outdated

LEMMA InitIInv == Init => IInv
<1> SUFFICES ASSUME Init, Benign
             PROVE  Parts
  BY DEF IInv
<1> USE DEF Init
<1>1. \A f \in File : ~Known(f) /\ kind[f] = "None" /\ text[f] = Absent /\ out.lib[f] = Absent
  BY DEF Known, NoEntry, Nothing
<1>2. \E f \in Source : Exists(f)
  BY DEF Exists
<1>3. phase = "idle" /\ out.state = "absent"
  OBVIOUS
<1>4. NothingRemoved /\ EntriesOld /\ ReuseValid
  BY <1>1, <1>2, <1>3 DEF NothingRemoved, EntriesOld, ReuseValid
<1>5. OutputRecorded
  BY <1>1, <1>3 DEF OutputRecorded
<1>6. ScanValid /\ TextsValid
  BY <1>1, <1>3 DEF ScanValid, TextsValid, Compiling
<1> QED
  BY <1>4, <1>5, <1>6 DEF Parts

-----------------------------------------------------------------------------
(* The steps of a build.                                                   *)

\* Steps that leave all but the phase of the build as it is, for the parts
\* that speak of the storage alone.
LEMMA StorageKept ==
    ASSUME UNCHANGED <<disk, entry, int>>
    PROVE  /\ \A f \in File : /\ Exists(f)' <=> Exists(f)
                              /\ Known(f)' <=> Known(f)
                              /\ Recorded(f)' <=> Recorded(f)
                              /\ Superseded(f)' <=> Superseded(f)
                              /\ Outdated(f)' <=> Outdated(f)
           /\ EntriesOld => EntriesOld'
<1>1. \A f \in File : /\ Exists(f)' <=> Exists(f)
                      /\ Known(f)' <=> Known(f)
                      /\ Recorded(f)' <=> Recorded(f)
  BY DEF Exists, Known, Recorded
<1>2. \A f \in File : Superseded(f)' <=> Superseded(f)
  BY <1>1 DEF Superseded
<1>3. \A f \in File : Outdated(f)' <=> Outdated(f)
  BY <1>1, <1>2 DEF Outdated, SizeOf
<1>4. EntriesOld => EntriesOld'
  BY <1>1, <1>2 DEF EntriesOld
<1> QED
  BY <1>1, <1>2, <1>3, <1>4

LEMMA ScanStep ==
    ASSUME TypeOK, Benign, Parts, Scan
    PROVE  Parts'
<1> USE DEF Parts
<1>1. /\ phase = "idle" /\ phase' = "scanned"
      /\ disk' = disk /\ entry' = entry /\ int' = int /\ out' = out
      /\ \A f \in File :
           /\ kind'[f] = Classify(f)
           /\ seen'[f].stamp = disk[f].stamp
           /\ text'[f] = IF Opened(f) THEN disk[f].content ELSE Absent
           /\ during'[f] = {disk[f].content}
  BY DEF Scan, storage
<1>2. /\ \A f \in File : /\ Exists(f)' <=> Exists(f)
                         /\ Known(f)' <=> Known(f)
                         /\ Recorded(f)' <=> Recorded(f)
                         /\ Superseded(f)' <=> Superseded(f)
                         /\ Outdated(f)' <=> Outdated(f)
      /\ EntriesOld'
  BY <1>1, StorageKept
<1>3. \A f \in File :
        /\ Classify(f) = "None" <=> ~Exists(f)
        /\ Classify(f) = "NewFile" <=> Exists(f) /\ ~Recorded(f)
        /\ Classify(f) = "FileNotChanged"
             <=> Exists(f) /\ Known(f) /\ Untouched(f) /\ entry[f].content = disk[f].content
  <2>1. \A f \in File : disk[f].content # NoHash
    BY ContentAssumption DEF TypeOK
  <2> QED
    BY <2>1 DEF Classify, Exists, Known, Recorded
<1>4. \A f \in File : /\ ~Exists(f) => disk[f].content = Absent /\ ~Known(f)
                      /\ text'[f] # Absent => text'[f] = disk[f].content
  BY <1>1 DEF Exists, Opened, NothingRemoved
<1>5. NothingRemoved'
  <2>1. \A f \in Source : f \in File
    BY DEF File
  <2>2. \A f \in File : kind'[f] # "None" => Exists(f)'
    BY <1>1, <1>2, <1>3
  <2> QED
    BY <1>1, <1>2, <2>1, <2>2 DEF NothingRemoved
<1>6. OutputRecorded'
  BY <1>1, <1>2 DEF OutputRecorded, Rejects
<1>7. ScanValid'
  <2>1. \E f \in Source : kind'[f] # "None"
    BY <1>1, <1>3 DEF NothingRemoved, File
  <2>2. ASSUME out.state = "torn" PROVE \E f \in File : kind'[f] \in Direct
    <3>1. PICK f \in File : Outdated(f)
      BY <1>1, <2>2 DEF OutputRecorded
    <3> QED
      BY <1>1, <3>1, OutdatedFound
  <2>3. ASSUME out.state = "whole", NEW f \in File, kind'[f] \in {"None", "FileNotChanged"}
        PROVE  out.lib[f] \in during'[f]
    <3>1. CASE kind'[f] = "None"
      BY <1>1, <1>3, <1>4, <3>1 DEF NothingRemoved
    <3>2. CASE kind'[f] = "FileNotChanged"
      <4>1. Exists(f) /\ Known(f) /\ Untouched(f) /\ entry[f].content = disk[f].content
        BY <1>1, <1>3, <3>2
      <4>2. ~Superseded(f)
        BY <4>1, Numbers DEF Superseded, Untouched
      <4>3. out.lib[f] = entry[f].content
        BY <1>1, <2>3, <4>1, <4>2 DEF OutputRecorded
      <4> QED
        BY <1>1, <4>1, <4>3
    <3> QED
      BY <2>3, <3>1, <3>2
  <2>4. \A f \in File : /\ kind'[f] = "None" => Absent \in during'[f] /\ ~Known(f)'
                        /\ kind'[f] = "NewFile" <=> kind'[f] # "None" /\ ~Recorded(f)'
                        /\ kind'[f] = "FileNotChanged" => Known(f)'
    BY <1>1, <1>2, <1>3, <1>4
  <2>5. ASSUME ~MayRevert, NEW f \in File, kind'[f] = "UpdatedFile" PROVE Outdated(f)'
    <3>1. Exists(f) /\ ~(Known(f) /\ Untouched(f) /\ entry[f].content = disk[f].content)
      BY <1>1, <1>3, <2>5
    <3>2. Known(f) => Superseded(f) \/ (/\ entry[f].content = disk[f].content
                                        /\ f \in Source => entry[f].stamp = disk[f].stamp)
      BY <2>5 DEF EntriesOld
    <3> QED
      BY <1>2, <3>1, <3>2 DEF Outdated, Untouched
  <2> QED
    BY <1>1, <2>1, <2>2, <2>3, <2>4, <2>5 DEF ScanValid
<1>8. TextsValid'
  <2>1. \A f \in File : /\ disk'[f].content \in during'[f]
                        /\ text'[f] # Absent => text'[f] \in during'[f]
                        /\ kind'[f] = "None" => text'[f] = Absent
    BY <1>1, <1>3, <1>4, <1>2 DEF NothingRemoved
  <2>2. ASSUME MayRevert, NEW f \in File, kind'[f] = "FileNotChanged"
        PROVE  text'[f] = entry'[f].content
    <3>1. Exists(f) /\ Known(f) /\ Untouched(f) /\ entry[f].content = disk[f].content
      BY <1>1, <1>3, <2>2
    <3>2. SizeOf(disk[f].content) > 0
      BY <2>2, <3>1, Numbers DEF Benign, SizeOf, Exists
    <3> QED
      BY <1>1, <3>1, <3>2 DEF Opened, Known, Recorded
  <2>3. ASSUME ~MayRevert, NEW f \in File, text'[f] # Absent, Known(f)'
        PROVE  text'[f] = entry'[f].content \/ Superseded(f)'
    BY <1>1, <1>2, <1>4, <2>3 DEF EntriesOld
  <2>4. \A f \in File : /\ seen'[f].stamp = disk'[f].stamp /\ seen'[f].stamp <= disk'[f].stamp
                        /\ text'[f] # Absent => text'[f] = disk'[f].content
    BY <1>1, <1>4, Numbers
  <2>5. \A f \in File : text'[f] # Absent => text'[f] <= disk'[f].content
    BY <1>1, <1>4, Numbers DEF Exists
  <2> QED
    BY <1>1, <2>1, <2>2, <2>3, <2>4, <2>5 DEF TextsValid, Compiling
<1>9. ReuseValid'
  BY <1>1 DEF ReuseValid
<1> QED
  BY <1>2, <1>5, <1>6, <1>7, <1>8, <1>9

LEMMA LoadStep ==
    ASSUME TypeOK, Benign, Parts, Load
    PROVE  Parts'
<1> USE DEF Parts
<1>1. /\ phase = "scanned" /\ disk' = disk /\ entry' = entry /\ int' = int /\ out' = out
      /\ kind' = kind /\ seen' = seen /\ during' = during
      /\ phase' = IF Changed = {} /\ out.state # "absent" THEN "reusing" ELSE "loaded"
      /\ text' = IF Changed = {} THEN Nothing
                 ELSE [f \in File |-> IF kind[f] = "None" THEN Absent
                                      ELSE IF text[f] # Absent THEN text[f]
                                      ELSE disk[f].content]
  BY DEF Load, storage, history
<1>2. /\ \A f \in File : /\ Exists(f)' <=> Exists(f)
                         /\ Known(f)' <=> Known(f)
                         /\ Recorded(f)' <=> Recorded(f)
                         /\ Superseded(f)' <=> Superseded(f)
                         /\ Outdated(f)' <=> Outdated(f)
      /\ EntriesOld'
  BY <1>1, StorageKept
<1>3. Changed' = Changed
  BY <1>1, ChangedKept
<1>4. NothingRemoved'
  <2>1. \A f \in Source : f \in File
    BY DEF File
  <2> QED
    BY <1>1, <1>2, <2>1 DEF NothingRemoved
<1>5. OutputRecorded'
  BY <1>1, <1>2 DEF OutputRecorded, Rejects
<1>6. ScanValid'
  BY <1>1, <1>2 DEF ScanValid
<1>7. CASE Changed = {}
  <2>1. \A f \in File : kind[f] \notin Direct /\ kind[f] \in {"None", "FileNotChanged"}
    BY <1>7, ChangedFacts DEF TypeOK, Direct
  <2>2. out.state # "absent"
    <3>1. PICK f \in Source : kind[f] # "None"
      BY <1>1 DEF ScanValid
    <3>2. f \in File /\ Known(f)
      BY <1>1, <2>1, <3>1 DEF ScanValid, File
    <3> QED
      BY <3>2 DEF OutputRecorded
  <2>3. out.state = "whole" /\ \A f \in File : out.lib[f] \in during[f]
    BY <1>1, <2>1, <2>2 DEF ScanValid, TypeOK
  <2>4. phase' = "reusing" /\ \A f \in File : text'[f] = Absent
    BY <1>1, <1>7, <2>2 DEF Nothing
  <2>5. ReuseValid'
    BY <1>1, <2>3 DEF ReuseValid
  <2>6. TextsValid'
    BY <1>1, <1>2, <2>4 DEF TextsValid, Compiling
  <2> QED
    BY <1>2, <1>4, <1>5, <1>6, <2>5, <2>6
<1>8. CASE Changed # {}
  <2>1. phase' = "loaded"
    BY <1>1, <1>8
  <2>2. \A f \in File : text'[f] = IF kind[f] = "None" THEN Absent
                                   ELSE IF text[f] # Absent THEN text[f]
                                   ELSE disk[f].content
    BY <1>1, <1>8
  <2>3. \A f \in File : kind[f] # "None" =>
          /\ Exists(f) /\ text'[f] # Absent
          /\ (text'[f] = text[f] /\ text[f] # Absent) \/ text'[f] = disk[f].content
    BY <2>2 DEF NothingRemoved, Exists
  <2>4. \A f \in File : /\ disk'[f].content \in during'[f] \/ kind'[f] = "None"
                        /\ text'[f] # Absent => text'[f] \in during'[f]
                        /\ kind'[f] = "None" => text'[f] = Absent
    BY <1>1, <2>2 DEF TextsValid
  <2>5. ASSUME MayRevert, NEW f \in File, kind'[f] = "FileNotChanged"
        PROVE  text'[f] = entry'[f].content
    <3>1. Known(f) /\ text[f] = entry[f].content
      BY <1>1, <2>5 DEF TextsValid, ScanValid
    <3> QED
      BY <1>1, <2>2, <2>5, <3>1 DEF Known
  <2>6. ASSUME ~MayRevert, NEW f \in File, text'[f] # Absent, Known(f)
        PROVE  text'[f] = entry'[f].content \/ Superseded(f)'
    <3>1. kind[f] # "None"
      BY <2>2, <2>6
    <3>2. CASE text'[f] = text[f] /\ text[f] # Absent
      BY <1>1, <1>2, <2>6, <3>2 DEF TextsValid
    <3>3. CASE text'[f] = disk[f].content
      BY <1>1, <1>2, <2>6, <3>3 DEF EntriesOld
    <3> QED
      BY <2>3, <3>1, <3>2, <3>3
  <2>7. ASSUME ~MayRevert, NEW f \in Source, kind'[f] # "None"
        PROVE  /\ seen'[f].stamp <= disk'[f].stamp
               /\ seen'[f].stamp = disk'[f].stamp /\ text'[f] # Absent
                    => text'[f] = disk'[f].content
    <3>1. f \in File
      BY DEF File
    <3> QED
      BY <1>1, <2>2, <2>3, <2>7, <3>1 DEF TextsValid
  <2>8. ASSUME ~MayRevert, NEW f \in External, text'[f] # Absent
        PROVE  text'[f] <= disk'[f].content
    <3>1. f \in File /\ kind[f] # "None"
      BY <2>2, <2>8 DEF File
    <3>2. disk[f].content \in Nat
      BY <2>3, <3>1, Numbers
    <3> QED
      BY <1>1, <2>3, <2>8, <3>1, <3>2 DEF TextsValid
  <2>9. TextsValid'
    BY <1>1, <1>2, <1>3, <1>8, <2>1, <2>3, <2>4, <2>5, <2>6, <2>7, <2>8
       DEF TextsValid, Compiling
  <2>10. ReuseValid'
    BY <2>1 DEF ReuseValid
  <2> QED
    BY <1>2, <1>4, <1>5, <1>6, <2>9, <2>10
<1> QED
  BY <1>7, <1>8

\* While a build compiles, some file is outdated until the intermediate
\* files are written, so that killing it cannot go unnoticed.
LEMMA CompilingOutdated ==
    ASSUME TypeOK, Parts, ~MayRevert, phase \in {"loaded", "opened"}
    PROVE  \E f \in File : Outdated(f)
<1> USE DEF Parts
<1>1. PICK f \in File : kind[f] \in Direct
  BY ChangedFacts DEF TextsValid, Compiling
<1>2. CASE kind[f] = "NewFile"
  <2>1. ~Known(f) /\ Exists(f)
    BY <1>2 DEF ScanValid, NothingRemoved, Known, Recorded
  <2> QED
    BY <2>1 DEF Outdated
<1>3. CASE kind[f] = "UpdatedFile"
  BY <1>3 DEF ScanValid
<1> QED
  BY <1>1, <1>2, <1>3 DEF Direct

LEMMA OpenOutputStep ==
    ASSUME TypeOK, Benign, Parts, OpenOutput
    PROVE  Parts'
<1> USE DEF Parts
<1>1. /\ phase = "loaded" /\ ~Rejects(text) /\ phase' = "opened"
      /\ out'.state = "torn" /\ out'.lib = Nothing
      /\ disk' = disk /\ entry' = entry /\ int' = int /\ kind' = kind /\ seen' = seen
      /\ text' = text /\ during' = during
  BY DEF OpenOutput, history, Benign
<1>2. /\ \A f \in File : /\ Exists(f)' <=> Exists(f)
                         /\ Known(f)' <=> Known(f)
                         /\ Recorded(f)' <=> Recorded(f)
                         /\ Superseded(f)' <=> Superseded(f)
                         /\ Outdated(f)' <=> Outdated(f)
      /\ EntriesOld'
  BY <1>1, StorageKept
<1>3. Changed' = Changed
  BY <1>1, ChangedKept
<1>4. NothingRemoved'
  <2>1. \A f \in Source : f \in File
    BY DEF File
  <2> QED
    BY <1>1, <1>2, <2>1 DEF NothingRemoved, Nothing
<1>5. OutputRecorded'
  BY <1>1 DEF OutputRecorded
<1>6. ScanValid'
  BY <1>1, <1>2 DEF ScanValid
<1>7. TextsValid'
  BY <1>1, <1>2, <1>3 DEF TextsValid, Compiling, Rejects
<1>8. ReuseValid'
  BY <1>1 DEF ReuseValid
<1> QED
  BY <1>2, <1>4, <1>5, <1>6, <1>7, <1>8

LEMMA WriteOutputStep ==
    ASSUME TypeOK, Benign, Parts, WriteOutput
    PROVE  Parts'
<1> USE DEF Parts
<1>1. /\ phase = "opened" /\ phase' = "written"
      /\ out'.state = "whole" /\ out'.lib = text
      /\ disk' = disk /\ entry' = entry /\ int' = int /\ kind' = kind /\ seen' = seen
      /\ text' = text /\ during' = during
  BY DEF WriteOutput, history
<1>2. /\ \A f \in File : /\ Exists(f)' <=> Exists(f)
                         /\ Known(f)' <=> Known(f)
                         /\ Recorded(f)' <=> Recorded(f)
                         /\ Superseded(f)' <=> Superseded(f)
                         /\ Outdated(f)' <=> Outdated(f)
      /\ EntriesOld'
  BY <1>1, StorageKept
<1>3. Changed' = Changed
  BY <1>1, ChangedKept
<1>4. NothingRemoved'
  <2>1. \A f \in Source : f \in File
    BY DEF File
  <2>2. \A f \in File : text[f] # Absent => Exists(f)
    BY <1>1 DEF NothingRemoved, TextsValid
  <2> QED
    BY <1>1, <1>2, <2>1, <2>2 DEF NothingRemoved
<1>5. OutputRecorded'
  BY <1>1 DEF OutputRecorded, TextsValid, Rejects
<1>6. ScanValid'
  BY <1>1, <1>2 DEF ScanValid
<1>7. TextsValid'
  BY <1>1, <1>2, <1>3 DEF TextsValid, Compiling, Rejects
<1>8. ReuseValid'
  BY <1>1 DEF ReuseValid
<1> QED
  BY <1>2, <1>4, <1>5, <1>6, <1>7, <1>8

LEMMA WriteIntFilesStep ==
    ASSUME TypeOK, Benign, Parts, WriteIntFiles
    PROVE  Parts'
<1> USE DEF Parts
<1>1. /\ phase = "written" /\ phase' = "saving"
      /\ disk' = disk /\ entry' = entry /\ out' = out /\ kind' = kind /\ seen' = seen
      /\ text' = text /\ during' = during
  BY DEF WriteIntFiles, history
<1>2. \A f \in File : /\ Exists(f)' <=> Exists(f)
                      /\ Known(f)' <=> Known(f)
                      /\ Recorded(f)' <=> Recorded(f)
                      /\ Superseded(f)' <=> Superseded(f)
  BY <1>1 DEF Exists, Known, Recorded, Superseded
<1>3. Changed' = Changed
  BY <1>1, ChangedKept
<1>4. NothingRemoved'
  <2>1. \A f \in Source : f \in File
    BY DEF File
  <2> QED
    BY <1>1, <1>2, <2>1 DEF NothingRemoved
<1>5. EntriesOld'
  BY <1>1, <1>2 DEF EntriesOld
<1>6. OutputRecorded'
  BY <1>1, <1>2 DEF OutputRecorded, Rejects
<1>7. ScanValid'
  BY <1>1, <1>2 DEF ScanValid
<1>8. TextsValid'
  BY <1>1, <1>2, <1>3 DEF TextsValid, Compiling, Rejects
<1>9. ReuseValid'
  BY <1>1 DEF ReuseValid
<1> QED
  BY <1>4, <1>5, <1>6, <1>7, <1>8, <1>9

-----------------------------------------------------------------------------
(* Builds that end.                                                        *)

\* The parts about a running build hold when there is none.
LEMMA FinishedParts ==
    ASSUME NEW r, Finish(r)
    PROVE  /\ phase' = "idle" /\ \A f \in File : kind'[f] = "None"
           /\ ScanValid' /\ TextsValid' /\ ReuseValid'
<1>1. /\ phase' = "idle"
      /\ \A f \in File : kind'[f] = "None" /\ text'[f] = Absent
  BY DEF Finish, Nothing
<1> QED
  BY <1>1 DEF ScanValid, TextsValid, ReuseValid, Compiling

\* A build that wrote nothing ends.
LEMMA FinishUnchanged ==
    ASSUME TypeOK, Benign, Parts, NEW r, Finish(r), UNCHANGED storage,
           phase \in {"loaded", "reusing", "scanned"}
    PROVE  Parts'
<1> USE DEF Parts
<1>1. disk' = disk /\ entry' = entry /\ int' = int /\ out' = out
  BY DEF storage
<1>2. /\ \A f \in File : /\ Exists(f)' <=> Exists(f)
                         /\ Known(f)' <=> Known(f)
                         /\ Recorded(f)' <=> Recorded(f)
                         /\ Superseded(f)' <=> Superseded(f)
                         /\ Outdated(f)' <=> Outdated(f)
      /\ EntriesOld'
  BY <1>1, StorageKept
<1>3. /\ phase' = "idle" /\ \A f \in File : kind'[f] = "None"
      /\ ScanValid' /\ TextsValid' /\ ReuseValid'
  BY FinishedParts
<1>4. NothingRemoved'
  <2>1. \A f \in Source : f \in File
    BY DEF File
  <2> QED
    BY <1>1, <1>2, <1>3, <2>1 DEF NothingRemoved
<1>5. OutputRecorded'
  BY <1>1, <1>2, <1>3 DEF OutputRecorded, Rejects
<1> QED
  BY <1>2, <1>3, <1>4, <1>5

\* What an entry written by this build says of its file.
LEMMA NewEntryValid ==
    ASSUME TypeOK, Benign, Parts, phase = "saving", UNCHANGED <<disk, int>>,
           NEW f \in File, Known(f)',
           entry'[f].content = NewEntry(f).content, entry'[f].stamp = NewEntry(f).stamp
    PROVE  /\ kind[f] # "None" /\ Exists(f)
           /\ text[f] = entry'[f].content \/ (~MayRevert /\ Superseded(f)')
           /\ ~MayRevert => \/ Superseded(f)'
                            \/ /\ entry'[f].content = disk[f].content
                               /\ f \in Source => entry'[f].stamp = disk[f].stamp
<1> USE DEF Parts
<1>1. NewEntry(f).content \notin {Absent, NoHash} /\ entry'[f].content # Absent
  BY DEF Known
<1>2. CASE kind[f] = "NewFile"
  <2>1. entry'[f].content = text[f] /\ entry'[f].stamp = seen[f].stamp
    BY <1>1, <1>2 DEF NewEntry
  <2>2. Exists(f) /\ kind[f] # "None" /\ disk'[f] = disk[f]
    BY <1>2 DEF NothingRemoved
  <2>3. ASSUME ~MayRevert
        PROVE  \/ Superseded(f)'
               \/ /\ entry'[f].content = disk[f].content
                  /\ f \in Source => entry'[f].stamp = disk[f].stamp
    <3>1. /\ disk[f].stamp \in Nat /\ seen[f].stamp \in Nat
          /\ disk[f].content \in Nat /\ text[f] \in Nat
      BY <1>1, <2>1, <2>2, Numbers
    <3>2. CASE f \in Source
      BY <1>1, <2>1, <2>2, <2>3, <3>1, <3>2 DEF TextsValid, Superseded, Exists
    <3>3. CASE f \notin Source
      <4>1. f \in External
        BY <3>3 DEF File
      <4> QED
        BY <1>1, <2>1, <2>2, <2>3, <3>1, <3>3, <4>1 DEF TextsValid, Superseded, Exists
    <3> QED
      BY <3>2, <3>3
  <2> QED
    BY <2>1, <2>2, <2>3
<1>3. CASE kind[f] # "NewFile"
  <2>1. /\ kind[f] = "FileNotChanged"
        /\ entry'[f].content = entry[f].content /\ entry'[f].stamp = entry[f].stamp
    BY <1>1, <1>3 DEF NewEntry, NoEntry
  <2>2. Known(f) /\ Exists(f) /\ text[f] # Absent /\ (Superseded(f)' <=> Superseded(f))
    BY <1>1, <2>1 DEF Known, NothingRemoved, TextsValid, Compiling, Superseded, Exists
  <2>3. text[f] = entry[f].content \/ (~MayRevert /\ Superseded(f))
    BY <2>1, <2>2 DEF TextsValid
  <2> QED
    BY <2>1, <2>2, <2>3 DEF EntriesOld
<1> QED
  BY <1>2, <1>3

\* A build ends after it has replaced some entries and dropped the others.
LEMMA FinishSaved ==
    ASSUME TypeOK, Benign, Parts, NEW r, Finish(r), phase = "saving",
           UNCHANGED <<disk, int, out>>,
           \A f \in File : Known(f)' => /\ entry'[f].content = NewEntry(f).content
                                        /\ entry'[f].stamp = NewEntry(f).stamp
    PROVE  Parts'
<1> USE DEF Parts
<1>1. /\ phase' = "idle" /\ \A f \in File : kind'[f] = "None"
      /\ ScanValid' /\ TextsValid' /\ ReuseValid'
  BY FinishedParts
<1>2. \A f \in File : Exists(f)' <=> Exists(f)
  BY DEF Exists
<1>3. NothingRemoved'
  <2>1. \A f \in Source : f \in File
    BY DEF File
  <2>2. \A f \in File : Known(f)' => Exists(f)
    BY NewEntryValid
  <2> QED
    BY <1>1, <1>2, <2>1, <2>2 DEF NothingRemoved
<1>4. EntriesOld'
  <2>1. ASSUME ~MayRevert, NEW f \in File, Known(f)'
        PROVE  \/ Superseded(f)'
               \/ /\ entry'[f].content = disk'[f].content
                  /\ f \in Source => entry'[f].stamp = disk'[f].stamp
    BY <2>1, NewEntryValid
  <2> QED
    BY <2>1 DEF EntriesOld
<1>5. OutputRecorded'
  <2>1. out'.state = "whole" /\ out'.lib = text /\ ~Rejects(out.lib)
    BY DEF OutputRecorded
  <2>2. ~Rejects(out.lib)'
    BY <2>1 DEF Rejects
  <2>3. \A f \in File : Known(f)' => \/ out'.lib[f] = entry'[f].content
                                     \/ ~MayRevert /\ Superseded(f)'
    BY <2>1, NewEntryValid
  <2> QED
    BY <1>1, <2>1, <2>2, <2>3 DEF OutputRecorded
<1> QED
  BY <1>1, <1>3, <1>4, <1>5

LEMMA ReturnStep ==
    ASSUME TypeOK, Benign, Parts, Fail \/ Reuse \/ Save
    PROVE  Parts'
<1>1. CASE Fail
  BY <1>1, FinishUnchanged DEF Fail
<1>2. CASE Reuse
  BY <1>2, FinishUnchanged DEF Reuse
<1>3. CASE Save
  <2>1. Changed # {}
    BY <1>3 DEF Save, Parts, TextsValid, Compiling
  <2>2. \A f \in File : entry'[f] = NewEntry(f)
    BY <1>3, <2>1 DEF Save, Benign
  <2> QED
    BY <1>3, <2>2, FinishSaved DEF Save
<1> QED
  BY <1>1, <1>2, <1>3

-----------------------------------------------------------------------------
(* The environment.                                                        *)

LEMMA CrashStep ==
    ASSUME TypeOK, Benign, Parts, Crash
    PROVE  Parts'
<1> USE DEF Parts
<1>1. /\ Finish(result) /\ UNCHANGED storage /\ phase # "idle"
      /\ MayCrash /\ ~MayRevert
  BY DEF Crash, Abandon, Benign
<1>2. CASE phase \in {"loaded", "reusing", "scanned"}
  BY <1>1, <1>2, FinishUnchanged
<1>3. CASE phase \in {"opened", "written", "saving"}
  <2>1. disk' = disk /\ entry' = entry /\ int' = int /\ out' = out
    BY <1>1 DEF storage
  <2>2. /\ \A f \in File : /\ Exists(f)' <=> Exists(f)
                           /\ Known(f)' <=> Known(f)
                           /\ Recorded(f)' <=> Recorded(f)
                           /\ Superseded(f)' <=> Superseded(f)
                           /\ Outdated(f)' <=> Outdated(f)
        /\ EntriesOld'
    BY <2>1, StorageKept
  <2>3. /\ phase' = "idle" /\ \A f \in File : kind'[f] = "None"
        /\ ScanValid' /\ TextsValid' /\ ReuseValid'
    BY <1>1, FinishedParts
  <2>4. NothingRemoved'
    <3>1. \A f \in Source : f \in File
      BY DEF File
    <3> QED
      BY <2>1, <2>2, <2>3, <3>1 DEF NothingRemoved
  <2>5. CASE phase = "opened"
    <3>1. out.state = "torn" /\ \E f \in File : Outdated(f)
      BY <1>1, <2>5, CompilingOutdated DEF OutputRecorded
    <3>2. OutputRecorded'
      BY <1>1, <2>1, <2>2, <2>3, <3>1 DEF OutputRecorded
    <3> QED
      BY <2>2, <2>3, <2>4, <3>2
  <2>6. CASE phase \in {"written", "saving"}
    <3>1. out.state = "whole" /\ out.lib = text /\ ~Rejects(out.lib)
      BY <2>6 DEF OutputRecorded
    <3>2. ASSUME NEW f \in File, Known(f)
          PROVE  text[f] = entry[f].content \/ Superseded(f)
      <4>1. kind[f] # "None"
        BY <2>6, <3>2 DEF ScanValid
      <4>2. text[f] # Absent
        BY <2>6, <4>1 DEF TextsValid, Compiling
      <4> QED
        BY <1>1, <2>6, <3>2, <4>2 DEF TextsValid
    <3>3. OutputRecorded'
      BY <1>1, <2>1, <2>2, <2>3, <3>1, <3>2 DEF OutputRecorded, Rejects
    <3> QED
      BY <2>2, <2>3, <2>4, <3>3
  <2> QED
    BY <1>3, <2>5, <2>6
<1> QED
  BY <1>1, <1>2, <1>3 DEF TypeOK

LEMMA CrashSavingStep ==
    ASSUME TypeOK, Benign, Parts, CrashSaving
    PROVE  Parts'
<1>1. Finish(result) /\ phase = "saving" /\ UNCHANGED <<disk, int, out>>
  BY DEF CrashSaving, Abandon
<1> QED
  BY <1>1, CrashSavingEntries, FinishSaved

LEMMA CleanStep ==
    ASSUME TypeOK, Benign, Parts, Clean
    PROVE  Parts'
<1> USE DEF Parts
<1>1. /\ phase = "idle" /\ phase' = phase /\ disk' = disk /\ kind' = kind /\ text' = text
      /\ out'.state = "absent" /\ out'.lib = Nothing
      /\ \A f \in File : ~Known(f)'
  BY DEF Clean, job, Known, NoEntry
<1>2. \A f \in File : Exists(f)' <=> Exists(f)
  BY <1>1 DEF Exists
<1>3. NothingRemoved'
  <2>1. \A f \in Source : f \in File
    BY DEF File
  <2> QED
    BY <1>1, <1>2, <2>1 DEF NothingRemoved, Nothing
<1>4. EntriesOld' /\ OutputRecorded'
  BY <1>1 DEF EntriesOld, OutputRecorded
<1>5. ScanValid' /\ TextsValid' /\ ReuseValid'
  BY <1>1 DEF ScanValid, TextsValid, ReuseValid, Compiling
<1> QED
  BY <1>3, <1>4, <1>5

LEMMA LoseIntFileStep ==
    ASSUME TypeOK, Benign, Parts, NEW g \in File, LoseIntFile(g)
    PROVE  Parts'
<1> USE DEF Parts
<1>1. /\ phase = "idle" /\ phase' = phase /\ disk' = disk /\ entry' = entry /\ out' = out
      /\ kind' = kind /\ text' = text /\ seen' = seen /\ during' = during
      /\ int' \subseteq int
  BY DEF LoseIntFile, job
<1>2. \A f \in File : /\ Exists(f)' <=> Exists(f)
                      /\ Known(f)' <=> Known(f)
                      /\ Recorded(f)' <=> Recorded(f)
                      /\ Superseded(f)' <=> Superseded(f)
  BY <1>1 DEF Exists, Known, Recorded, Superseded
<1>3. \A f \in File : Outdated(f) => Outdated(f)'
  BY <1>1, <1>2 DEF Outdated, SizeOf
<1>4. NothingRemoved'
  <2>1. \A f \in Source : f \in File
    BY DEF File
  <2> QED
    BY <1>1, <1>2, <2>1 DEF NothingRemoved
<1>5. EntriesOld' /\ OutputRecorded'
  BY <1>1, <1>2, <1>3 DEF EntriesOld, OutputRecorded, Rejects
<1>6. ScanValid' /\ TextsValid' /\ ReuseValid'
  BY <1>1 DEF ScanValid, TextsValid, ReuseValid, Compiling
<1> QED
  BY <1>4, <1>5, <1>6

LEMMA EditStep ==
    ASSUME TypeOK, Benign, Parts, NEW g \in File, Edit(g)
    PROVE  Parts'
<1> USE DEF Parts
<1>1. PICK v \in [content: Content, stamp: Stamp] :
        /\ ~MayRevert => Later(g, v, disk[g])
        /\ disk' = [disk EXCEPT ![g] = v]
        /\ during' = IF phase = "idle" THEN during
                     ELSE [during EXCEPT ![g] = @ \union {v.content}]
        /\ UNCHANGED <<entry, int, out, job, result>>
  BY DEF Edit
<1>2. /\ entry' = entry /\ int' = int /\ out' = out /\ phase' = phase /\ kind' = kind
      /\ seen' = seen /\ text' = text
  BY <1>1 DEF job
<1>3. /\ disk'[g] = v /\ \A f \in File : f # g => disk'[f] = disk[f]
      /\ v.content \in Content /\ v.content \in Nat /\ v.content # Absent /\ v.stamp \in Nat
  <2>1. v.content \in Content /\ v.stamp \in Stamp
    OBVIOUS
  <2>2. \A s \in Stamp : s \in Nat
    BY StampAssumption DEF Stamp
  <2>3. \A n \in Content : n # Absent /\ n \in Nat
    BY ContentAssumption
  <2>4. disk'[g] = v /\ \A f \in File : f # g => disk'[f] = disk[f]
    BY <1>1 DEF TypeOK
  <2> QED
    BY <2>1, <2>2, <2>3, <2>4
<1>4. \A f \in File : /\ Known(f)' <=> Known(f)
                      /\ Recorded(f)' <=> Recorded(f)
                      /\ Exists(f) => Exists(f)'
                      /\ Exists(g)'
                      /\ f # g => /\ Superseded(f)' <=> Superseded(f)
                                  /\ Outdated(f)' <=> Outdated(f)
  BY <1>2, <1>3 DEF Known, Recorded, Exists, Superseded, Outdated, SizeOf
<1>5. ~MayRevert /\ Known(g) => Superseded(g)'
  <2>1. Known(g) => Exists(g)
    BY DEF NothingRemoved
  <2> QED
    BY <1>1, <1>2, <2>1, EditSupersedes
<1>6. \A f \in File : ~MayRevert => /\ Known(f) /\ Superseded(f) => Superseded(f)'
                                    /\ Outdated(f) => Outdated(f)'
  BY <1>4, <1>5 DEF Outdated
<1>7. \A f \in File : during[f] \subseteq during'[f]
  BY <1>1 DEF TypeOK
<1>8. NothingRemoved'
  <2>1. \A f \in Source : f \in File
    BY DEF File
  <2> QED
    BY <1>2, <1>4, <2>1 DEF NothingRemoved
<1>9. EntriesOld'
  BY <1>2, <1>3, <1>4, <1>5 DEF EntriesOld
<1>10. OutputRecorded'
  <2>1. MayCrash => ~MayRevert
    BY DEF Benign
  <2> QED
    BY <1>2, <1>4, <1>6, <2>1 DEF OutputRecorded, Rejects
<1>11. ScanValid'
  BY <1>2, <1>4, <1>6, <1>7 DEF ScanValid
<1>12. TextsValid'
  <2>1. ASSUME phase # "idle", NEW f \in File, kind[f] # "None"
        PROVE  disk'[f].content \in during'[f]
    <3>1. CASE f = g
      BY <1>1, <1>3, <2>1, <3>1 DEF TypeOK
    <3>2. CASE f # g
      BY <1>3, <1>7, <2>1, <3>2 DEF TextsValid
    <3> QED
      BY <3>1, <3>2
  <2>2. ASSUME ~MayRevert, phase # "idle", NEW f \in File, text[f] # Absent, Known(f)
        PROVE  text[f] = entry[f].content \/ Superseded(f)'
    BY <1>6, <2>2 DEF TextsValid
  <2>3. ASSUME ~MayRevert, phase # "idle", NEW f \in Source, kind[f] # "None"
        PROVE  /\ seen[f].stamp <= disk'[f].stamp
               /\ seen[f].stamp = disk'[f].stamp /\ text[f] # Absent
                    => text[f] = disk'[f].content
    <3>1. f \in File /\ Exists(f)
      BY <2>3 DEF File, NothingRemoved
    <3>2. seen[f].stamp \in Nat /\ disk[f].stamp \in Nat
      BY <3>1, Numbers
    <3>3. CASE f = g
      <4>1. v.stamp > disk[f].stamp /\ seen[f].stamp <= disk[f].stamp
        BY <1>1, <2>3, <3>1, <3>3 DEF Later, Exists, TextsValid
      <4> QED
        BY <1>3, <3>2, <3>3, <4>1
    <3>4. CASE f # g
      BY <1>3, <2>3, <3>1, <3>4 DEF TextsValid
    <3> QED
      BY <3>3, <3>4
  <2>4. ASSUME ~MayRevert, phase # "idle", NEW f \in External, text[f] # Absent
        PROVE  text[f] <= disk'[f].content
    <3>1. f \in File /\ f \notin Source /\ Exists(f)
      BY <2>4, FilesAssumption DEF File, TextsValid, NothingRemoved
    <3>2. text[f] \in Nat /\ disk[f].content \in Nat
      BY <2>4, <3>1, Numbers
    <3>3. text[f] <= disk[f].content
      BY <2>4, <3>1 DEF TextsValid
    <3>4. CASE f = g
      <4>1. v.content > disk[f].content
        BY <1>1, <2>4, <3>1, <3>4 DEF Later, Exists
      <4> QED
        BY <1>3, <3>2, <3>3, <3>4, <4>1
    <3>5. CASE f # g
      BY <1>3, <3>1, <3>3, <3>5
    <3> QED
      BY <3>4, <3>5
  <2>5. Changed' = Changed
    BY <1>2, ChangedKept
  <2>6. (Compiling' <=> Compiling) /\ (Rejects(text)' <=> Rejects(text))
    BY <1>2 DEF Compiling, Rejects
  <2> QED
    BY <1>2, <1>4, <1>7, <2>1, <2>2, <2>3, <2>4, <2>5, <2>6 DEF TextsValid
<1>13. ReuseValid'
  BY <1>2, <1>7 DEF ReuseValid
<1> QED
  BY <1>8, <1>9, <1>10, <1>11, <1>12, <1>13

-----------------------------------------------------------------------------
(* The invariant and what follows from it.                                 *)

LEMMA StepIInv == TypeOK /\ IInv /\ [Next]_vars => IInv'
<1> SUFFICES ASSUME TypeOK, Benign, Parts, [Next]_vars PROVE Parts'
  BY DEF IInv, Benign
<1>1. CASE Scan
  BY <1>1, ScanStep
<1>2. CASE Load
  BY <1>2, LoadStep
<1>3. CASE Fail \/ Reuse \/ Save
  BY <1>3, ReturnStep
<1>4. CASE OpenOutput
  BY <1>4, OpenOutputStep
<1>5. CASE WriteOutput
  BY <1>5, WriteOutputStep
<1>6. CASE WriteIntFiles
  BY <1>6, WriteIntFilesStep
<1>7. CASE Crash
  BY <1>7, CrashStep
<1>8. CASE CrashSaving
  BY <1>8, CrashSavingStep
<1>9. CASE Clean
  BY <1>9, CleanStep
<1>10. CASE \E f \in File : Edit(f)
  BY <1>10, EditStep
<1>11. CASE \E f \in File : LoseIntFile(f)
  BY <1>11, LoseIntFileStep
<1>12. CASE LoseOutput \/ \E f \in File : Remove(f)
  BY <1>12 DEF LoseOutput, Remove, Benign
<1>13. CASE UNCHANGED vars \/ LibraryMissing
  <2>1. UNCHANGED <<disk, entry, int, out, phase, kind, seen, text, during>>
    BY <1>13 DEF LibraryMissing, vars, storage, job, history
  <2>2. /\ \A f \in File : /\ Exists(f)' <=> Exists(f)
                           /\ Known(f)' <=> Known(f)
                           /\ Recorded(f)' <=> Recorded(f)
                           /\ Superseded(f)' <=> Superseded(f)
                           /\ Outdated(f)' <=> Outdated(f)
        /\ EntriesOld => EntriesOld'
    BY <2>1, StorageKept
  <2>3. Changed' = Changed
    BY <2>1, ChangedKept
  <2>4. \A f \in Source : f \in File
    BY DEF File
  <2>5. NothingRemoved' /\ OutputRecorded' /\ ScanValid' /\ ReuseValid'
    BY <2>1, <2>2, <2>4
       DEF Parts, NothingRemoved, OutputRecorded, ScanValid, ReuseValid, Rejects
  <2>6. TextsValid'
    BY <2>1, <2>2, <2>3 DEF Parts, TextsValid, Compiling, Rejects
  <2> QED
    BY <2>2, <2>5, <2>6 DEF Parts
<1> QED
  BY <1>1, <1>2, <1>3, <1>4, <1>5, <1>6, <1>7, <1>8, <1>9, <1>10, <1>11, <1>12, <1>13,
     Actions

THEOREM InvariantHolds == Spec => [](TypeOK /\ IInv)
<1>1. Init => TypeOK /\ IInv
  BY InitTypeOK, InitIInv
<1>2. TypeOK /\ IInv /\ [Next]_vars => (TypeOK /\ IInv)'
  BY StepTypeOK, StepIInv
<1> QED
  BY <1>1, <1>2, PTL DEF Spec

(***************************************************************************)
(* What the scan takes for an up-to-date output is one, for every benign   *)
(* environment: edits, touches and crashes at any moment, cleans, and      *)
(* either old files coming back or builds being killed.                    *)
(***************************************************************************)
THEOREM OutputsUpToDate == Spec => [](Benign => UpToDate)
<1>1. TypeOK /\ IInv => (Benign => UpToDate)
  <2> SUFFICES ASSUME TypeOK, Benign, Parts, phase = "idle", out.state # "absent",
                      \A f \in File : Classify(f) \in {"None", "FileNotChanged"}
               PROVE  out.state = "whole" /\ \A f \in File : out.lib[f] = disk[f].content
    BY DEF IInv, UpToDate
  <2> USE DEF Parts
  <2>1. \A f \in File : ~Outdated(f)
    BY OutdatedFound DEF Direct
  <2>2. out.state = "whole"
    BY <2>1 DEF OutputRecorded, TypeOK
  <2>3. ASSUME NEW f \in File PROVE out.lib[f] = disk[f].content
    <3>1. CASE Classify(f) = "None"
      BY <3>1 DEF Classify, Exists, NothingRemoved
    <3>2. CASE Classify(f) = "FileNotChanged"
      <4>1. Exists(f) /\ Known(f) /\ Untouched(f) /\ entry[f].content = disk[f].content
        <5>1. disk[f].content # NoHash
          BY ContentAssumption DEF TypeOK
        <5> QED
          BY <3>2, <5>1 DEF Classify, Exists, Known
      <4>2. ~Superseded(f)
        BY <2>1, <4>1 DEF Outdated
      <4> QED
        BY <2>2, <4>1, <4>2 DEF OutputRecorded
    <3> QED
      BY <3>1, <3>2
  <2> QED
    BY <2>2, <2>3
<1> QED
  BY <1>1, InvariantHolds, PTL

(***************************************************************************)
(* In a benign environment the dependency file and the output never        *)
(* disagree on a file that the next build would not compile again.         *)
(***************************************************************************)
THEOREM EntriesDescribe == Spec => [](Benign => EntriesDescribeOutput)
<1>1. TypeOK /\ IInv => (Benign => EntriesDescribeOutput)
  BY DEF IInv, Parts, OutputRecorded, EntriesDescribeOutput
<1> QED
  BY <1>1, InvariantHolds, PTL

-----------------------------------------------------------------------------
(* The abstract specification.                                             *)

LEMMA FinishReturns ==
    ASSUME TypeOK, NEW v \in [File -> Value], \A f \in File : v[f] \in during[f],
           phase # "idle", disk' = disk, Finish(Service!Compile(v))
    PROVE  Service!Return
<1>1. /\ result' = Service!Compile(v) /\ phase' = "idle"
      /\ during' = [f \in File |-> {}]
  BY DEF Finish
<1> QED
  BY <1>1 DEF Service!Return, Service!File, Service!Value, File, Value

LEMMA StepRefines ==
    TypeOK /\ IInv /\ Benign /\ [Next]_vars => [Service!Next]_(Service!vars)
<1> SUFFICES ASSUME TypeOK, Benign, Parts, [Next]_vars
             PROVE  [Service!Next]_(Service!vars)
  BY DEF IInv
<1> USE DEF Service!File, File
<1>1. CASE Scan
  <2>1. Service!Begin
    BY <1>1 DEF Scan, Exists, storage, Service!Begin
  <2> QED
    BY <2>1 DEF Service!Next
<1>2. CASE Fail
  <2>1. /\ text \in [File -> Value] /\ \A f \in File : text[f] \in during[f]
    BY <1>2 DEF Fail, Parts, TextsValid, ScanValid, Compiling, TypeOK
  <2>2. Service!Compile(text) = [status |-> "errors"]
    BY <1>2 DEF Fail, Rejects, Service!Compile, Service!Rejects
  <2>3. Service!Return
    BY <1>2, <2>1, <2>2, FinishReturns DEF Fail, storage
  <2> QED
    BY <2>3 DEF Service!Next
<1>3. CASE Reuse
  <2>1. /\ out.lib \in [File -> Value] /\ out.state = "whole"
        /\ \A f \in File : out.lib[f] \in during[f]
    BY <1>3 DEF Reuse, Parts, ReuseValid, TypeOK
  <2>2. Service!Compile(out.lib) = [status |-> "value", lib |-> out.lib]
    BY <2>1 DEF Parts, OutputRecorded, Rejects, Service!Compile, Service!Rejects
  <2>3. Service!Return
    BY <1>3, <2>1, <2>2, FinishReturns DEF Reuse, storage
  <2> QED
    BY <2>3 DEF Service!Next
<1>4. CASE Save
  <2>1. /\ text \in [File -> Value] /\ \A f \in File : text[f] \in during[f]
    BY <1>4 DEF Save, Parts, TextsValid, ScanValid, Compiling, TypeOK
  <2>2. Service!Compile(text) = [status |-> "value", lib |-> text]
    BY <1>4 DEF Save, Parts, TextsValid, Rejects, Service!Compile, Service!Rejects
  <2>3. Service!Return
    BY <1>4, <2>1, <2>2, FinishReturns DEF Save
  <2> QED
    BY <2>3 DEF Service!Next
<1>5. CASE Crash \/ CrashSaving
  <2>1. phase # "idle" /\ Finish(result) /\ disk' = disk
    BY <1>5 DEF Crash, CrashSaving, Abandon, storage
  <2>2. Service!Crash
    BY <2>1 DEF Finish, Service!Crash
  <2> QED
    BY <2>2 DEF Service!Next
<1>6. CASE \E f \in File : Edit(f)
  <2>1. PICK g \in File, v \in [content: Content, stamp: Stamp] :
          /\ disk' = [disk EXCEPT ![g] = v]
          /\ during' = IF phase = "idle" THEN during
                       ELSE [during EXCEPT ![g] = @ \union {v.content}]
          /\ UNCHANGED <<entry, int, out, job, result>>
    BY <1>6 DEF Edit
  <2>2. phase' = phase /\ result' = result
    BY <2>1 DEF job
  <2>3. v.content \in Service!Value
    BY DEF Service!Value
  <2>4. [f \in File |-> disk'[f].content]
          = [[f \in File |-> disk[f].content] EXCEPT ![g] = v.content]
    BY <2>1 DEF TypeOK
  <2>5. Service!Change
    BY <2>1, <2>2, <2>3, <2>4 DEF Service!Change
  <2> QED
    BY <2>5 DEF Service!Next
<1>7. CASE Load \/ OpenOutput \/ WriteOutput \/ WriteIntFiles
  <2>1. /\ disk' = disk /\ during' = during /\ result' = result
        /\ phase # "idle" /\ phase' # "idle"
    BY <1>7 DEF Load, OpenOutput, WriteOutput, WriteIntFiles, storage, history
  <2> QED
    BY <2>1 DEF Service!vars
<1>8. CASE Clean \/ (\E f \in File : LoseIntFile(f)) \/ UNCHANGED vars
  <2>1. /\ disk' = disk /\ during' = during /\ result' = result /\ phase' = phase
    BY <1>8 DEF Clean, LoseIntFile, vars, storage, job, history
  <2> QED
    BY <2>1 DEF Service!vars
<1>9. CASE LoseOutput \/ \E f \in File : Remove(f)
  BY <1>9 DEF LoseOutput, Remove, Benign
<1>10. CASE LibraryMissing
  <2>1. Service!Refuse
    BY <1>10 DEF LibraryMissing, Exists, storage, job, history, Service!Refuse
  <2> QED
    BY <2>1 DEF Service!Next
<1> QED
  BY <1>1, <1>2, <1>3, <1>4, <1>5, <1>6, <1>7, <1>8, <1>9, <1>10, Actions

(***************************************************************************)
(* In a benign environment CompileFiles_UseIntDir implements the build     *)
(* service: it never returns anything but the compilation of what the      *)
(* files held during that build.                                           *)
(***************************************************************************)
THEOREM ServiceImplemented == Benign => (Spec => ImplementsBuildService)
<1> SUFFICES ASSUME Benign PROVE Spec => ImplementsBuildService
  OBVIOUS
<1>1. Init => Service!Init
  <2> SUFFICES ASSUME Init PROVE Service!Init
    OBVIOUS
  <2>1. [f \in File |-> disk[f].content] \in [File -> Value]
    BY InitTypeOK DEF TypeOK
  <2> QED
    BY <2>1 DEF Init, Service!Init, Service!File, Service!Value, File, Value
<1>2. TypeOK /\ IInv /\ [Next]_vars => [Service!Next]_(Service!vars)
  BY StepRefines
<1> QED
  BY <1>1, <1>2, InvariantHolds, PTL DEF Spec, ImplementsBuildService, Service!Spec

-----------------------------------------------------------------------------
(* Compilations are fresh in every environment.                            *)

LEMMA FreshRead ==
    ASSUME TypeOK, Fresh, Scan \/ Load
    PROVE  Fresh'
<1>1. CASE Scan
  <2>1. /\ phase' = "scanned" /\ disk' = disk
        /\ \A f \in File : /\ kind'[f] = Classify(f)
                           /\ text'[f] = IF Opened(f) THEN disk[f].content ELSE Absent
                           /\ during'[f] = {disk[f].content}
    BY <1>1 DEF Scan, storage
  <2>2. \A f \in File : Classify(f) = "None" => disk[f].content = Absent
    BY DEF Classify, Exists
  <2> QED
    BY <2>1, <2>2 DEF Fresh, ReadFresh, CompiledFresh, Compiling
<1>2. CASE Load
  <2>1. /\ phase = "scanned" /\ phase' \in {"reusing", "loaded"}
        /\ phase' = "reusing" => Changed = {}
        /\ disk' = disk /\ kind' = kind /\ entry' = entry /\ during' = during
        /\ Changed = {} => text' = Nothing
        /\ Changed # {} => \A f \in File :
             text'[f] = IF kind[f] = "None" THEN Absent
                        ELSE IF text[f] # Absent THEN text[f] ELSE disk[f].content
    BY <1>2 DEF Load, storage, history
  <2>2. Changed' = Changed
    BY <2>1, ChangedKept
  <2>3. ReadFresh
    BY DEF Fresh
  <2>4. ASSUME Changed # {}, NEW f \in File PROVE text'[f] \in during'[f]
    BY <2>1, <2>3, <2>4 DEF ReadFresh
  <2>5. \A f \in File : text'[f] # Absent => text'[f] \in during'[f]
    BY <2>1, <2>4 DEF Nothing
  <2>6. ReadFresh'
    BY <2>1, <2>3, <2>5 DEF ReadFresh
  <2> QED
    BY <2>1, <2>2, <2>4, <2>6 DEF Fresh, CompiledFresh
<1> QED
  BY <1>1, <1>2

\* The steps that write keep what was read.
LEMMA FreshKept ==
    ASSUME TypeOK, Fresh, OpenOutput \/ WriteOutput \/ WriteIntFiles
    PROVE  Fresh'
<1>1. /\ phase # "idle" /\ phase' \in {"opened", "written", "saving"} /\ Compiling
      /\ disk' = disk /\ kind' = kind /\ entry' = entry /\ text' = text /\ during' = during
      /\ ~Rejects(text)
  BY DEF OpenOutput, WriteOutput, WriteIntFiles, history, Compiling, Fresh, CompiledFresh
<1>2. Changed' = Changed /\ ~Rejects(text')
  BY <1>1, ChangedKept
<1> QED
  BY <1>1, <1>2 DEF Fresh, ReadFresh, CompiledFresh, Compiling

LEMMA FreshEdit ==
    ASSUME TypeOK, Fresh, NEW f \in File, Edit(f)
    PROVE  Fresh'
<1>1. PICK v \in [content: Content, stamp: Stamp] :
        /\ disk' = [disk EXCEPT ![f] = v]
        /\ during' = IF phase = "idle" THEN during
                     ELSE [during EXCEPT ![f] = @ \union {v.content}]
  BY DEF Edit
<1>2. phase' = phase /\ kind' = kind /\ text' = text /\ entry' = entry
  BY DEF Edit, job
<1>3. Changed' = Changed
  BY <1>2, ChangedKept
<1>4. phase # "idle" => /\ \A g \in File : during[g] \subseteq during'[g]
                        /\ \A g \in File : disk'[g].content \in {disk[g].content} \union during'[g]
  BY <1>1 DEF TypeOK
<1>5. ReadFresh'
  BY <1>2, <1>4 DEF Fresh, ReadFresh
<1> QED
  BY <1>2, <1>3, <1>4, <1>5 DEF Fresh, CompiledFresh, Compiling, Rejects

LEMMA StepFresh == TypeOK /\ Fresh /\ [Next]_vars => Fresh'
<1> SUFFICES ASSUME TypeOK, Fresh, [Next]_vars PROVE Fresh'
  OBVIOUS
<1>1. CASE Scan \/ Load
  BY <1>1, FreshRead
<1>2. CASE OpenOutput \/ WriteOutput \/ WriteIntFiles
  BY <1>2, FreshKept
<1>3. CASE \E f \in File : Edit(f)
  BY <1>3, FreshEdit
<1>4. CASE phase' = "idle"
  BY <1>4 DEF Fresh, ReadFresh, CompiledFresh, Compiling
<1>5. CASE Fail \/ Reuse \/ Save \/ Crash \/ CrashSaving
  <2>1. phase' = "idle"
    BY <1>5 DEF Fail, Reuse, Save, Crash, CrashSaving, Abandon, Finish
  <2> QED
    BY <1>4, <2>1
<1>6. CASE \/ LoseOutput \/ Clean \/ LibraryMissing
           \/ \E f \in File : Remove(f) \/ LoseIntFile(f)
  <2>1. phase' = "idle"
    BY <1>6 DEF LoseOutput, Clean, LibraryMissing, Remove, LoseIntFile, job
  <2> QED
    BY <1>4, <2>1
<1>7. CASE UNCHANGED vars
  <2>1. UNCHANGED <<disk, entry, kind, text, during, phase>>
    BY <1>7 DEF vars, storage, job, history
  <2>2. Changed' = Changed
    BY <2>1, ChangedKept
  <2> QED
    BY <2>1, <2>2 DEF Fresh, ReadFresh, CompiledFresh, Compiling, Rejects
<1> QED
  BY <1>1, <1>2, <1>3, <1>5, <1>6, <1>7 DEF Next, Build, Environment

(***************************************************************************)
(* Whatever else happens to the files (deleted, lost, not writable, put    *)
(* back, builds killed), a build that has seen a change returns what a     *)
(* build from nothing could return.                                        *)
(***************************************************************************)
THEOREM CompilationsFresh == Spec => CompilesFresh
<1>1. Init => Fresh
  BY DEF Init, Fresh, ReadFresh, CompiledFresh, Compiling
<1>2. ASSUME TypeOK, Fresh, [Next]_vars, Returns, Changed # {}
      PROVE  \E v \in [File -> Value] : /\ \A f \in File : v[f] \in during[f]
                                        /\ result' = Service!Compile(v)
  <2>1. text \in [File -> Value]
    BY <1>2 DEF TypeOK
  <2>2. Fail \/ Save
    <3>1. Scan \/ Load \/ OpenOutput \/ WriteOutput \/ WriteIntFiles => phase' # "idle"
      BY DEF Scan, Load, OpenOutput, WriteOutput, WriteIntFiles
    <3>2. Reuse => Changed = {}
      BY <1>2 DEF Reuse, Fresh, CompiledFresh
    <3>3. Crash \/ CrashSaving \/ LoseOutput \/ Clean => result' = result
      BY DEF Crash, CrashSaving, Abandon, Finish, LoseOutput, Clean, job
    <3>4. (\E f \in File : Edit(f) \/ Remove(f) \/ LoseIntFile(f)) => result' = result
      BY DEF Edit, Remove, LoseIntFile
    <3>5. UNCHANGED vars => result' = result
      BY DEF vars
    <3>6. LibraryMissing => phase = "idle"
      BY DEF LibraryMissing
    <3> QED
      BY <1>2, <3>1, <3>2, <3>3, <3>4, <3>5, <3>6 DEF Next, Build, Environment, Returns
  <2>3. \A f \in File : text[f] \in during[f]
    BY <1>2, <2>2 DEF Fail, Save, Fresh, CompiledFresh, Compiling
  <2>4. Rejects(text) <=> Service!Rejects(text)
    BY DEF Rejects, Service!Rejects
  <2>5. result' = Service!Compile(text)
    BY <1>2, <2>2, <2>4 DEF Fail, Save, Finish, Fresh, CompiledFresh, Service!Compile
  <2> QED
    BY <2>1, <2>3, <2>5
<1>3. TypeOK /\ Fresh /\ [Next]_vars => (TypeOK /\ Fresh)'
  BY StepTypeOK, StepFresh
<1>4. Init => TypeOK
  BY InitTypeOK
<1>5. TypeOK /\ Fresh /\ [Next]_vars =>
        [Returns /\ Changed # {} =>
           \E v \in [File -> Value] : /\ \A f \in File : v[f] \in during[f]
                                      /\ result' = Service!Compile(v)]_vars
  BY <1>2
<1> QED
  BY <1>1, <1>3, <1>4, <1>5, PTL DEF Spec, CompilesFresh
=============================================================================
