------------------- MODULE IncrementalBuildSettles_proofs -------------------
(***************************************************************************)
(* TLAPS proof that an incremental build stops compiling: the invariant    *)
(* SettleInv of IncrementalBuildInvariant, for any number of files.        *)
(***************************************************************************)
EXTENDS IncrementalBuild_proofs

-----------------------------------------------------------------------------
(* What depends on the stored files only.                                  *)

LEMMA StoredKept ==
    ASSUME UNCHANGED <<disk, entry, int>>
    PROVE  /\ \A f \in File : /\ Classify(f)' = Classify(f)
                              /\ Exists(f)' <=> Exists(f)
                              /\ Known(f)' <=> Known(f)
                              /\ Recorded(f)' <=> Recorded(f)
           /\ \A T : Settled(T)' <=> Settled(T)
           /\ \A f \in File : SizeOf(disk[f].content)' = SizeOf(disk[f].content)
           /\ EntryUses => EntryUses'
<1>1. \A f : /\ Exists(f)' <=> Exists(f)
             /\ Known(f)' <=> Known(f)
             /\ Recorded(f)' <=> Recorded(f)
             /\ SizeOf(disk[f].content)' = SizeOf(disk[f].content)
             /\ Untouched(f)' <=> Untouched(f)
  BY DEF Exists, Known, Recorded, SizeOf, Untouched
<1>2. \A f : Classify(f)' = Classify(f)
  BY <1>1 DEF Classify
<1>3. \A T : Settled(T)' <=> Settled(T)
  BY <1>1, <1>2 DEF Settled
<1>4. EntryUses => EntryUses'
  BY <1>1 DEF EntryUses
<1> QED
  BY <1>1, <1>2, <1>3, <1>4

LEMMA ProgressKept ==
    ASSUME UNCHANGED <<disk, entry, int, quiet>>, out'.state # "absent", Progress
    PROVE  Progress'
<1>1. \A f \in File : Classify(f)' = Classify(f)
  BY StoredKept
<1>2. \A T \in SUBSET Source : Settled(T)' <=> Settled(T)
  BY StoredKept
<1>3. \A f \in External : f \in File
  BY DEF File
<1> QED
  BY <1>1, <1>2, <1>3 DEF Progress

\* All that is known of a file is known of the file it was classified by.
LEMMA Classified ==
    ASSUME TypeOK, NEW f \in File
    PROVE  /\ Classify(f) = "None" <=> ~Exists(f)
           /\ Classify(f) = "NewFile" <=> Exists(f) /\ ~Recorded(f)
           /\ Classify(f) = "UpdatedFile" => Exists(f) /\ Recorded(f)
           /\ Classify(f) = "FileNotChanged" => Exists(f) /\ Known(f) /\ Recorded(f)
<1>1. disk[f].content # NoHash
  BY ContentAssumption DEF TypeOK
<1> QED
  BY <1>1 DEF Classify, Exists, Known, Recorded

\* Only source files are counted as changed for what they use.
LEMMA ChangedExternals ==
    ASSUME TypeOK, NEW f \in External, f \in Changed
    PROVE  kind[f] \in Direct
<1> DEFINE S == {g \in File : kind[g] \in Direct} \union Source
<1>1. S \in SUBSET File /\ Closed(S)
  BY DEF Closed, Direct, File
<1>2. f \in S
  BY <1>1 DEF Changed
<1> QED
  BY <1>2, FilesAssumption

\* A settled set of files is not counted as changed.
LEMMA SettledUnchanged ==
    ASSUME TypeOK, NEW T \in SUBSET Source, Settled(T),
           \A f \in T : kind[f] = "None" \/ (kind[f] = "FileNotChanged" /\ Exists(f))
    PROVE  T \intersect Changed = {}
<1>1. Closed(File \ T)
  <2>1. {f \in File : kind[f] \in {"NewFile", "UpdatedFile"}} \subseteq File \ T
    OBVIOUS
  <2>2. ASSUME NEW f \in Source, kind[f] = "FileNotChanged",
               entry[f].uses \intersect (File \ T) # {}
        PROVE  f \in File \ T
    BY <2>2 DEF Settled, File
  <2> QED
    BY <2>1, <2>2 DEF Closed
<1> QED
  BY <1>1 DEF Changed

-----------------------------------------------------------------------------
(* Types of what is recorded.                                              *)

LEMMA NewEntryUses ==
    ASSUME TypeOK, EntryUses, NEW f \in File,
           NewEntry(f).content \notin {Absent, NoHash}
    PROVE  NewEntry(f).uses \subseteq
             IF f \in Source THEN Uses[f][NewEntry(f).content] \intersect Source ELSE {}
<1>1. CASE kind[f] = "NewFile"
  BY <1>1 DEF NewEntry
<1>2. CASE kind[f] = "FileNotChanged" /\ f \notin Changed
  BY <1>2 DEF NewEntry, EntryUses, Known
<1> QED
  BY <1>1, <1>2 DEF NewEntry, NoEntry

LEMMA StepEntryUses == TypeOK /\ EntryUses /\ [Next]_vars => EntryUses'
<1> SUFFICES ASSUME TypeOK, EntryUses, [Next]_vars PROVE EntryUses'
  OBVIOUS
<1>1. CASE entry' = entry
  BY <1>1 DEF EntryUses, Known
<1>2. CASE entry' = [f \in File |-> NewEntry(f)]
  BY <1>2, NewEntryUses DEF EntryUses, Known
<1>3. CASE CrashSaving
  <2> SUFFICES ASSUME NEW f \in File, Known(f)'
               PROVE  entry'[f].uses \subseteq
                        IF f \in Source THEN Uses[f][entry'[f].content] \intersect Source ELSE {}
    BY DEF EntryUses
  <2>1. /\ entry'[f].content = NewEntry(f).content
        /\ entry'[f].uses \subseteq NewEntry(f).uses
    BY <1>3, CrashSavingEntries
  <2>2. NewEntry(f).content \notin {Absent, NoHash}
    BY <2>1 DEF Known
  <2> QED
    BY <2>1, <2>2, NewEntryUses
<1>4. CASE Clean
  BY <1>4 DEF Clean, EntryUses, Known, NoEntry
<1>5. CASE Save
  BY <1>1, <1>2, <1>5 DEF Save
<1>6. CASE \/ Scan \/ LibraryMissing \/ Load \/ Fail \/ Reuse \/ OpenOutput \/ WriteOutput \/ WriteIntFiles
           \/ Crash \/ LoseOutput \/ (\E f \in File : Edit(f) \/ Remove(f) \/ LoseIntFile(f))
           \/ UNCHANGED vars
  <2>1. entry' = entry
    BY <1>6 DEF Scan, LibraryMissing, Load, Fail, Reuse, OpenOutput, WriteOutput, WriteIntFiles, Crash,
                LoseOutput, Edit, Remove, LoseIntFile, vars, storage
  <2> QED
    BY <1>1, <2>1
<1> QED
  BY <1>3, <1>4, <1>5, <1>6, Actions

-----------------------------------------------------------------------------
(* The steps of a build.                                                   *)

LEMMA QuietNat == TypeOK => quiet \in Nat
  BY QuietCapNat DEF TypeOK

LEMMA QuietKinds ==
    ASSUME TypeOK, SettleInv, quiet >= 2, phase \notin {"idle", "saving"}
    PROVE  \A f \in File : kind[f] = Classify(f)
<1>1. quiet >= 1
  BY QuietNat
<1> QED
  BY <1>1 DEF SettleInv, QuietScan

LEMMA QuietCounts ==
    ASSUME TypeOK, QuietBuild
    PROVE  /\ quiet' \in Nat /\ quiet \in Nat /\ quiet' <= quiet + 1
           /\ quiet' >= 2 => quiet >= 1
           /\ quiet' >= 3 => quiet >= 2
<1>1. quiet \in Nat /\ QuietCap \in Nat
  BY QuietCapNat DEF TypeOK
<1>2. Cardinality(Source) \in Nat
  BY FS_CardinalityType, FilesAssumption
<1>3. QuietCap = Cardinality(Source) + 2
  BY DEF QuietCap
<1> QED
  BY <1>1, <1>2, <1>3 DEF QuietBuild

LEMMA ScanSettles ==
    ASSUME TypeOK, SettleInv, Scan
    PROVE  QuietScan' /\ Settling'
<1>1. /\ phase = "idle" /\ phase' = "scanned" /\ quiet' = quiet
      /\ UNCHANGED <<disk, entry, int, out>>
      /\ \A f \in File :
           /\ kind'[f] = Classify(f)
           /\ seen'[f] = [stamp |-> disk[f].stamp, size |-> SizeOf(disk[f].content)]
           /\ text'[f] = IF Opened(f) THEN disk[f].content ELSE Absent
  BY DEF Scan, storage
<1>2. \A f \in File : /\ Classify(f)' = Classify(f)
                      /\ Exists(f)' <=> Exists(f)
                      /\ Known(f)' <=> Known(f)
                      /\ Recorded(f)' <=> Recorded(f)
                      /\ SizeOf(disk[f].content)' = SizeOf(disk[f].content)
  BY <1>1, StoredKept
<1>3. QuietScan'
  <2> SUFFICES ASSUME NEW f \in File
               PROVE  /\ kind'[f] = Classify(f)'
                      /\ kind'[f] = "None" => ~Exists(f)'
                      /\ kind'[f] = "NewFile" => Exists(f)' /\ ~Recorded(f)'
                      /\ kind'[f] = "UpdatedFile" => Exists(f)' /\ Recorded(f)'
                      /\ seen'[f] = [stamp |-> disk'[f].stamp,
                                     size |-> SizeOf(disk[f].content)']
                      /\ text'[f] # Absent => text'[f] = disk'[f].content
    BY <1>1, Zenon DEF QuietScan, Compiling
  <2> QED
    BY <1>1, <1>2, Classified
<1>4. Progress => Progress'
  BY <1>1, ProgressKept DEF Progress
<1>5. Stuck => Stuck'
  BY <1>1, <1>2 DEF Stuck, Rejects
<1> QED
  BY <1>1, <1>3, <1>4, <1>5 DEF SettleInv, Settling, Compiling

LEMMA LoadSettles ==
    ASSUME TypeOK, SettleInv, Load
    PROVE  QuietScan' /\ Settling'
<1>1. /\ phase = "scanned" /\ quiet' = quiet
      /\ phase' = IF Changed = {} /\ out.state # "absent" THEN "reusing" ELSE "loaded"
      /\ UNCHANGED <<disk, entry, int, out, kind, seen>>
      /\ text' = IF Changed = {} THEN Nothing
                 ELSE [f \in File |-> IF kind[f] = "None" THEN Absent
                                      ELSE IF text[f] # Absent THEN text[f]
                                      ELSE disk[f].content]
  BY DEF Load, storage, history
<1>2. \A f \in File : /\ Classify(f)' = Classify(f)
                      /\ Exists(f)' <=> Exists(f)
                      /\ Known(f)' <=> Known(f)
                      /\ Recorded(f)' <=> Recorded(f)
                      /\ SizeOf(disk[f].content)' = SizeOf(disk[f].content)
  BY <1>1, StoredKept
<1>3. Changed' = Changed
  BY <1>1, ChangedKept
<1>4. ASSUME quiet >= 1, Changed # {}
      PROVE  text' = [f \in File |-> disk[f].content]
  <2>1. \A f \in File : /\ kind[f] = "None" => disk[f].content = Absent
                        /\ text[f] # Absent => text[f] = disk[f].content
    BY <1>1, <1>4 DEF SettleInv, QuietScan, Exists
  <2> QED
    BY <1>1, <1>4, <2>1
<1>5. QuietScan'
  <2>1. ASSUME quiet >= 1, NEW f \in File
        PROVE  /\ kind'[f] = Classify(f)'
               /\ kind'[f] = "None" => ~Exists(f)'
               /\ kind'[f] = "NewFile" => Exists(f)' /\ ~Recorded(f)'
               /\ kind'[f] = "UpdatedFile" => Exists(f)' /\ Recorded(f)'
               /\ seen'[f] = [stamp |-> disk'[f].stamp,
                              size |-> SizeOf(disk[f].content)']
    BY <1>1, <1>2, <2>1 DEF SettleInv, QuietScan
  <2>2. ASSUME quiet >= 1, NEW f \in File, text'[f] # Absent
        PROVE  text'[f] = disk'[f].content
    BY <1>1, <1>4, <2>2 DEF Nothing
  <2>3. ASSUME quiet >= 1
        PROVE  text' = IF Changed' = {} THEN Nothing ELSE [f \in File |-> disk'[f].content]
    BY <1>1, <1>3, <1>4, <2>3
  <2> QED
    BY <1>1, <2>1, <2>2, <2>3 DEF QuietScan
<1>6. Progress => Progress'
  BY <1>1, ProgressKept DEF Progress
<1>7. Stuck /\ quiet >= 2 => Changed # {}
  BY <1>1, ChangedFacts, QuietKinds DEF Stuck
<1>8. Stuck /\ quiet >= 2 => Stuck'
  BY <1>1, <1>2, <1>7 DEF Stuck, Rejects
<1>9. ASSUME quiet >= 2 PROVE Stuck' \/ Progress'
  BY <1>6, <1>8, <1>9 DEF SettleInv, Settling
<1>10. ASSUME quiet >= 2, phase' = "loaded" PROVE Changed' # {}
  <2>1. Progress => out.state # "absent"
    BY DEF Progress
  <2> QED
    BY <1>1, <1>3, <1>7, <1>10, <2>1 DEF SettleInv, Settling
<1> QED
  BY <1>1, <1>5, <1>9, <1>10 DEF Settling, Compiling

\* The steps that write keep what the scan saw.
LEMMA WriteSettles ==
    ASSUME TypeOK, SettleInv, ~MayFailWrite, OpenOutput \/ WriteOutput
    PROVE  QuietScan' /\ Settling'
<1>1. /\ phase \in {"loaded", "opened"} /\ phase' \in {"opened", "written"}
      /\ phase' = "written" => out'.state = "whole"
      /\ quiet' = quiet /\ out'.state \in {"torn", "whole"}
      /\ UNCHANGED <<disk, entry, int, kind, seen, text>>
  BY DEF OpenOutput, WriteOutput, history
<1>2. \A f \in File : /\ Classify(f)' = Classify(f)
                      /\ Exists(f)' <=> Exists(f)
                      /\ Known(f)' <=> Known(f)
                      /\ Recorded(f)' <=> Recorded(f)
                      /\ SizeOf(disk[f].content)' = SizeOf(disk[f].content)
  BY <1>1, StoredKept
<1>3. Changed' = Changed
  BY <1>1, ChangedKept
<1>4. QuietScan'
  <2>1. ASSUME quiet >= 1, NEW f \in File
        PROVE  /\ kind'[f] = Classify(f)'
               /\ kind'[f] = "None" => ~Exists(f)'
               /\ kind'[f] = "NewFile" => Exists(f)' /\ ~Recorded(f)'
               /\ kind'[f] = "UpdatedFile" => Exists(f)' /\ Recorded(f)'
               /\ seen'[f] = [stamp |-> disk'[f].stamp,
                              size |-> SizeOf(disk[f].content)']
               /\ text'[f] # Absent => text'[f] = disk'[f].content
    BY <1>1, <1>2, <2>1 DEF SettleInv, QuietScan
  <2>2. ASSUME quiet >= 1
        PROVE  text' = IF Changed' = {} THEN Nothing ELSE [f \in File |-> disk'[f].content]
    BY <1>1, <1>3, <2>2 DEF SettleInv, QuietScan, Compiling
  <2> QED
    BY <1>1, <2>1, <2>2 DEF QuietScan
<1>5. quiet >= 2 => Progress
  <2> SUFFICES ASSUME quiet >= 2, Stuck PROVE FALSE
    BY DEF SettleInv, Settling
  <2>1. phase = "loaded" /\ ~Rejects(text)
    BY <1>1 DEF OpenOutput, WriteOutput, Stuck
  <2>2. Changed # {}
    BY <2>1 DEF SettleInv, Settling, Compiling
  <2>3. text = [f \in File |-> disk[f].content]
    BY <2>1, <2>2, QuietNat DEF SettleInv, QuietScan, Compiling
  <2> QED
    BY <2>1, <2>3 DEF Stuck
<1>6. quiet >= 2 => Progress'
  BY <1>1, <1>5, ProgressKept
<1>7. quiet >= 2 => \A f \in File : kind[f] # "UpdatedFile"
  BY <1>1, <1>5, QuietKinds DEF Progress
<1>8. quiet >= 2 => Changed' # {}
  BY <1>1, <1>3 DEF SettleInv, Settling, Compiling
<1> QED
  BY <1>1, <1>4, <1>6, <1>7, <1>8 DEF Settling

LEMMA WriteIntSettles ==
    ASSUME TypeOK, SettleInv, WriteIntFiles
    PROVE  QuietScan' /\ Settling'
<1>1. /\ phase = "written" /\ phase' = "saving" /\ quiet' = quiet
      /\ int' = int \union (Changed \intersect Source)
      /\ UNCHANGED <<disk, entry, out, kind, seen, text>>
  BY DEF WriteIntFiles, history
<1>2. Changed' = Changed
  BY <1>1, ChangedKept
<1>3. \A f \in File : /\ Exists(f)' <=> Exists(f)
                      /\ Known(f)' <=> Known(f)
                      /\ Recorded(f)' <=> Recorded(f)
                      /\ SizeOf(disk[f].content)' = SizeOf(disk[f].content)
                      /\ Untouched(f) => Untouched(f)'
  BY <1>1 DEF Exists, Known, Recorded, SizeOf, Untouched
<1>4. \A f \in File :
        /\ Classify(f) = "FileNotChanged" => Classify(f)' = "FileNotChanged"
        /\ Classify(f)' = "NewFile" => Classify(f) = "NewFile"
        /\ Classify(f)' = "UpdatedFile" => Classify(f) = "UpdatedFile"
  BY <1>1, <1>3 DEF Classify
<1>5. QuietScan'
  <2>1. ASSUME quiet >= 1, NEW f \in File
        PROVE  /\ kind'[f] = "None" => ~Exists(f)'
               /\ kind'[f] = "NewFile" => Exists(f)' /\ ~Recorded(f)'
               /\ kind'[f] = "UpdatedFile" => Exists(f)' /\ Recorded(f)'
               /\ kind'[f] = "FileNotChanged" => Classify(f)' = "FileNotChanged"
               /\ seen'[f] = [stamp |-> disk'[f].stamp,
                              size |-> SizeOf(disk[f].content)']
               /\ text'[f] # Absent => text'[f] = disk'[f].content
    BY <1>1, <1>3, <1>4, <2>1 DEF SettleInv, QuietScan
  <2>2. ASSUME quiet >= 1
        PROVE  /\ text' = IF Changed' = {} THEN Nothing
                          ELSE [f \in File |-> disk'[f].content]
               /\ out'.state = "whole" /\ Changed' \intersect Source \subseteq int'
    BY <1>1, <1>2, <2>2 DEF SettleInv, QuietScan, Compiling
  <2> QED
    BY <1>1, <2>1, <2>2 DEF QuietScan
<1>6. ASSUME quiet >= 2 PROVE Progress'
  <2>1. Progress
    BY <1>1, <1>6 DEF SettleInv, Settling, Stuck
  <2>2. /\ out'.state # "absent"
        /\ \A f \in File : Classify(f)' # "UpdatedFile"
    BY <1>1, <1>4, <2>1 DEF Progress
  <2>3. quiet' >= 3 => \A f \in External : Classify(f)' # "NewFile"
    BY <1>1, <1>4, <2>1 DEF Progress, File
  <2>4. \A T \in SUBSET Source : Settled(T) => Settled(T)'
    BY <1>1, <1>3, <1>4 DEF Settled, File
  <2>5. \E T \in SUBSET Source : Settled(T)' /\ (T = Source \/ Cardinality(T) >= quiet' - 2)
    BY <1>1, <2>1, <2>4 DEF Progress
  <2> QED
    BY <2>2, <2>3, <2>5 DEF Progress
<1> QED
  BY <1>1, <1>2, <1>5, <1>6 DEF SettleInv, Settling, Compiling

-----------------------------------------------------------------------------
(* The ends of a build.                                                    *)

\* A build that found nothing changed leaves every source file settled.
LEMMA NothingChanged ==
    ASSUME TypeOK, SettleInv, quiet >= 1, phase \in {"reusing", "saving"}, Changed = {},
           UNCHANGED <<disk, entry, int, out>>, out.state # "absent"
    PROVE  Progress'
<1>1. \A f \in File : kind[f] \in {"None", "FileNotChanged"}
  BY ChangedFacts DEF TypeOK, Direct
<1>2. \A f \in File : Classify(f) \in {"None", "FileNotChanged"}
  BY <1>1, Classified DEF SettleInv, QuietScan
<1>3. \A f \in File : /\ Classify(f)' \in {"None", "FileNotChanged"}
                      /\ Exists(f)' => Classify(f)' = "FileNotChanged"
  BY <1>2, StoredKept, Classified
<1>4. \A f \in File : entry'[f].uses \subseteq Source
  BY DEF TypeOK, Entry
<1>5. Settled(Source)'
  BY <1>3, <1>4 DEF Settled, File
<1> QED
  BY <1>3, <1>5 DEF Progress, File

\* What a quiet build that has seen a change records.
LEMMA SavedEntries ==
    ASSUME TypeOK, SettleInv, quiet >= 1, phase = "saving", Changed # {},
           UNCHANGED <<disk, int>>, entry' = [f \in File |-> NewEntry(f)],
           NEW f \in File
    PROVE  /\ Exists(f)' <=> Exists(f)
           /\ kind[f] = "None" => ~Exists(f)
           /\ kind[f] = "NewFile" =>
                /\ Exists(f) /\ Classify(f)' = "FileNotChanged"
                /\ f \in Source => entry'[f].uses = Uses[f][disk[f].content] \intersect Source
           /\ kind[f] = "FileNotChanged" /\ f \notin Changed =>
                Exists(f) /\ Classify(f)' = "FileNotChanged" /\ entry'[f] = entry[f]
           /\ Classify(f)' # "UpdatedFile"
           /\ Classify(f)' = "NewFile" => kind[f] = "UpdatedFile" \/ f \in Changed
<1>1. /\ Exists(f)' <=> Exists(f)
      /\ SizeOf(disk[f].content)' = SizeOf(disk[f].content)
  BY DEF Exists, SizeOf
<1>2. /\ kind[f] = "None" => ~Exists(f)
      /\ kind[f] = "NewFile" => Exists(f) /\ ~Recorded(f)
      /\ kind[f] = "FileNotChanged" => Classify(f) = "FileNotChanged"
      /\ seen[f] = [stamp |-> disk[f].stamp, size |-> SizeOf(disk[f].content)]
      /\ text = [g \in File |-> disk[g].content]
      /\ Changed \intersect Source \subseteq int
  BY DEF SettleInv, QuietScan, Compiling
<1>3. CASE kind[f] = "None"
  BY <1>1, <1>2, <1>3 DEF Classify
<1>4. CASE kind[f] = "NewFile"
  <2>1. f \in Changed
    BY <1>4, ChangedFacts DEF Direct
  <2>2. /\ entry'[f].content = disk[f].content /\ entry'[f].stamp = disk[f].stamp
        /\ entry'[f].size = SizeOf(disk[f].content)
        /\ f \in Source => entry'[f].uses = Uses[f][disk[f].content] \intersect Source
    BY <1>2, <1>4 DEF NewEntry
  <2>3. Recorded(f)' /\ Untouched(f)'
    BY <1>1, <1>2, <1>4, <2>1, <2>2 DEF Recorded, Exists, Untouched
  <2>4. Classify(f)' = "FileNotChanged"
    BY <1>1, <1>2, <1>4, <2>2, <2>3 DEF Classify
  <2> QED
    BY <1>1, <1>2, <1>4, <2>1, <2>2, <2>4
<1>5. CASE kind[f] = "FileNotChanged" /\ f \notin Changed
  <2>1. entry'[f] = entry[f]
    BY <1>5 DEF NewEntry
  <2>2. Exists(f) /\ Known(f) /\ Untouched(f) /\ entry[f].content = disk[f].content
    BY <1>2, <1>5, Classified DEF Classify
  <2>3. Recorded(f)' /\ Untouched(f)'
    BY <1>1, <2>1, <2>2 DEF Known, Recorded, Untouched
  <2>4. Classify(f)' = "FileNotChanged"
    BY <1>1, <2>1, <2>2, <2>3 DEF Classify
  <2> QED
    BY <1>1, <1>5, <2>1, <2>2, <2>4
<1>6. CASE kind[f] = "UpdatedFile" \/ (kind[f] = "FileNotChanged" /\ f \in Changed)
  <2>1. ~Recorded(f)'
    BY <1>6 DEF NewEntry, NoEntry, Recorded
  <2>2. Classify(f)' # "UpdatedFile"
    BY <2>1 DEF Classify
  <2> QED
    BY <1>1, <1>6, <2>2
<1>7. \/ kind[f] = "None" \/ kind[f] = "NewFile" \/ kind[f] = "UpdatedFile"
      \/ kind[f] = "FileNotChanged"
  BY DEF TypeOK
<1> QED
  BY <1>3, <1>4, <1>5, <1>6, <1>7, Zenon

\* A settled set of files stays settled.
LEMMA SettledKept ==
    ASSUME TypeOK, SettleInv, quiet >= 2, phase = "saving", Changed # {},
           UNCHANGED <<disk, int>>, entry' = [f \in File |-> NewEntry(f)],
           NEW T \in SUBSET Source, Settled(T)
    PROVE  Settled(T)'
<1>1. quiet >= 1
  BY QuietNat
<1>2. ASSUME NEW f \in T
      PROVE  kind[f] = "None" \/ (kind[f] = "FileNotChanged" /\ Exists(f))
  <2>1. f \in File
    BY DEF File
  <2>2. Exists(f) => Recorded(f)
    BY <2>1, Classified DEF Settled
  <2>3. /\ kind[f] = "NewFile" => Exists(f) /\ ~Recorded(f)
        /\ kind[f] = "FileNotChanged" => Exists(f)
        /\ kind[f] # "UpdatedFile"
    BY <1>1, <2>1, Classified DEF SettleInv, QuietScan, Settling
  <2>4. kind[f] \in {"None", "NewFile", "UpdatedFile", "FileNotChanged"}
    BY <2>1 DEF TypeOK
  <2> QED
    BY <2>2, <2>3, <2>4
<1>3. T \intersect Changed = {}
  BY <1>2, SettledUnchanged
<1>4. ASSUME NEW f \in T, Exists(f)'
      PROVE  Classify(f)' = "FileNotChanged" /\ entry'[f].uses \subseteq T
  <2>1. f \in File /\ f \notin Changed
    BY <1>3 DEF File
  <2>2. /\ Exists(f)' <=> Exists(f)
        /\ kind[f] = "None" => ~Exists(f)
        /\ kind[f] = "FileNotChanged" =>
             Classify(f)' = "FileNotChanged" /\ entry'[f] = entry[f]
    BY <1>1, <2>1, SavedEntries
  <2> QED
    BY <1>2, <1>4, <2>2 DEF Settled
<1> QED
  BY <1>4 DEF Settled

\* One more source file is settled, if one is left.
LEMMA OneMoreSettled ==
    ASSUME TypeOK, SettleInv, Acyclic, quiet >= 2, phase = "saving", Changed # {},
           UNCHANGED <<disk, int>>, entry' = [f \in File |-> NewEntry(f)],
           NEW T \in SUBSET Source, Settled(T), T # Source
    PROVE  \E f \in Source \ T : Settled(T \union {f})'
<1>1. PICK f \in Source \ T : \A v \in Content : Uses[f][v] \intersect (Source \ T) = {}
  BY DEF Acyclic
<1>2. f \in File /\ quiet >= 1
  BY QuietNat DEF File
<1>3. Settled(T)'
  BY SettledKept
<1>4. CASE ~Exists(f)
  <2>1. ~Exists(f)'
    BY <1>4 DEF Exists
  <2> QED
    BY <1>1, <1>3, <2>1 DEF Settled
<1>5. CASE Exists(f) /\ kind[f] = "NewFile"
  <2>1. /\ Classify(f)' = "FileNotChanged"
        /\ entry'[f].uses = Uses[f][disk[f].content] \intersect Source
    BY <1>1, <1>2, <1>5, SavedEntries
  <2>2. disk[f].content \in Content
    BY <1>2, <1>5, Numbers
  <2>3. entry'[f].uses \subseteq T
    BY <1>1, <2>1, <2>2
  <2> QED
    BY <1>1, <1>3, <2>1, <2>3 DEF Settled
<1>6. CASE Exists(f) /\ kind[f] = "FileNotChanged"
  <2>1. Classify(f) = "FileNotChanged"
    BY <1>2, <1>6 DEF SettleInv, QuietScan
  <2>2. Known(f) /\ entry[f].content \in Content
    BY <1>2, <2>1, Classified, Numbers
  <2>3. entry[f].uses \subseteq Uses[f][entry[f].content] \intersect Source
    BY <1>1, <1>2, <2>2 DEF SettleInv, EntryUses
  <2>4. entry[f].uses \subseteq T
    BY <1>1, <2>2, <2>3
  <2>5. Settled(T \union {f})
    BY <2>1, <2>4 DEF Settled
  <2>6. T \union {f} \in SUBSET Source
    BY <1>1
  <2>7. Settled(T \union {f})'
    BY <2>5, <2>6, SettledKept
  <2> QED
    BY <1>1, <2>7
<1>7. kind[f] \in {"None", "NewFile", "FileNotChanged"}
  BY <1>2 DEF TypeOK, SettleInv, Settling
<1>8. kind[f] = "None" => ~Exists(f)
  BY <1>2 DEF SettleInv, QuietScan
<1> QED
  BY <1>4, <1>5, <1>6, <1>7, <1>8

LEMMA SaveProgress ==
    ASSUME TypeOK, SettleInv, ~MayFailWrite, Acyclic, Save, quiet >= 1, quiet' >= 2
    PROVE  Progress'
<1>1. /\ phase = "saving" /\ out.state = "whole" /\ UNCHANGED <<disk, int, out>>
      /\ QuietBuild
  BY DEF Save, SettleInv, QuietScan
<1>2. CASE Changed = {}
  <2>1. entry' = entry
    BY <1>2 DEF Save
  <2> QED
    BY <1>1, <1>2, <2>1, NothingChanged
<1>3. CASE Changed # {}
  <2>1. entry' = [f \in File |-> NewEntry(f)]
    BY <1>3 DEF Save
  <2>2. \A f \in File : Classify(f)' # "UpdatedFile"
    BY <1>1, <1>3, <2>1, SavedEntries
  <2>3. ASSUME quiet' >= 3, NEW f \in External PROVE Classify(f)' # "NewFile"
    <3>1. f \in File /\ quiet >= 2
      BY <1>1, <2>3, QuietCounts DEF File
    <3>2. kind[f] # "UpdatedFile"
      BY <1>1, <3>1 DEF SettleInv, Settling
    <3>3. f \in Changed => kind[f] = "NewFile"
      BY <3>2, ChangedExternals DEF Direct
    <3>4. kind[f] = "NewFile" => Classify(f)' = "FileNotChanged"
      BY <1>1, <1>3, <2>1, <3>1, SavedEntries
    <3> QED
      BY <1>1, <1>3, <2>1, <3>1, <3>2, <3>3, <3>4, SavedEntries
  <2>4. \E T \in SUBSET Source : Settled(T)' /\ (T = Source \/ Cardinality(T) >= quiet' - 2)
    <3>1. CASE quiet = 1
      <4>1. quiet' = 2
        BY <1>1, <3>1, QuietCounts
      <4>2. Settled({})' /\ Cardinality({}) = 0
        BY FS_EmptySet DEF Settled
      <4> QED
        BY <4>1, <4>2
    <3>2. CASE quiet >= 2
      <4>1. Progress
        BY <1>1, <3>2 DEF SettleInv, Settling, Stuck
      <4>2. PICK T \in SUBSET Source :
              Settled(T) /\ (T = Source \/ Cardinality(T) >= quiet - 2)
        BY <4>1 DEF Progress
      <4>3. CASE T = Source
        <5>1. Settled(T)'
          BY <1>1, <1>3, <2>1, <3>2, <4>2, SettledKept
        <5> QED
          BY <4>3, <5>1
      <4>4. CASE T # Source
        <5>1. PICK f \in Source \ T : Settled(T \union {f})'
          BY <1>1, <1>3, <2>1, <3>2, <4>2, <4>4, OneMoreSettled
        <5>2. IsFiniteSet(T)
          BY FS_Subset, FilesAssumption
        <5>3. Cardinality(T \union {f}) = Cardinality(T) + 1 /\ Cardinality(T) \in Nat
          BY <5>1, <5>2, FS_AddElement, FS_CardinalityType
        <5>4. Cardinality(T \union {f}) >= quiet' - 2
          BY <1>1, <4>2, <4>4, <5>3, QuietCounts
        <5>5. T \union {f} \in SUBSET Source
          BY <5>1
        <5> QED
          BY <5>1, <5>4, <5>5
      <4> QED
        BY <4>3, <4>4
    <3> QED
      BY <1>1, <3>1, <3>2, QuietCounts
  <2> QED
    BY <1>1, <2>2, <2>3, <2>4 DEF Progress
<1> QED
  BY <1>2, <1>3

LEMMA ReturnSettles ==
    ASSUME TypeOK, Fresh, SettleInv, ~MayFailWrite, Acyclic, Fail \/ Reuse \/ Save
    PROVE  QuietScan' /\ Settling'
<1>1. phase' = "idle" /\ QuietBuild
  BY DEF Fail, Reuse, Save, Finish
<1>2. ASSUME quiet' >= 2 PROVE Stuck' \/ Progress'
  <2>1. quiet >= 1
    BY <1>1, <1>2, QuietCounts
  <2>2. CASE Save
    BY <1>2, <2>1, <2>2, SaveProgress
  <2>3. CASE Reuse
    <3>1. phase = "reusing" /\ UNCHANGED <<disk, entry, int, out>>
      BY <2>3 DEF Reuse, storage
    <3>2. Changed = {} /\ out.state # "absent"
      BY <2>1, <3>1 DEF Fresh, CompiledFresh, SettleInv, QuietScan
    <3> QED
      BY <2>1, <3>1, <3>2, NothingChanged
  <2>4. CASE Fail
    <3>1. phase = "loaded" /\ Rejects(text) /\ UNCHANGED <<disk, entry, int, out>>
      BY <2>4 DEF Fail, storage
    <3>2. text = IF Changed = {} THEN Nothing ELSE [f \in File |-> disk[f].content]
      BY <2>1, <3>1 DEF SettleInv, QuietScan, Compiling
    <3>3. Changed # {} /\ text = [f \in File |-> disk[f].content]
      BY <3>1, <3>2 DEF Rejects, Nothing, File
    <3>4. PICK f \in File : kind[f] \in Direct
      BY <3>3, ChangedFacts
    <3>5. Classify(f) \in Direct
      BY <2>1, <3>1, <3>4 DEF SettleInv, QuietScan
    <3>6. Classify(f)' \in Direct
      BY <3>1, <3>5, StoredKept
    <3>7. Rejects([g \in File |-> disk[g].content])'
      BY <3>1, <3>3 DEF Rejects
    <3> QED
      BY <1>1, <3>6, <3>7 DEF Stuck
  <2> QED
    BY <2>2, <2>3, <2>4
<1> QED
  BY <1>1, <1>2 DEF QuietScan, Settling, Compiling

-----------------------------------------------------------------------------
(* Everything that is not a step of a build starts the count of quiet      *)
(* builds from zero.                                                       *)

LEMMA Disturbed ==
    ASSUME Environment
    PROVE  quiet' = 0
  BY DEF Environment, Crash, CrashSaving, Abandon, LoseOutput, Clean, Edit, Remove,
         LoseIntFile, Disturb

LEMMA StepSettles ==
    ~MayFailWrite /\ Acyclic /\ TypeOK /\ Fresh /\ SettleInv /\ [Next]_vars => SettleInv'
<1> SUFFICES ASSUME ~MayFailWrite, Acyclic, TypeOK, Fresh, SettleInv, [Next]_vars
             PROVE  QuietScan' /\ Settling'
  BY StepEntryUses DEF SettleInv
<1>1. CASE Scan
  BY <1>1, ScanSettles
<1>2. CASE Load
  BY <1>2, LoadSettles
<1>3. CASE OpenOutput \/ WriteOutput
  BY <1>3, WriteSettles
<1>4. CASE WriteIntFiles
  BY <1>4, WriteIntSettles
<1>5. CASE Fail \/ Reuse \/ Save
  BY <1>5, ReturnSettles
<1>6. CASE Environment
  BY <1>6, Disturbed DEF QuietScan, Settling
<1>7. CASE UNCHANGED vars \/ LibraryMissing
  <2>1. UNCHANGED <<disk, entry, int, out, phase, kind, seen, text, quiet>>
    BY <1>7 DEF LibraryMissing, vars, storage, job, history
  <2>2. /\ \A f \in File : /\ Classify(f)' = Classify(f)
                           /\ Exists(f)' <=> Exists(f)
                           /\ Known(f)' <=> Known(f)
                           /\ Recorded(f)' <=> Recorded(f)
                           /\ SizeOf(disk[f].content)' = SizeOf(disk[f].content)
        /\ Changed' = Changed
    BY <2>1, StoredKept, ChangedKept
  <2>3. QuietScan'
    BY <2>1, <2>2 DEF SettleInv, QuietScan, Compiling
  <2>4. Stuck => Stuck'
    BY <2>1, <2>2 DEF Stuck, Rejects
  <2>5. Progress => Progress'
    BY <2>1, ProgressKept DEF Progress
  <2> QED
    BY <2>1, <2>2, <2>3, <2>4, <2>5 DEF SettleInv, Settling, Compiling
<1> QED
  BY <1>1, <1>2, <1>3, <1>4, <1>5, <1>6, <1>7 DEF Next, Build

(***************************************************************************)
(* If no source files use each other in a circle and the output and the    *)
(* dependency file can be written, whatever happened before: once the      *)
(* files no longer change, and the build that may be running then has      *)
(* returned, at most as many builds compile as there are source files, and *)
(* one more.                                                               *)
(***************************************************************************)
THEOREM BuildsSettle == ~MayFailWrite /\ Acyclic => (Spec => []SettlesSoon)
<1> SUFFICES ASSUME ~MayFailWrite, Acyclic PROVE Spec => []SettlesSoon
  OBVIOUS
<1>1. Init => TypeOK /\ Fresh /\ SettleInv
  <2>1. Init => Fresh
    BY DEF Init, Fresh, ReadFresh, CompiledFresh, Compiling
  <2>2. Init => EntryUses
    BY DEF Init, EntryUses, Known, NoEntry
  <2>3. Init => QuietScan /\ Settling
    BY DEF Init, QuietScan, Settling
  <2> QED
    BY <2>1, <2>2, <2>3, InitTypeOK DEF SettleInv
<1>2. TypeOK /\ Fresh /\ SettleInv /\ [Next]_vars => (TypeOK /\ Fresh /\ SettleInv)'
  BY StepTypeOK, StepFresh, StepSettles
<1>3. TypeOK /\ SettleInv => SettlesSoon
  <2> SUFFICES ASSUME TypeOK, SettleInv, phase = "opened", ~(quiet <= Cardinality(Source) + 1)
               PROVE  FALSE
    BY DEF SettlesSoon
  <2>1. IsFiniteSet(Source) /\ Cardinality(Source) \in Nat /\ Cardinality(Source) # 0
    BY FilesAssumption, FS_CardinalityType, FS_EmptySet
  <2>2. quiet \in Nat /\ quiet >= Cardinality(Source) + 2 /\ quiet >= 3
    BY <2>1, QuietNat
  <2>3. Progress /\ Changed # {} /\ \A f \in File : kind[f] # "UpdatedFile"
    BY <2>2 DEF SettleInv, Settling, Stuck, Compiling
  <2>4. PICK T \in SUBSET Source :
          Settled(T) /\ (T = Source \/ Cardinality(T) >= Cardinality(Source))
    <3>1. PICK T \in SUBSET Source :
            Settled(T) /\ (T = Source \/ Cardinality(T) >= quiet - 2)
      BY <2>3 DEF Progress
    <3>2. Cardinality(T) \in Nat
      BY <2>1, FS_Subset, FS_CardinalityType
    <3> QED
      BY <2>1, <2>2, <3>1, <3>2
  <2>5. T = Source
    <3>1. Cardinality(T) \in Nat /\ Cardinality(T) <= Cardinality(Source)
      BY <2>1, FS_Subset, FS_CardinalityType
    <3>2. Cardinality(T) >= Cardinality(Source) => Cardinality(Source) = Cardinality(T)
      BY <2>1, <3>1
    <3> QED
      BY <2>1, <2>4, <3>2, FS_Subset
  <2>6. \A f \in File : kind[f] = Classify(f)
    BY <2>2, QuietKinds
  <2>7. PICK f \in File : kind[f] = "NewFile"
    BY <2>3, ChangedFacts DEF Direct
  <2>8. CASE f \in Source
    BY <2>4, <2>5, <2>6, <2>7, <2>8, Classified DEF Settled
  <2>9. CASE f \in External
    BY <2>2, <2>3, <2>6, <2>7, <2>9 DEF Progress
  <2> QED
    BY <2>8, <2>9 DEF File
<1> QED
  BY <1>1, <1>2, <1>3, PTL DEF Spec
=============================================================================
