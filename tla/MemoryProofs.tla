---------------------------- MODULE MemoryProofs ----------------------------
(* Proofs about MemoryIndex, for any files, entries and number of edits,   *)
(* about MemoryProjection, for any sessions, workers and runs, and about   *)
(* ContextSelection, for any sizes, levels and limits.                     *)
EXTENDS MemoryProjection, MemoryIndex, ContextSelection, SequenceTheorems, FiniteSetTheorems,
        WellFoundedInduction, TLAPS

-----------------------------------------------------------------------------
(* MemoryIndex.                                                            *)

IndexSpec == IndexInit /\ [][IndexNext]_index

Text     == (SUBSET Entries) \cup {Absent}
FileType == [text : Text, time : Nat]
SyncType == [stage : {"none", "scanning", "deleting", "files", "embedding", "storing"},
             scan : [Files -> FileType], todo : SUBSET Files, text : Text]

IndexTypeOK ==
    /\ file \in [Files -> FileType]
    /\ record \in [Files -> FileType]
    /\ chunks \in [Files -> Text]
    /\ sync \in SyncType
    /\ edits \in Nat

\* A file as it was after one of the first n edits, or before it was there.
Version(v, n) == v.time <= n /\ (v.time = 0 <=> v = NoFile) /\ (v.text = Absent <=> v = NoFile)

\* The row of a file with the time the file has stands for chunks of its text; a
\* scan that has the time of the file has its text.
FileOK(p) ==
    /\ Version(file[p], edits) /\ Version(record[p], edits) /\ Version(sync.scan[p], edits)
    /\ sync.scan[p].time = file[p].time => sync.scan[p] = file[p]
    /\ record[p] = NoFile <=> chunks[p] = Absent
    /\ record[p].time = file[p].time => chunks[p] = file[p].text
    /\ p \in sync.todo => sync.scan[p] # NoFile

\* What was read of a file that has not changed since the scan is its text.
Reading ==
    sync.stage \in {"embedding", "storing"} =>
        /\ sync.text # Absent
        /\ \A p \in sync.todo : First(p) /\ sync.scan[p].time = file[p].time =>
              sync.text = file[p].text

\* The inductive invariant.
IndexInv == IndexTypeOK /\ Reading /\ \A p \in Files : FileOK(p)

LEMMA DailyIsAFile == Daily \in Files
<1>1. /\ Paths \in Seq(ToSet(Paths)) /\ Paths # <<>>
  BY IndexAssumption
<1>2. Paths[Len(Paths)] \in ToSet(Paths)
  BY <1>1
<1> QED BY <1>2 DEF Daily, Files, Last

LEMMA NoFileType == NoFile \in FileType /\ NoFile.time = 0 /\ NoFile.text = Absent
BY DEF NoFile, FileType, Text

LEMMA NoSyncType ==
    /\ NoSync \in SyncType /\ NoSync.stage = "none" /\ NoSync.todo = {}
    /\ \A p \in Files : NoSync.scan[p] = NoFile
    /\ [NoSync EXCEPT !.stage = "scanning"] \in SyncType
    /\ [NoSync EXCEPT !.stage = "scanning"].stage = "scanning"
    /\ [NoSync EXCEPT !.stage = "scanning"].todo = {}
    /\ [NoSync EXCEPT !.stage = "scanning"].scan = NoSync.scan
<1>1. [p \in Files |-> NoFile] \in [Files -> FileType]
  BY NoFileType
<1> QED BY <1>1 DEF NoSync, SyncType, Text

\* A sync that begins, ends or was lost asks nothing of the index.
LEMMA SyncForgotten ==
    ASSUME IndexInv, sync' \in {NoSync, [NoSync EXCEPT !.stage = "scanning"]},
           UNCHANGED <<file, record, chunks, edits>>
    PROVE  IndexInv'
<1>1. /\ sync' \in SyncType /\ sync'.stage \in {"none", "scanning"} /\ sync'.todo = {}
      /\ \A p \in Files : sync'.scan[p] = NoFile
  BY NoSyncType
<1>2. IndexTypeOK' /\ Reading'
  BY <1>1 DEF IndexInv, IndexTypeOK, Reading
<1>3. \A p \in Files : FileOK(p)'
  BY <1>1, NoFileType DEF IndexInv, IndexTypeOK, FileOK, Version
<1> QED BY <1>2, <1>3 DEF IndexInv

\* A file is written or removed: its time is not that of its row, nor of a scan.
\* A sync may begin.
LEMMA FileWritten ==
    ASSUME IndexInv, NEW p \in Files, NEW text \in Text, WriteFile(p, text),
           UNCHANGED <<record, chunks>>,
           sync' = sync \/ sync' = [NoSync EXCEPT !.stage = "scanning"]
    PROVE  IndexInv'
<1> DEFINE new == IF text = Absent THEN NoFile ELSE [text |-> text, time |-> edits + 1]
<1>1. file' = [file EXCEPT ![p] = new] /\ edits' = edits + 1 /\ edits \in Nat
  BY DEF WriteFile, IndexInv, IndexTypeOK
<1>2. /\ new \in FileType /\ new.time <= edits + 1
      /\ (new = NoFile \/ (new.time = edits + 1 /\ new.text # Absent /\ new # NoFile))
  BY <1>1, NoFileType DEF FileType, NoFile
<1> HIDE DEF new
<1>3. /\ sync' \in SyncType
      /\ \/ sync' = sync
         \/ /\ sync'.stage = "scanning" /\ sync'.todo = {}
            /\ \A q \in Files : sync'.scan[q] = NoFile
  BY NoSyncType DEF IndexInv, IndexTypeOK
<1>4. IndexTypeOK'
  BY <1>1, <1>2, <1>3 DEF IndexInv, IndexTypeOK
<1>5. ASSUME NEW q \in Files PROVE FileOK(q)'
  <2>1. FileOK(q) /\ file[q] \in FileType /\ record[q] \in FileType /\ sync.scan[q] \in FileType
    BY DEF IndexInv, IndexTypeOK, SyncType
  <2>2. Version(file'[q], edits') /\ Version(record[q], edits')
    <3>1. file'[q] = file[q] \/ file'[q] = new
      BY <1>1 DEF IndexInv, IndexTypeOK
    <3> QED BY <1>1, <1>2, <2>1, <3>1, NoFileType DEF FileOK, Version, FileType
  <2>3. sync'.scan[q] = sync.scan[q] \/ sync'.scan[q] = NoFile
    BY <1>3
  <2>4. Version(sync'.scan[q], edits')
    BY <1>1, <2>1, <2>3, NoFileType DEF FileOK, Version, FileType
  <2>5. q \in sync'.todo => sync'.scan[q] # NoFile
    BY <1>3, <2>1 DEF FileOK
  <2>6. CASE q # p
    <3>1. file'[q] = file[q]
      BY <1>1, <2>6 DEF IndexInv, IndexTypeOK
    <3>2. sync'.scan[q].time = file'[q].time => sync'.scan[q] = file'[q]
      BY <2>1, <2>3, <3>1, NoFileType DEF FileOK, Version
    <3> QED BY <2>1, <2>2, <2>4, <2>5, <3>1, <3>2 DEF FileOK
  <2>7. CASE q = p
    <3>1. file'[q] = new
      BY <1>1, <2>7 DEF IndexInv, IndexTypeOK
    <3>2. record[q].time <= edits /\ sync'.scan[q].time <= edits
      BY <1>1, <2>1, <2>3, NoFileType DEF FileOK, Version
    <3>3. CASE new = NoFile
      BY <2>1, <2>2, <2>3, <2>4, <2>5, <3>1, <3>3, NoFileType DEF FileOK, Version
    <3>4. CASE new # NoFile
      <4>1. new.time # record[q].time /\ new.time # sync'.scan[q].time
        BY <1>1, <1>2, <2>1, <2>3, <3>2, <3>4, NoFileType DEF FileType
      <4> QED BY <2>1, <2>2, <2>4, <2>5, <3>1, <4>1 DEF FileOK
    <3> QED BY <3>3, <3>4
  <2> QED BY <2>6, <2>7
<1>6. Reading'
  <2> SUFFICES ASSUME sync'.stage \in {"embedding", "storing"}
               PROVE  /\ sync'.text # Absent
                      /\ \A q \in sync'.todo : First(q)' /\ sync'.scan[q].time = file'[q].time =>
                            sync'.text = file'[q].text
    BY DEF Reading
  <2>1. sync' = sync /\ sync.text # Absent
    BY <1>3 DEF IndexInv, Reading
  <2>2. ASSUME NEW q \in sync.todo, First(q)', sync.scan[q].time = file'[q].time
        PROVE  sync.text = file'[q].text
    <3>1. q \in Files /\ First(q) /\ sync.scan[q] \in FileType
      BY <2>1, <2>2 DEF IndexInv, IndexTypeOK, SyncType, First
    <3>2. CASE q # p
      <4>1. file'[q] = file[q]
        BY <1>1, <3>1, <3>2 DEF IndexInv, IndexTypeOK
      <4> QED BY <2>1, <2>2, <3>1, <4>1 DEF IndexInv, Reading
    <3>3. CASE q = p
      <4>1. file'[q] = new
        BY <1>1, <3>1, <3>3 DEF IndexInv, IndexTypeOK
      <4>2. sync.scan[q].time <= edits /\ sync.scan[q].time # 0 /\ sync.scan[q].time \in Nat
        BY <2>2, <3>1 DEF IndexInv, FileOK, Version, FileType
      <4> QED BY <1>1, <1>2, <2>2, <4>1, <4>2, NoFileType
    <3> QED BY <3>2, <3>3
  <2> QED BY <2>1, <2>2
<1> QED BY <1>4, <1>5, <1>6 DEF IndexInv

\* Only the sync goes on, without another text: with the scan it has, and no more
\* files to do.
LEMMA SyncGoesOn ==
    ASSUME IndexInv, NEW new \in SyncType, sync' = new, new.scan = sync.scan,
           new.todo \subseteq sync.todo, new.stage \notin {"embedding", "storing"},
           UNCHANGED <<file, record, chunks, edits>>
    PROVE  IndexInv'
<1>1. IndexTypeOK' /\ Reading'
  BY DEF IndexInv, IndexTypeOK, Reading
<1>2. \A p \in Files : FileOK(p)'
  BY DEF IndexInv, FileOK, Version
<1> QED BY <1>1, <1>2 DEF IndexInv

LEMMA ArchiveStep ==
    ASSUME IndexInv, NEW s \in Entries, Archive(s)
    PROVE  IndexInv'
<1> DEFINE old == IF There(Daily) THEN file[Daily].text ELSE {}
<1>1. WriteFile(Daily, WithArchive(old, s)) /\ Scheduled(TRUE) /\ UNCHANGED <<record, chunks>>
  BY DEF Archive
<1>2. Daily \in Files /\ WithArchive(old, s) \in Text
  BY DailyIsAFile DEF IndexInv, IndexTypeOK, FileType, Text, There, WithArchive
<1>3. sync' = sync \/ sync' = [NoSync EXCEPT !.stage = "scanning"]
  BY <1>1 DEF Scheduled
<1> QED BY <1>1, <1>2, <1>3, FileWritten

\* The scan is what the files are at one moment.
LEMMA ScanStep ==
    ASSUME IndexInv, Scan
    PROVE  IndexInv'
<1> DEFINE new == [sync EXCEPT !.stage = "deleting", !.scan = file,
                               !.todo = {p \in Files : There(p)}]
<1>1. sync' = new /\ UNCHANGED <<file, record, chunks, edits>>
  BY DEF Scan
<1>2. /\ new \in SyncType /\ new.stage = "deleting" /\ new.scan = file
      /\ new.todo = {p \in Files : There(p)}
  BY DEF IndexInv, IndexTypeOK, SyncType
<1> HIDE DEF new
<1>3. IndexTypeOK' /\ Reading'
  BY <1>1, <1>2 DEF IndexInv, IndexTypeOK, Reading
<1>4. \A p \in Files : FileOK(p)'
  BY <1>1, <1>2, NoFileType DEF IndexInv, FileOK, Version, There
<1> QED BY <1>3, <1>4 DEF IndexInv

\* The rows of files that the scan did not find.
LEMMA DeletePathsStep ==
    ASSUME IndexInv, DeletePaths
    PROVE  IndexInv'
<1> DEFINE new == [sync EXCEPT !.stage = "files"]
<1>1. /\ record' = [p \in Files |-> IF p \in Removed THEN NoFile ELSE record[p]]
      /\ chunks' = [p \in Files |-> IF p \in Removed THEN Absent ELSE chunks[p]]
      /\ sync' = new /\ UNCHANGED <<file, edits>>
  BY DEF DeletePaths
<1>2. new \in SyncType /\ new.stage = "files" /\ new.scan = sync.scan /\ new.todo = sync.todo
  BY DEF IndexInv, IndexTypeOK, SyncType
<1> HIDE DEF new
<1>3. IndexTypeOK'
  BY <1>1, <1>2, NoFileType DEF IndexInv, IndexTypeOK, Text
<1>4. Reading'
  BY <1>1, <1>2 DEF Reading
<1>5. ASSUME NEW p \in Files PROVE FileOK(p)'
  <2>1. \/ record'[p] = record[p] /\ chunks'[p] = chunks[p]
        \/ record'[p] = NoFile /\ chunks'[p] = Absent
    BY <1>1
  <2>2. FileOK(p)
    BY DEF IndexInv
  <2>3. NoFile.time = file[p].time => Absent = file[p].text
    BY <2>2, NoFileType DEF FileOK, Version
  <2>4. Version(record'[p], edits)
    BY <1>1, <2>1, <2>2, NoFileType DEF FileOK, Version, IndexInv, IndexTypeOK
  <2> QED BY <1>1, <1>2, <2>1, <2>2, <2>3, <2>4 DEF FileOK
<1> QED BY <1>3, <1>4, <1>5 DEF IndexInv

\* What is read of a file is its text now.
LEMMA NextFileStep ==
    ASSUME IndexInv, NextFile
    PROVE  IndexInv'
<1>1. PICK p \in sync.todo :
         /\ First(p)
         /\ \/ sync' = [sync EXCEPT !.todo = Rest(p)]
            \/ /\ There(p)
               /\ sync' = [sync EXCEPT !.text = file[p].text,
                                       !.stage = IF Cached(file[p].text) THEN "storing"
                                                                            ELSE "embedding"]
            \/ sync' = NoSync
  BY DEF NextFile
<1>2. sync \in SyncType /\ sync.stage = "files" /\ p \in Files
      /\ UNCHANGED <<file, record, chunks, edits>>
  BY DEF NextFile, IndexInv, IndexTypeOK, SyncType
<1>3. CASE sync' = [sync EXCEPT !.todo = Rest(p)]
  <2> DEFINE new == [sync EXCEPT !.todo = Rest(p)]
  <2>1. /\ new \in SyncType /\ new.scan = sync.scan /\ new.todo \subseteq sync.todo
        /\ new.stage = "files"
    BY <1>2 DEF SyncType, Rest
  <2> HIDE DEF new
  <2>2. sync' = new
    BY <1>3 DEF new
  <2> QED BY <1>2, <2>1, <2>2, SyncGoesOn
<1>4. CASE There(p) /\ sync' = [sync EXCEPT !.text = file[p].text,
                                       !.stage = IF Cached(file[p].text) THEN "storing"
                                                                            ELSE "embedding"]
  <2> DEFINE stage == IF Cached(file[p].text) THEN "storing" ELSE "embedding"
             new   == [sync EXCEPT !.text = file[p].text, !.stage = stage]
  <2>1. stage \in {"embedding", "storing"}
    OBVIOUS
  <2>2. sync' = new
    BY <1>4
  <2> HIDE DEF stage
  <2>3. /\ new \in SyncType /\ new.scan = sync.scan /\ new.todo = sync.todo
        /\ new.text = file[p].text
    BY <1>2, <2>1 DEF SyncType, IndexInv, IndexTypeOK, FileType
  <2> HIDE DEF new
  <2>4. IndexTypeOK'
    BY <1>2, <2>2, <2>3 DEF IndexInv, IndexTypeOK
  <2>5. \A q \in Files : FileOK(q)'
    BY <1>2, <2>2, <2>3 DEF IndexInv, FileOK, Version
  <2>6. Reading'
    <3>1. ASSUME NEW q \in sync.todo, First(q)' PROVE q = p
      <4>1. First(q)
        BY <2>2, <2>3, <3>1 DEF First
      <4>2. PICK i \in DOMAIN Paths, j \in DOMAIN Paths : i <= j /\ Paths[i] = p /\ Paths[j] = q
        BY <1>1 DEF First
      <4>3. PICK k \in DOMAIN Paths, l \in DOMAIN Paths : k <= l /\ Paths[k] = q /\ Paths[l] = p
        BY <4>1 DEF First
      <4>4. DOMAIN Paths \subseteq Nat
        BY IndexAssumption
      <4>5. i = l /\ j = k
        BY <4>2, <4>3, IndexAssumption DEF IsInjective
      <4> QED BY <4>2, <4>3, <4>4, <4>5
    <3> QED BY <1>2, <1>4, <2>2, <2>3, <3>1 DEF Reading, There
  <2> QED BY <2>4, <2>5, <2>6 DEF IndexInv
<1>5. CASE sync' = NoSync
  BY <1>2, <1>5, SyncForgotten
<1> QED BY <1>1, <1>3, <1>4, <1>5

LEMMA EmbedStep ==
    ASSUME IndexInv, Embed
    PROVE  IndexInv'
<1> DEFINE new == [sync EXCEPT !.stage = "storing"]
<1>1. sync' = new /\ sync.stage = "embedding" /\ UNCHANGED <<file, record, chunks, edits>>
  BY DEF Embed
<1>2. /\ new \in SyncType /\ new.scan = sync.scan /\ new.todo = sync.todo
      /\ new.text = sync.text
  BY DEF IndexInv, IndexTypeOK, SyncType
<1> HIDE DEF new
<1>3. IndexTypeOK' /\ Reading'
  BY <1>1, <1>2 DEF IndexInv, IndexTypeOK, Reading, First
<1>4. \A p \in Files : FileOK(p)'
  BY <1>1, <1>2 DEF IndexInv, FileOK, Version
<1> QED BY <1>3, <1>4 DEF IndexInv

\* The row of the scan and the chunks of what was read are stored together.
LEMMA ReplaceFileStep ==
    ASSUME IndexInv, ReplaceFile
    PROVE  IndexInv'
<1>1. PICK p \in sync.todo :
         /\ First(p)
         /\ \/ /\ record' = [record EXCEPT ![p] = Row(p)]
               /\ chunks' = [chunks EXCEPT ![p] = sync.text]
               /\ sync' = [sync EXCEPT !.stage = "files", !.todo = Rest(p), !.text = Absent]
            \/ sync' = NoSync /\ UNCHANGED <<record, chunks>>
  BY DEF ReplaceFile
<1>2. sync \in SyncType /\ sync.stage = "storing" /\ p \in Files /\ UNCHANGED <<file, edits>>
  BY DEF ReplaceFile, IndexInv, IndexTypeOK, SyncType
<1>3. CASE sync' = NoSync /\ UNCHANGED <<record, chunks>>
  BY <1>2, <1>3, SyncForgotten
<1>4. CASE /\ record' = [record EXCEPT ![p] = Row(p)]
           /\ chunks' = [chunks EXCEPT ![p] = sync.text]
           /\ sync' = [sync EXCEPT !.stage = "files", !.todo = Rest(p), !.text = Absent]
  <2> DEFINE new == [sync EXCEPT !.stage = "files", !.todo = Rest(p), !.text = Absent]
  <2>1. /\ new \in SyncType /\ new.scan = sync.scan /\ new.todo \subseteq sync.todo
        /\ new.stage = "files"
    BY <1>2 DEF SyncType, Rest, Text
  <2>2. sync' = new
    BY <1>4
  <2> HIDE DEF new
  <2>3. /\ sync.scan[p] \in FileType /\ sync.text \in Text /\ sync.text # Absent
        /\ sync.scan[p] # NoFile
        /\ sync.scan[p].time = file[p].time => sync.text = file[p].text
    BY <1>1, <1>2 DEF IndexInv, IndexTypeOK, SyncType, Reading, FileOK
  <2>4. IndexTypeOK' /\ Reading'
    BY <1>2, <1>4, <2>1, <2>2, <2>3 DEF IndexInv, IndexTypeOK, Reading, Row
  <2>5. ASSUME NEW q \in Files PROVE FileOK(q)'
    <3>1. FileOK(q)
      BY DEF IndexInv
    <3>2. CASE q # p
      <4>1. record'[q] = record[q] /\ chunks'[q] = chunks[q]
        BY <1>4, <3>2 DEF IndexInv, IndexTypeOK
      <4> QED BY <1>2, <2>1, <2>2, <3>1, <4>1 DEF FileOK, Version
    <3>3. CASE q = p
      <4>1. record'[q] = sync.scan[q] /\ chunks'[q] = sync.text
        BY <1>2, <1>4, <3>3 DEF IndexInv, IndexTypeOK, Row
      <4> QED BY <1>2, <2>1, <2>2, <2>3, <3>1, <3>3, <4>1 DEF FileOK, Version
    <3> QED BY <3>2, <3>3
  <2> QED BY <2>4, <2>5 DEF IndexInv
<1> QED BY <1>1, <1>3, <1>4

LEMMA IndexInitInv == IndexInit => IndexInv
<1> SUFFICES ASSUME IndexInit PROVE IndexInv
  OBVIOUS
<1>1. IndexTypeOK
  BY NoFileType, NoSyncType DEF IndexInit, IndexTypeOK, Text
<1>2. Reading /\ \A p \in Files : FileOK(p)
  BY NoFileType, NoSyncType DEF IndexInit, Reading, FileOK, Version
<1> QED BY <1>1, <1>2 DEF IndexInv

LEMMA IndexNextInv == IndexInv /\ [IndexNext]_index => IndexInv'
<1> SUFFICES ASSUME IndexInv, [IndexNext]_index PROVE IndexInv'
  OBVIOUS
<1>1. CASE \E p \in Files, text \in Text : Edit(p, text)
  BY <1>1, FileWritten DEF Edit
<1>2. CASE \E s \in Entries \ Unstorable : Archive(s)
  BY <1>2, ArchiveStep
<1>3. CASE Schedule
  BY <1>3, SyncForgotten DEF Schedule, Scheduled
<1>4. CASE EmbedFails \/ FinishSync \/ IndexRestart
  BY <1>4, SyncForgotten DEF EmbedFails, FinishSync, IndexRestart
<1>5. CASE UNCHANGED <<file, record, chunks, sync, edits>>
  BY <1>5 DEF IndexInv, IndexTypeOK, Reading, FileOK, Version, First
<1>6. CASE Expire \/ UNCHANGED index
  BY <1>5, <1>6 DEF Expire, index
<1> QED BY <1>1, <1>2, <1>3, <1>4, <1>6, ScanStep, DeletePathsStep, NextFileStep, EmbedStep,
           ReplaceFileStep DEF IndexNext, Text

\* The inductive invariant of the index.
THEOREM IndexInvariantHolds == IndexSpec => []IndexInv
BY IndexInitInv, IndexNextInv, PTL DEF IndexSpec

\* FreshIndexIsRight: an index that is not taken for stale finds what the files have,
\* whatever changed between the scan, the reading and the storing of a sync
\* (_is_index_stale, sync, replace_file).
THEOREM FreshIndexesAreRight == IndexSpec => []FreshIndexIsRight
<1>1. IndexInv => FreshIndexIsRight
  <2> SUFFICES ASSUME IndexInv, ~Stale, NEW entry \in Entries
               PROVE  Hits(entry) = {p \in Files : There(p) /\ entry \in file[p].text}
    BY DEF FreshIndexIsRight
  <2>1. \A p \in Files : chunks[p] = file[p].text
    BY DEF Stale, IndexInv, FileOK
  <2> QED BY <2>1 DEF Hits, Rows, There
<1> QED BY <1>1, IndexInvariantHolds, PTL

-----------------------------------------------------------------------------
(* MemoryProjection: the conversation.                                     *)

ProjectionSpec == ProjectionInit /\ [][ProjectionNext]_memory

RowType   == [run : 0 .. MaxRuns, role : {"user", "assistant"}, says : Values \cup {NULL}]
RunType   == [session : Sessions \cup {NULL}, status : {"none", "queued", "running", "ended"},
              from : Nat \cup {NULL}, to : Nat \cup {NULL}]
EventType == [status : {"none", "pending", "processing", "processed", "dead_letter"},
              attempts : Nat, due : BOOLEAN, owner : Workers \cup {NULL}, at : Nat]
HandType  == [run : 0 .. MaxRuns, processor : 1 .. 3,
              stage : {"idle", "reading", "handling", "replacing", "advancing"},
              base : Nat, read : SUBSET Int]

ProjectionTypeOK ==
    /\ log \in [Sessions -> Seq(RowType)]
    /\ run \in [Runs -> RunType]
    /\ event \in [Runs -> EventType]
    /\ clock \in Nat
    /\ checkpoint \in [1 .. 3 -> [Sessions -> Nat]]
    /\ hand \in [Workers -> HandType]

\* A run that is there has messages, all of its session; its input sequence is one
\* of them, and its last sequence the last of them.  Only an ended run has an event.
RunOK(r) ==
    /\ run[r].status = "none" => \A s \in Sessions : \A n \in 1 .. Len(log[s]) : log[s][n].run # r
    /\ run[r].status # "none" =>
          /\ run[r].session \in Sessions /\ Numbers(r) # {}
          /\ run[r].from = NULL \/ run[r].from \in Numbers(r)
    /\ event[r].status # "none" => run[r].status = "ended"
    /\ run[r].status = "ended" => run[r].to \in Numbers(r) /\ \A n \in Numbers(r) : n <= run[r].to

LogOK == \A s \in Sessions : \A n \in 1 .. Len(log[s]) :
            log[s][n].run # 0 => run[log[s][n].run].session = s

\* A message below a checkpoint was seen, or was posted while a run it does not
\* belong to was writing.
Covered(p, s, n) ==
    \/ <<p, s, n>> \in seen
    \/ \E q \in Runs : run[q].session = s /\ PostedDuring(n, q) /\ log[s][n].run # q

CheckpointOK(p, s) ==
    checkpoint[p][s] <= Len(log[s]) /\ \A n \in 1 .. checkpoint[p][s] : Covered(p, s, n)

\* The processors before the worker's have passed the event, and this one starts
\* at the checkpoint or below it and leaves no gap.
HandOK(w) ==
    hand[w].stage # "idle" =>
        /\ hand[w].run \in Runs /\ event[hand[w].run].status # "none"
        /\ \A p \in 1 .. 3 : p < hand[w].processor => checkpoint[p][SessionOf(w)] >= To(w)
        /\ hand[w].stage # "reading" =>
              ~Missing(w) /\ run[hand[w].run].from <= hand[w].base + 1 /\ hand[w].base <= Position(w)
        /\ hand[w].stage = "advancing" =>
              \A n \in Batch(w) : <<hand[w].processor, SessionOf(w), n>> \in seen

PassedOK(r) ==
    event[r].status = "processed" => \A p \in 1 .. 3 : checkpoint[p][run[r].session] >= run[r].to

\* The inductive invariant.
ProjectionInv ==
    /\ ProjectionTypeOK /\ LogOK
    /\ \A r \in Runs : RunOK(r) /\ PassedOK(r)
    /\ \A p \in 1 .. 3, s \in Sessions : CheckpointOK(p, s)
    /\ \A w \in Workers : HandOK(w)

\* Messages are added and runs begin and go on; what has ended stays as it is.
Grows ==
    /\ UNCHANGED <<checkpoint, hand, seen>>
    /\ \A s \in Sessions :
          /\ Len(log'[s]) >= Len(log[s])
          /\ \A n \in 1 .. Len(log[s]) :
                log'[s][n].run # log[s][n].run =>
                    log'[s][n].run \in Runs /\ run[log'[s][n].run].status # "ended"
    /\ \A r \in Runs : run[r].status = "ended" =>
          run'[r] = run[r] /\ Numbers(r)' = Numbers(r)
    /\ \A r \in Runs : \/ event'[r] = event[r]
                       \/ event[r].status = "none" /\ event'[r].status = "pending"

\* A set of numbers up to n has a greatest and a least one.
LEMMA LeastIs ==
    ASSUME NEW S \in SUBSET Nat, S # {}
    PROVE  Min(S) \in S /\ \A y \in S : Min(S) <= y
<1>2. PICK x \in S : \A y \in S : <<y, x>> \notin OpToRel(<, Nat)
  BY WFMin, NatLessThanWellFounded, Zenon
<1>3. \A y \in S : <<y, x>> \in Nat \X Nat /\ ~(<<y, x>>[1] < <<y, x>>[2])
  BY <1>2, Zenon DEF OpToRel
<1>4. ASSUME NEW y \in S PROVE x <= y
  <2>1. <<y, x>>[1] = y /\ <<y, x>>[2] = x
    OBVIOUS
  <2>2. ~(y < x)
    BY <1>3, <2>1
  <2> QED BY <2>2
<1>5. \E y \in S : \A u \in S : y <= u
  BY <1>4
<1> QED BY <1>5 DEF Min

LEMMA GreatestIs ==
    ASSUME NEW n \in Nat, NEW S \in SUBSET (0 .. n), S # {}
    PROVE  Max(S) \in S /\ \A y \in S : y <= Max(S)
<1> DEFINE T == {n - y : y \in S}
<1>1. T \in SUBSET Nat /\ T # {}
  <2>1. \A y \in S : n - y \in Nat
    OBVIOUS
  <2>2. PICK y \in S : TRUE
    OBVIOUS
  <2> QED BY <2>1, <2>2
<1>2. PICK x \in S : Min(T) = n - x
  BY <1>1, LeastIs
<1>3. ASSUME NEW y \in S PROVE x >= y
  <2>1. n - y \in T
    OBVIOUS
  <2> HIDE DEF T
  <2>2. n - x <= n - y
    BY <1>1, <1>2, <2>1, LeastIs
  <2> QED BY <2>2
<1>4. \E z \in S : \A y \in S : z >= y
  BY <1>3
<1>5. Max(S) \in S /\ \A y \in S : Max(S) >= y
  BY <1>4 DEF Max
<1> QED BY <1>5

LEMMA GrowthKeeps ==
    ASSUME ProjectionInv, Grows, ProjectionTypeOK', LogOK', \A r \in Runs : RunOK(r)'
    PROVE  ProjectionInv'
<1>1. ASSUME NEW p \in 1 .. 3, NEW s \in Sessions PROVE CheckpointOK(p, s)'
  <2>1. CheckpointOK(p, s) /\ checkpoint'[p][s] = checkpoint[p][s] /\ checkpoint[p][s] \in Nat
    BY DEF ProjectionInv, ProjectionTypeOK, Grows
  <2>2. Len(log[s]) \in Nat /\ Len(log'[s]) \in Nat /\ Len(log[s]) <= Len(log'[s])
    BY DEF ProjectionInv, ProjectionTypeOK, Grows
  <2>3. ASSUME NEW n \in 1 .. checkpoint[p][s] PROVE Covered(p, s, n)'
    <3>1. Covered(p, s, n) /\ n \in 1 .. Len(log[s])
      BY <2>1, <2>2 DEF CheckpointOK
    <3>2. CASE <<p, s, n>> \in seen
      BY <3>2 DEF Grows, Covered
    <3>3. ASSUME NEW q \in Runs, run[q].session = s, PostedDuring(n, q), log[s][n].run # q
          PROVE  Covered(p, s, n)'
      <4>1. run[q].status = "ended" /\ run'[q] = run[q]
        BY <3>3 DEF Grows, PostedDuring
      <4>2. log'[s][n].run # q
        BY <3>1, <3>3, <4>1 DEF Grows
      <4> QED BY <3>3, <4>1, <4>2 DEF Covered, PostedDuring
    <3> QED BY <3>1, <3>2, <3>3 DEF Covered
  <2> QED BY <2>1, <2>2, <2>3 DEF CheckpointOK
<1>2. ASSUME NEW r \in Runs, event[r].status # "none"
      PROVE  run'[r] = run[r] /\ Numbers(r)' = Numbers(r) /\ event'[r] = event[r]
  BY <1>2 DEF ProjectionInv, RunOK, Grows
<1>3. ASSUME NEW r \in Runs PROVE PassedOK(r)'
  <2>1. event'[r].status = "processed" => event[r].status = "processed"
    BY DEF Grows
  <2> QED BY <1>2, <2>1 DEF ProjectionInv, PassedOK, Grows
<1>4. ASSUME NEW w \in Workers PROVE HandOK(w)'
  <2>1. HandOK(w) /\ hand' = hand /\ checkpoint' = checkpoint /\ seen' = seen
    BY DEF ProjectionInv, Grows
  <2>2. CASE hand[w].stage = "idle"
    BY <2>1, <2>2 DEF HandOK
  <2>3. CASE hand[w].stage # "idle"
    <3>1. /\ run'[hand[w].run] = run[hand[w].run]
          /\ Numbers(hand[w].run)' = Numbers(hand[w].run)
          /\ event'[hand[w].run] = event[hand[w].run]
      BY <1>2, <2>1, <2>3 DEF HandOK
    <3>2. /\ SessionOf(w)' = SessionOf(w) /\ To(w)' = To(w) /\ Missing(w)' = Missing(w)
          /\ Position(w)' = Position(w)
      BY <2>1, <3>1 DEF SessionOf, To, Missing, Position
    <3>3. Batch(w)' = Batch(w)
      BY <2>1, <3>1, <3>2 DEF Batch
    <3> QED BY <2>1, <3>1, <3>2, <3>3 DEF HandOK
  <2> QED BY <2>2, <2>3
<1> QED BY <1>1, <1>3, <1>4 DEF ProjectionInv

\* The messages of a run, as numbers of a sequence.
LEMMA NumbersAre ==
    ASSUME ProjectionTypeOK, NEW r \in Runs, run[r].session \in Sessions
    PROVE  /\ Len(log[run[r].session]) \in Nat
           /\ Numbers(r) \in SUBSET (1 .. Len(log[run[r].session]))
           /\ Numbers(r) \in SUBSET Nat
           /\ Numbers(r) # {} => /\ Min(Numbers(r)) \in Numbers(r)
                                 /\ Max(Numbers(r)) \in Numbers(r)
                                 /\ \A n \in Numbers(r) : n <= Max(Numbers(r))
<1>1. Len(log[run[r].session]) \in Nat
  BY DEF ProjectionTypeOK
<1>2. Numbers(r) \in SUBSET (1 .. Len(log[run[r].session]))
  BY DEF Numbers
<1>3. Numbers(r) \in SUBSET Nat /\ Numbers(r) \in SUBSET (0 .. Len(log[run[r].session]))
  BY <1>1, <1>2
<1> QED BY <1>1, <1>2, <1>3, LeastIs, GreatestIs

\* The message of a run that still writes, or of none, comes last.
LEMMA AddMessageStep ==
    ASSUME ProjectionInv, NEW s \in Sessions, NEW r \in {0} \cup Runs,
           NEW role \in {"user", "assistant"}, NEW says \in Values \cup {NULL},
           r # 0 => run[r].session = s /\ run[r].status = "running",
           AddMessage(s, r, role, says), UNCHANGED <<run, event, clock, checkpoint, hand, seen>>
    PROVE  ProjectionInv'
<1> DEFINE row == [run |-> r, role |-> role, says |-> says]
<1>1. row \in RowType /\ row.run = r
  BY MemoryAssumption DEF RowType, Runs
<1>2. log' = [log EXCEPT ![s] = Append(log[s], row)] /\ log \in [Sessions -> Seq(RowType)]
  BY DEF AddMessage, ProjectionInv, ProjectionTypeOK
<1> HIDE DEF row
<1>3. /\ log[s] \in Seq(RowType) /\ log'[s] = Append(log[s], row)
      /\ \A t \in Sessions : t # s => log'[t] = log[t]
  BY <1>2
<1>4. /\ Len(log[s]) \in Nat /\ Len(log'[s]) = Len(log[s]) + 1 /\ log'[s][Len(log[s]) + 1] = row
      /\ \A n \in 1 .. Len(log[s]) : log'[s][n] = log[s][n]
      /\ log'[s] \in Seq(RowType)
  BY <1>1, <1>3
<1>5. ASSUME NEW t \in Sessions, NEW n \in 1 .. Len(log'[t])
      PROVE  \/ n \in 1 .. Len(log[t]) /\ log'[t][n] = log[t][n]
             \/ t = s /\ n = Len(log[s]) + 1 /\ log'[t][n].run = r
  <2>1. CASE t = s
    <3>1. n \in 1 .. Len(log[s]) \/ n = Len(log[s]) + 1
      BY <1>4, <2>1
    <3> QED BY <1>1, <1>4, <2>1, <3>1
  <2>2. CASE t # s
    BY <1>3, <2>2
  <2> QED BY <2>1, <2>2
<1>6. ProjectionTypeOK'
  <2>1. log' \in [Sessions -> Seq(RowType)]
    BY <1>2, <1>3, <1>4
  <2> QED BY <2>1 DEF ProjectionInv, ProjectionTypeOK
<1>7. LogOK'
  <2> SUFFICES ASSUME NEW t \in Sessions, NEW n \in 1 .. Len(log'[t]), log'[t][n].run # 0
               PROVE  run'[log'[t][n].run].session = t
    BY DEF LogOK
  <2>1. CASE n \in 1 .. Len(log[t]) /\ log'[t][n] = log[t][n]
    BY <2>1 DEF ProjectionInv, LogOK
  <2>2. CASE t = s /\ log'[t][n].run = r
    BY <2>2
  <2> QED BY <1>5, <2>1, <2>2
<1>8. ASSUME NEW q \in Runs, run[q].session \in Sessions
      PROVE  /\ Numbers(q) \subseteq Numbers(q)'
             /\ q # r => Numbers(q)' = Numbers(q)
  <2>1. run'[q] = run[q]
    OBVIOUS
  <2>2. Numbers(q) \subseteq Numbers(q)'
    <3>1. ASSUME NEW t \in Sessions, NEW n \in 1 .. Len(log[t])
          PROVE  n \in 1 .. Len(log'[t]) /\ log'[t][n] = log[t][n]
      <4>1. CASE t = s
        BY <1>4, <4>1
      <4>2. CASE t # s
        BY <1>3, <4>2
      <4> QED BY <4>1, <4>2
    <3> QED BY <1>8, <2>1, <3>1 DEF Numbers
  <2>3. ASSUME q # r, NEW n \in Numbers(q)' PROVE n \in Numbers(q)
    BY <1>5, <1>8, <2>1, <2>3 DEF Numbers
  <2> QED BY <2>2, <2>3
<1>9. ASSUME NEW q \in Runs PROVE RunOK(q)'
  <2>1. RunOK(q)
    BY DEF ProjectionInv
  <2>2. CASE run[q].status = "none"
    <3>1. q # r
      BY <2>2 DEF Runs
    <3> QED BY <1>5, <2>1, <2>2, <3>1 DEF RunOK
  <2>3. CASE run[q].status # "none"
    <3>1. run'[q] = run[q] /\ event' = event /\ run[q].session \in Sessions
      BY <2>1, <2>3 DEF RunOK
    <3>2. Numbers(q) \subseteq Numbers(q)' /\ (q # r => Numbers(q)' = Numbers(q))
      BY <1>8, <3>1
    <3>3. run[q].status = "ended" => q # r
      BY DEF Runs
    <3> QED BY <2>1, <2>3, <3>1, <3>2, <3>3 DEF RunOK
  <2> QED BY <2>2, <2>3
<1>10. Grows
  <2>1. \A q \in Runs : run[q].status = "ended" => q # r /\ run[q].session \in Sessions
    BY DEF ProjectionInv, RunOK, Runs
  <2>2. \A t \in Sessions : /\ Len(log'[t]) >= Len(log[t])
                            /\ \A n \in 1 .. Len(log[t]) : log'[t][n] = log[t][n]
    BY <1>2, <1>3, <1>4
  <2> QED BY <1>8, <2>1, <2>2 DEF Grows
<1> QED BY <1>6, <1>7, <1>9, <1>10, GrowthKeeps

\* The newest message of a user, and what it becomes.
LEMMA LastUserIs ==
    ASSUME ProjectionInv, NEW r \in Runs, NEW s \in Sessions, Queue(r, s)
    PROVE  /\ LastUser(s) \in 1 .. Len(log[s]) /\ Len(log[s]) \in Nat
           /\ [log[s][LastUser(s)] EXCEPT !.run = r] \in RowType
           /\ [log[s][LastUser(s)] EXCEPT !.run = r].run = r
<1> DEFINE users == {n \in 1 .. Len(log[s]) : log[s][n].role = "user"}
<1>1. Len(log[s]) \in Nat /\ log[s] \in Seq(RowType)
  BY DEF ProjectionInv, ProjectionTypeOK
<1>2. users \in SUBSET (0 .. Len(log[s])) /\ users # {}
  BY <1>1 DEF Queue
<1>3. Max(users) \in users
  BY <1>1, <1>2, GreatestIs
<1>4. LastUser(s) \in 1 .. Len(log[s])
  BY <1>3 DEF LastUser
<1>5. log[s][LastUser(s)] \in RowType
  BY <1>1, <1>4, ElementOfSeq
<1>6. \A row \in RowType : /\ [row EXCEPT !.run = r] \in RowType
                          /\ [row EXCEPT !.run = r].run = r
  BY DEF RowType, Runs
<1> QED BY <1>1, <1>4, <1>5, <1>6

\* A run begins, and the newest message of a user becomes its own.
LEMMA QueueStep ==
    ASSUME ProjectionInv, NEW r \in Runs, NEW s \in Sessions, Queue(r, s)
    PROVE  ProjectionInv'
<1> DEFINE last == LastUser(s)
           new  == [NoRun EXCEPT !.session = s, !.status = "queued"]
           row  == [log[s][last] EXCEPT !.run = r]
<1>1. last \in 1 .. Len(log[s]) /\ Len(log[s]) \in Nat
  BY LastUserIs
<1>2. /\ run[r].status = "none" /\ log[s][last].run = 0
      /\ run' = [run EXCEPT ![r] = new]
      /\ log' = [log EXCEPT ![s] = [log[s] EXCEPT ![last] = row]]
      /\ UNCHANGED <<event, clock, checkpoint, hand, seen>>
  BY DEF Queue, projections
<1>3. /\ new \in RunType /\ new.session = s /\ new.status = "queued" /\ new.from = NULL
  BY DEF NoRun, RunType
<1>4. row \in RowType /\ row.run = r
  BY LastUserIs
<1> HIDE DEF new, last, row
<1>5. /\ log \in [Sessions -> Seq(RowType)] /\ run \in [Runs -> RunType]
      /\ log'[s] = [log[s] EXCEPT ![last] = row]
      /\ \A t \in Sessions : t # s => log'[t] = log[t]
      /\ run'[r] = new /\ \A q \in Runs : q # r => run'[q] = run[q]
  BY <1>2 DEF ProjectionInv, ProjectionTypeOK
<1>6. /\ log'[s] \in Seq(RowType) /\ Len(log'[s]) = Len(log[s]) /\ log'[s][last] = row
      /\ \A n \in 1 .. Len(log[s]) : n # last => log'[s][n] = log[s][n]
  BY <1>1, <1>4, <1>5, ExceptSeq
<1>7. ASSUME NEW t \in Sessions, NEW n \in 1 .. Len(log'[t])
      PROVE  /\ n \in 1 .. Len(log[t])
             /\ \/ log'[t][n] = log[t][n]
                \/ t = s /\ n = last /\ log'[t][n].run = r /\ log[t][n].run = 0
  BY <1>2, <1>4, <1>5, <1>6
<1>8. ProjectionTypeOK'
  BY <1>2, <1>3, <1>5, <1>6 DEF ProjectionInv, ProjectionTypeOK
<1>9. \A t \in Sessions : \A n \in 1 .. Len(log[t]) : log[t][n].run # r
  BY <1>2 DEF ProjectionInv, RunOK
<1>10. LogOK'
  <2> SUFFICES ASSUME NEW t \in Sessions, NEW n \in 1 .. Len(log'[t]), log'[t][n].run # 0
               PROVE  run'[log'[t][n].run].session = t
    BY DEF LogOK
  <2>1. CASE log'[t][n].run = r /\ t = s
    BY <1>3, <1>5, <2>1
  <2>2. CASE log'[t][n] = log[t][n] /\ n \in 1 .. Len(log[t])
    <3>1. log[t][n].run # r /\ run[log[t][n].run].session = t
      BY <1>9, <2>2 DEF ProjectionInv, LogOK
    <3>2. log[t][n].run \in Runs
      <4>1. log[t][n] \in RowType
        BY <1>5, <2>2, ElementOfSeq
      <4> QED BY <2>2, <4>1, MemoryAssumption DEF RowType, Runs
    <3> QED BY <1>5, <2>2, <3>1, <3>2
  <2> QED BY <1>7, <2>1, <2>2
<1>11. ASSUME NEW q \in Runs, q # r, run[q].session \in Sessions
       PROVE  run'[q] = run[q] /\ Numbers(q)' = Numbers(q)
  <2>1. run'[q] = run[q]
    BY <1>5, <1>11
  <2>2. Len(log'[run[q].session]) = Len(log[run[q].session])
    BY <1>5, <1>6, <1>11
  <2>3. 0 # q
    BY DEF Runs
  <2>4. \A n \in 1 .. Len(log[run[q].session]) :
           log'[run[q].session][n].run = q <=> log[run[q].session][n].run = q
    BY <1>7, <1>11, <2>2, <2>3
  <2> QED BY <2>1, <2>2, <2>4 DEF Numbers
<1>12. last \in Numbers(r)'
  BY <1>1, <1>3, <1>4, <1>5, <1>6 DEF Numbers
<1>13. ASSUME NEW q \in Runs PROVE RunOK(q)'
  <2>1. RunOK(q)
    BY DEF ProjectionInv
  <2>2. CASE q = r
    BY <1>2, <1>3, <1>5, <1>12, <2>1, <2>2 DEF RunOK
  <2>3. CASE q # r /\ run[q].status = "none"
    <3>1. run'[q] = run[q] /\ event' = event
      BY <1>2, <1>5, <2>3
    <3>2. \A t \in Sessions : \A n \in 1 .. Len(log'[t]) : log'[t][n].run # q
      BY <1>7, <2>1, <2>3 DEF RunOK
    <3> QED BY <2>1, <2>3, <3>1, <3>2 DEF RunOK
  <2>4. CASE q # r /\ run[q].status # "none"
    <3>1. run[q].session \in Sessions
      BY <2>1, <2>4 DEF RunOK
    <3>2. run'[q] = run[q] /\ event' = event /\ Numbers(q)' = Numbers(q)
      BY <1>2, <1>11, <2>4, <3>1
    <3> QED BY <2>1, <2>4, <3>2 DEF RunOK
  <2> QED BY <2>2, <2>3, <2>4
<1>14. Grows
  <2>1. \A q \in Runs : run[q].status = "ended" => q # r /\ run[q].session \in Sessions
    BY <1>2 DEF ProjectionInv, RunOK
  <2>2. \A t \in Sessions : Len(log'[t]) >= Len(log[t])
    <3>1. ASSUME NEW t \in Sessions PROVE Len(log'[t]) >= Len(log[t])
      <4>1. Len(log[t]) \in Nat
        BY <1>1
      <4>2. CASE t = s
        BY <1>6, <4>1, <4>2
      <4>3. CASE t # s
        BY <1>5, <4>1, <4>3
      <4> QED BY <4>2, <4>3
    <3> QED BY <3>1
  <2>3. \A t \in Sessions : \A n \in 1 .. Len(log[t]) :
           log'[t][n].run # log[t][n].run =>
              log'[t][n].run \in Runs /\ run[log'[t][n].run].status # "ended"
    BY <1>2, <1>4, <1>5, <1>6
  <2> QED BY <1>2, <1>11, <2>1, <2>2, <2>3 DEF Grows
<1> QED BY <1>8, <1>10, <1>13, <1>14, GrowthKeeps

\* A run that is there goes on, or ends, with its event or without one.
LEMMA RunGoesOn ==
    ASSUME ProjectionInv, NEW r \in Runs, Live(r), NEW new \in RunType,
           run' = [run EXCEPT ![r] = new], new.session = run[r].session, new.status # "none",
           new.from = NULL \/ new.from \in Numbers(r),
           new.status = "ended" => new.to \in Numbers(r) /\ \A n \in Numbers(r) : n <= new.to,
           \/ event' = event /\ clock' = clock
           \/ Publish(r) /\ new.status = "ended",
           UNCHANGED <<log, checkpoint, hand, seen>>
    PROVE  ProjectionInv'
<1>1. /\ run'[r] = new /\ \A q \in Runs : q # r => run'[q] = run[q]
      /\ run[r].status \in {"queued", "running"} /\ event[r].status = "none"
  BY DEF ProjectionInv, ProjectionTypeOK, RunOK, Live
<1>2. /\ event' \in [Runs -> EventType] /\ clock' \in Nat
      /\ \A q \in Runs : q # r => event'[q] = event[q]
      /\ event'[r].status \in {"none", "pending"} /\ (event'[r].status = "none" => event' = event)
      /\ event'[r].status = "pending" => new.status = "ended"
  <2>1. CASE event' = event /\ clock' = clock
    BY <1>1, <2>1 DEF ProjectionInv, ProjectionTypeOK
  <2>2. CASE Publish(r) /\ new.status = "ended"
    <3> DEFINE at == clock + 1
               e1 == [NoEvent EXCEPT !.status = "pending"]
               e2 == [e1 EXCEPT !.due = TRUE]
               e  == [e2 EXCEPT !.at = at]
    <3>1. event' = [event EXCEPT ![r] = e] /\ clock' = clock + 1
      BY <2>2 DEF Publish
    <3>2. e \in EventType /\ e.status = "pending"
      <4>1. at \in Nat
        BY DEF ProjectionInv, ProjectionTypeOK
      <4> HIDE DEF at
      <4>2. e1 \in EventType /\ e1.status = "pending"
        BY DEF NoEvent, EventType
      <4> HIDE DEF e1
      <4>3. e2 \in EventType /\ e2.status = "pending"
        BY <4>2 DEF EventType
      <4> HIDE DEF e2
      <4> QED BY <4>1, <4>3 DEF EventType
    <3> HIDE DEF e
    <3> QED BY <2>2, <3>1, <3>2 DEF ProjectionInv, ProjectionTypeOK
  <2> QED BY <2>1, <2>2
<1>3. ProjectionTypeOK'
  BY <1>2 DEF ProjectionInv, ProjectionTypeOK
<1>4. ASSUME NEW q \in Runs PROVE Numbers(q)' = Numbers(q)
  BY <1>1 DEF Numbers
<1>5. LogOK'
  <2> SUFFICES ASSUME NEW s \in Sessions, NEW n \in 1 .. Len(log[s]), log[s][n].run # 0
               PROVE  run'[log[s][n].run].session = s
    BY DEF LogOK
  <2>1. run[log[s][n].run].session = s
    BY DEF ProjectionInv, LogOK
  <2>2. log[s][n].run \in Runs
    <3>1. log[s] \in Seq(RowType)
      BY DEF ProjectionInv, ProjectionTypeOK
    <3>2. log[s][n] \in RowType
      BY <3>1, ElementOfSeq
    <3> QED BY <3>2, MemoryAssumption DEF RowType, Runs
  <2> QED BY <1>1, <2>1, <2>2
<1>6. ASSUME NEW q \in Runs PROVE RunOK(q)'
  <2>1. RunOK(q)
    BY DEF ProjectionInv
  <2>2. CASE q = r
    BY <1>1, <1>2, <1>4, <2>1, <2>2 DEF RunOK
  <2>3. CASE q # r
    <3>1. run'[q] = run[q] /\ event'[q] = event[q] /\ Numbers(q)' = Numbers(q)
      BY <1>1, <1>2, <1>4, <2>3
    <3> QED BY <2>1, <3>1 DEF RunOK
  <2> QED BY <2>2, <2>3
<1>7. Grows
  <2>1. \A s \in Sessions : Len(log[s]) \in Nat
    BY DEF ProjectionInv, ProjectionTypeOK
  <2> QED BY <1>1, <1>2, <1>4, <2>1 DEF Grows
<1> QED BY <1>3, <1>5, <1>6, <1>7, GrowthKeeps

LEMMA StartStep ==
    ASSUME ProjectionInv, NEW r \in Runs, Start(r)
    PROVE  ProjectionInv'
<1> DEFINE first == Min(Numbers(r))
           new   == [run[r] EXCEPT !.status = "running", !.from = first]
<1>1. /\ run[r] \in RunType /\ run[r].status = "queued" /\ run[r].session \in Sessions
      /\ Numbers(r) # {}
  BY DEF ProjectionInv, ProjectionTypeOK, RunOK, Start
<1>2. first \in Numbers(r) /\ first \in Nat
  BY <1>1, NumbersAre DEF ProjectionInv
<1>3. run' = [run EXCEPT ![r] = new]
  BY <1>1 DEF Start, ProjectionInv, ProjectionTypeOK
<1> HIDE DEF first
<1>4. /\ new \in RunType /\ new.session = run[r].session /\ new.status = "running"
      /\ new.from = first
  BY <1>1, <1>2 DEF RunType
<1> HIDE DEF new
<1> QED BY <1>1, <1>2, <1>3, <1>4, RunGoesOn DEF Start, Live, projections

LEMMA EndsStep ==
    ASSUME ProjectionInv, NEW r \in Runs, Live(r), run' = [run EXCEPT ![r] = Ended(r)],
           (event' = event /\ clock' = clock) \/ Publish(r),
           UNCHANGED <<log, checkpoint, hand, seen>>
    PROVE  ProjectionInv'
<1> DEFINE last == Max(Numbers(r))
           new  == [run[r] EXCEPT !.status = "ended", !.to = last]
<1>1. /\ run[r] \in RunType /\ run[r].session \in Sessions /\ Numbers(r) # {}
      /\ run[r].from = NULL \/ run[r].from \in Numbers(r)
  BY DEF ProjectionInv, ProjectionTypeOK, RunOK, Live
<1>2. last \in Numbers(r) /\ last \in Nat /\ \A n \in Numbers(r) : n <= last
  BY <1>1, NumbersAre DEF ProjectionInv
<1>3. run' = [run EXCEPT ![r] = new]
  BY DEF Ended
<1> HIDE DEF last
<1>4. /\ new \in RunType /\ new.session = run[r].session /\ new.status = "ended"
      /\ new.from = run[r].from /\ new.to = last
  BY <1>1, <1>2 DEF RunType
<1> HIDE DEF new
<1> QED BY <1>1, <1>2, <1>3, <1>4, RunGoesOn

\* Whatever is posted, begun, written and ended.
LEMMA ConversationStep ==
    ASSUME ProjectionInv,
           \/ \E s \in Chats, v \in Values : Post(s, v)
           \/ \E s \in Children : Post(s, NULL)
           \/ \E r \in Runs, s \in Sessions : Queue(r, s)
           \/ \E r \in Runs : Start(r) \/ Write(r) \/ Finish(r) \/ FailEarly(r) \/ Reconcile(r)
    PROVE  ProjectionInv'
<1>1. ASSUME NEW s \in Sessions, NEW v \in Values \cup {NULL}, Post(s, v) PROVE ProjectionInv'
  BY <1>1, AddMessageStep DEF Post, projections
<1>2. ASSUME NEW r \in Runs, Write(r) PROVE ProjectionInv'
  <2>1. run[r].session \in Sessions /\ run[r].status = "running"
    BY <1>2 DEF Write, ProjectionInv, RunOK
  <2> QED BY <1>2, <2>1, AddMessageStep DEF Write, projections
<1>3. ASSUME NEW r \in Runs, Finish(r) \/ FailEarly(r) \/ Reconcile(r) PROVE ProjectionInv'
  BY <1>3, EndsStep DEF Finish, FailEarly, Reconcile, projections, Live
<1> QED BY <1>1, <1>2, <1>3, QueueStep, StartStep DEF Sessions

-----------------------------------------------------------------------------
(* MemoryProjection: the worker.                                           *)

LEMMA HandTypes ==
    ASSUME ProjectionInv, NEW w \in Workers, hand[w].stage # "idle"
    PROVE  /\ hand[w] \in HandType /\ hand[w].run \in Runs
           /\ run[hand[w].run].status = "ended" /\ SessionOf(w) \in Sessions
           /\ To(w) \in Numbers(hand[w].run) /\ To(w) \in Nat
           /\ \A n \in Numbers(hand[w].run) : n \in Nat /\ n <= To(w) /\ n <= Len(log[SessionOf(w)])
           /\ \A n \in Numbers(hand[w].run) : log[SessionOf(w)][n].run = hand[w].run
           /\ Missing(w) \/ run[hand[w].run].from \in Numbers(hand[w].run)
           /\ Position(w) \in Nat /\ Position(w) <= Len(log[SessionOf(w)])
<1>1. hand[w] \in HandType /\ hand[w].run \in Runs /\ event[hand[w].run].status # "none"
  BY DEF ProjectionInv, ProjectionTypeOK, HandOK
<1>2. RunOK(hand[w].run)
  BY <1>1 DEF ProjectionInv
<1>3. run[hand[w].run].status = "ended" /\ run[hand[w].run].session \in Sessions
  BY <1>1, <1>2 DEF RunOK
<1>4. Numbers(hand[w].run) \in SUBSET Nat
  BY <1>1, <1>3, NumbersAre DEF ProjectionInv
<1>5. CheckpointOK(hand[w].processor, SessionOf(w))
  BY <1>1, <1>3 DEF ProjectionInv, HandType, SessionOf
<1>6. Position(w) \in Nat
  BY <1>1, <1>3 DEF ProjectionInv, ProjectionTypeOK, HandType, SessionOf, Position
<1>7. \A n \in Numbers(hand[w].run) : /\ n <= Len(log[SessionOf(w)])
                                      /\ log[SessionOf(w)][n].run = hand[w].run
  <2>1. SessionOf(w) = run[hand[w].run].session /\ Len(log[SessionOf(w)]) \in Nat
    BY <1>1, <1>3, NumbersAre DEF SessionOf, ProjectionInv
  <2> QED BY <2>1 DEF Numbers
<1> QED BY <1>1, <1>2, <1>3, <1>4, <1>5, <1>6, <1>7 DEF RunOK, SessionOf, To, Missing, Position, CheckpointOK

\* What a worker, or a retry, may do: events that were published stay so, nothing
\* that was seen is forgotten, and a checkpoint that moves on leaves no gap.
Works ==
    /\ UNCHANGED <<log, run, clock>>
    /\ event' \in [Runs -> EventType]
    /\ \A r \in Runs : event'[r].status = "none" <=> event[r].status = "none"
    /\ checkpoint' \in [1 .. 3 -> [Sessions -> Nat]]
    /\ \A p \in 1 .. 3, s \in Sessions : checkpoint[p][s] <= checkpoint'[p][s]
    /\ seen \subseteq seen'

LEMMA WorkKeeps ==
    ASSUME ProjectionInv, Works, NEW w \in Workers, NEW h \in HandType,
           hand' = [hand EXCEPT ![w] = h],
           HandOK(w)',
           \A p \in 1 .. 3, s \in Sessions :
               checkpoint'[p][s] = checkpoint[p][s] \/ CheckpointOK(p, s)',
           \A r \in Runs : event'[r].status = "processed" =>
               \/ event[r].status = "processed"
               \/ \A p \in 1 .. 3 : checkpoint'[p][run[r].session] >= run[r].to
    PROVE  ProjectionInv'
<1>1. \A r \in Runs : Numbers(r)' = Numbers(r)
  BY DEF Numbers, Works
<1>2. ProjectionTypeOK' /\ LogOK'
  BY DEF ProjectionInv, ProjectionTypeOK, LogOK, Works
<1>3. ASSUME NEW r \in Runs PROVE RunOK(r)'
  BY <1>1 DEF ProjectionInv, RunOK, Works
<1>4. ASSUME NEW r \in Runs PROVE PassedOK(r)'
  <2> SUFFICES ASSUME event'[r].status = "processed", NEW p \in 1 .. 3
               PROVE  checkpoint'[p][run[r].session] >= run[r].to
    BY DEF PassedOK, Works
  <2>1. CASE event[r].status = "processed"
    <3>1. checkpoint[p][run[r].session] >= run[r].to
      BY <2>1 DEF ProjectionInv, PassedOK
    <3>2. run[r].session \in Sessions /\ run[r].to \in Nat
      <4>1. RunOK(r) /\ event[r].status # "none"
        BY <2>1 DEF ProjectionInv
      <4>2. run[r].session \in Sessions /\ run[r].to \in Numbers(r)
        BY <4>1 DEF RunOK
      <4> QED BY <4>2, NumbersAre DEF ProjectionInv
    <3>3. checkpoint[p][run[r].session] <= checkpoint'[p][run[r].session]
      BY <3>2 DEF Works
    <3>4. checkpoint[p][run[r].session] \in Nat /\ checkpoint'[p][run[r].session] \in Nat
      BY <3>2 DEF Works, ProjectionInv, ProjectionTypeOK
    <3> QED BY <3>1, <3>2, <3>3, <3>4
  <2>2. CASE event[r].status # "processed"
    BY <2>2
  <2> QED BY <2>1, <2>2
<1>5. ASSUME NEW p \in 1 .. 3, NEW s \in Sessions PROVE CheckpointOK(p, s)'
  <2>1. CASE checkpoint'[p][s] = checkpoint[p][s]
    <3>1. CheckpointOK(p, s)
      BY DEF ProjectionInv
    <3>2. \A n : Covered(p, s, n) => Covered(p, s, n)'
      BY DEF Covered, PostedDuring, Works
    <3> QED BY <2>1, <3>1, <3>2 DEF CheckpointOK, Works
  <2> QED BY <2>1
<1>6. ASSUME NEW u \in Workers PROVE HandOK(u)'
  <2>1. CASE u # w
    <3>1. hand'[u] = hand[u] /\ HandOK(u)
      BY <2>1 DEF ProjectionInv, ProjectionTypeOK
    <3>2. CASE hand[u].stage = "idle"
      BY <3>1, <3>2 DEF HandOK
    <3>3. CASE hand[u].stage # "idle"
      <4>1. /\ hand[u] \in HandType /\ hand[u].run \in Runs /\ SessionOf(u) \in Sessions
            /\ To(u) \in Nat /\ Position(u) \in Nat
        BY <3>3, HandTypes
      <4>2. /\ SessionOf(u)' = SessionOf(u) /\ To(u)' = To(u) /\ Missing(u)' = Missing(u)
            /\ Batch(u)' = Batch(u)
        BY <1>1, <3>1, <4>1 DEF SessionOf, To, Missing, Batch, Works
      <4>3. /\ Position(u)' \in Nat /\ Position(u) <= Position(u)'
        BY <3>1, <4>1, <4>2 DEF Position, HandType, Works
      <4>4. ASSUME NEW p \in 1 .. 3, p < hand[u].processor
            PROVE  checkpoint'[p][SessionOf(u)] >= To(u)
        <5>1. checkpoint[p][SessionOf(u)] >= To(u)
          BY <3>1, <3>3, <4>4 DEF HandOK
        <5>2. checkpoint[p][SessionOf(u)] <= checkpoint'[p][SessionOf(u)]
          BY <4>1 DEF Works
        <5>3. checkpoint[p][SessionOf(u)] \in Nat /\ checkpoint'[p][SessionOf(u)] \in Nat
          BY <4>1 DEF Works, ProjectionInv, ProjectionTypeOK
        <5> QED BY <4>1, <5>1, <5>2, <5>3
      <4>5. event'[hand[u].run].status # "none"
        BY <3>1, <3>3, <4>1 DEF HandOK, Works
      <4>6. hand[u].stage # "reading" =>
               /\ ~Missing(u) /\ run'[hand[u].run].from <= hand[u].base + 1
               /\ hand[u].base <= Position(u)'
        BY <3>1, <3>3, <4>1, <4>3 DEF HandOK, HandType, Works
      <4>7. hand[u].stage = "advancing" =>
               \A n \in Batch(u) : <<hand[u].processor, SessionOf(u), n>> \in seen'
        BY <3>1, <3>3 DEF HandOK, Works
      <4> QED BY <3>1, <4>1, <4>2, <4>4, <4>5, <4>6, <4>7 DEF HandOK
    <3> QED BY <3>2, <3>3
  <2> QED BY <2>1
<1> QED BY <1>2, <1>3, <1>4, <1>5, <1>6 DEF ProjectionInv

\* An event is written that was published before.
LEMMA EventWritten ==
    ASSUME ProjectionInv, NEW r \in Runs, event[r].status # "none", NEW e \in EventType,
           e.status # "none", event' = [event EXCEPT ![r] = e],
           UNCHANGED <<log, run, clock, checkpoint, seen>>
    PROVE  Works /\ \A q \in Runs : q # r => event'[q] = event[q]
<1>1. /\ event' \in [Runs -> EventType] /\ event'[r] = e
      /\ \A q \in Runs : q # r => event'[q] = event[q]
  BY DEF ProjectionInv, ProjectionTypeOK
<1>2. \A p \in 1 .. 3, s \in Sessions : checkpoint[p][s] <= checkpoint[p][s]
  BY DEF ProjectionInv, ProjectionTypeOK
<1>3. checkpoint \in [1 .. 3 -> [Sessions -> Nat]]
  BY DEF ProjectionInv, ProjectionTypeOK
<1> QED BY <1>1, <1>2, <1>3 DEF Works

LEMMA IdleType == Idle \in HandType /\ Idle.stage = "idle"
BY MemoryAssumption DEF Idle, HandType, Runs

\* A worker lets go of its event.
LEMMA LetsGo ==
    ASSUME ProjectionInv, NEW w \in Workers, hand[w].stage # "idle", NEW e \in EventType,
           e.status \notin {"none", "processed"}, event' = [event EXCEPT ![hand[w].run] = e],
           hand' = [hand EXCEPT ![w] = Idle],
           UNCHANGED <<log, run, clock, checkpoint, seen>>
    PROVE  ProjectionInv'
<1>1. hand[w].run \in Runs /\ event[hand[w].run].status # "none"
  BY HandTypes DEF ProjectionInv, HandOK
<1>2. Works /\ \A q \in Runs : q # hand[w].run => event'[q] = event[q]
  BY <1>1, EventWritten
<1>3. event'[hand[w].run] = e
  BY <1>1 DEF ProjectionInv, ProjectionTypeOK
<1>4. hand'[w] = Idle
  BY DEF ProjectionInv, ProjectionTypeOK
<1>5. HandOK(w)'
  BY <1>4, IdleType DEF HandOK
<1>6. \A q \in Runs : event'[q].status = "processed" => event[q].status = "processed"
  BY <1>2, <1>3
<1> QED BY <1>2, <1>5, <1>6, IdleType, WorkKeeps

LEMMA ClaimStep ==
    ASSUME ProjectionInv, NEW w \in Workers, NEW r \in Runs, Claim(w, r)
    PROVE  ProjectionInv'
<1> DEFINE attempts == event[r].attempts + 1
           e1 == [event[r] EXCEPT !.status = "processing", !.owner = w, !.due = FALSE]
           e  == [e1 EXCEPT !.attempts = attempts]
           h1 == [Idle EXCEPT !.run = r]
           h  == [h1 EXCEPT !.stage = "reading"]
<1>1. /\ event[r] \in EventType /\ event[r].status = "pending" /\ attempts \in Nat
      /\ UNCHANGED <<log, run, clock, checkpoint, seen>>
  BY DEF ProjectionInv, ProjectionTypeOK, EventType, Claim, conversation, projections
<1>2. event' = [event EXCEPT ![r] = e] /\ hand' = [hand EXCEPT ![w] = h]
  BY <1>1 DEF Claim, EventType
<1> HIDE DEF attempts
<1>3. e1 \in EventType /\ e1.status = "processing"
  BY <1>1 DEF EventType
<1> HIDE DEF e1
<1>4. e \in EventType /\ e.status = "processing"
  BY <1>1, <1>3 DEF EventType
<1>5. h \in HandType /\ h.run = r /\ h.stage = "reading" /\ h.processor = 1
  <2>1. h1 \in HandType /\ h1.run = r /\ h1.processor = 1
    BY DEF Idle, HandType, Runs
  <2> HIDE DEF h1
  <2> QED BY <2>1 DEF HandType
<1> HIDE DEF e, h
<1>6. Works /\ \A q \in Runs : q # r => event'[q] = event[q]
  BY <1>1, <1>2, <1>4, EventWritten
<1>7. event'[r] = e /\ hand'[w] = h
  BY <1>2 DEF ProjectionInv, ProjectionTypeOK
<1>8. HandOK(w)'
  <2>1. \A p \in 1 .. 3 : ~(p < 1)
    OBVIOUS
  <2> QED BY <1>4, <1>5, <1>7, <2>1 DEF HandOK
<1>9. \A q \in Runs : event'[q].status = "processed" => event[q].status = "processed"
  BY <1>4, <1>6, <1>7
<1> QED BY <1>1, <1>2, <1>5, <1>6, <1>8, <1>9, WorkKeeps

\* No worker is concerned.
LEMMA RetryDueStep ==
    ASSUME ProjectionInv, NEW r \in Runs, RetryDue(r)
    PROVE  ProjectionInv'
<1> DEFINE e == [event[r] EXCEPT !.due = TRUE]
<1>1. /\ e \in EventType /\ e.status = "pending"
      /\ event' = [event EXCEPT ![r] = e] /\ event \in [Runs -> EventType]
  BY DEF ProjectionInv, ProjectionTypeOK, EventType, RetryDue
<1> HIDE DEF e
<1>2. /\ event' \in [Runs -> EventType]
      /\ \A q \in Runs : event'[q].status = event[q].status
  BY <1>1 DEF RetryDue
<1>3. UNCHANGED <<log, run, clock, checkpoint, hand, seen>>
  BY DEF RetryDue, conversation, projections
<1>4. ProjectionTypeOK' /\ LogOK'
  BY <1>2, <1>3 DEF ProjectionInv, ProjectionTypeOK, LogOK
<1>5. \A q \in Runs : Numbers(q)' = Numbers(q)
  BY <1>3 DEF Numbers
<1>6. \A q \in Runs : RunOK(q)' /\ PassedOK(q)'
  BY <1>2, <1>3, <1>5 DEF ProjectionInv, RunOK, PassedOK
<1>7. \A p \in 1 .. 3, s \in Sessions : CheckpointOK(p, s)'
  BY <1>3 DEF ProjectionInv, CheckpointOK, Covered, PostedDuring
<1>8. ASSUME NEW w \in Workers PROVE HandOK(w)'
  <2>1. HandOK(w)
    BY DEF ProjectionInv
  <2>2. hand[w].run \in Runs => Batch(w)' = Batch(w)
    BY <1>3, <1>5 DEF Batch, To
  <2>3. /\ SessionOf(w)' = SessionOf(w) /\ To(w)' = To(w) /\ Missing(w)' = Missing(w)
        /\ Position(w)' = Position(w)
    BY <1>3 DEF SessionOf, To, Missing, Position
  <2> QED BY <1>2, <1>3, <2>1, <2>2, <2>3 DEF HandOK
<1> QED BY <1>4, <1>6, <1>7, <1>8 DEF ProjectionInv

\* A processor raised, or the database did.
LEMMA GiveBackStep ==
    ASSUME ProjectionInv, NEW w \in Workers, hand[w].stage # "idle", GiveBack(w),
           UNCHANGED <<log, run, clock, checkpoint, seen>>
    PROVE  ProjectionInv'
<1> DEFINE r      == hand[w].run
           status == IF event[r].attempts >= MaxAttempts THEN "dead_letter" ELSE "pending"
           e      == [event[r] EXCEPT !.owner = NULL, !.status = status]
<1>1. event' = [event EXCEPT ![r] = e] /\ hand' = [hand EXCEPT ![w] = Idle]
  BY DEF GiveBack, Failed
<1>2. event[r] \in EventType /\ status \in {"dead_letter", "pending"}
  BY HandTypes DEF ProjectionInv, ProjectionTypeOK
<1> HIDE DEF status
<1>3. e \in EventType /\ e.status = status
  BY <1>2 DEF EventType
<1> HIDE DEF e
<1> QED BY <1>1, <1>2, <1>3, LetsGo

LEMMA CrashStep ==
    ASSUME ProjectionInv, NEW w \in Workers, Crash(w)
    PROVE  ProjectionInv'
<1> DEFINE r == hand[w].run
           e == [event[r] EXCEPT !.status = "pending", !.owner = NULL, !.due = TRUE]
<1>1. /\ event' = [event EXCEPT ![r] = e] /\ hand' = [hand EXCEPT ![w] = Idle]
      /\ hand[w].stage # "idle" /\ UNCHANGED <<log, run, clock, checkpoint, seen>>
  BY DEF Crash, conversation, projections
<1>2. event[r] \in EventType
  BY <1>1, HandTypes DEF ProjectionInv, ProjectionTypeOK
<1>3. e \in EventType /\ e.status = "pending"
  BY <1>2 DEF EventType
<1> HIDE DEF e
<1> QED BY <1>1, <1>3, LetsGo

\* The worker goes on to the next processor once the checkpoint of this one has
\* come to the end of the event.
LEMMA ProceedStep ==
    ASSUME ProjectionInv, NEW w \in Workers, hand[w].stage # "idle", Proceed(w),
           UNCHANGED <<log, run, clock>>, seen \subseteq seen',
           checkpoint' \in [1 .. 3 -> [Sessions -> Nat]],
           \A p \in 1 .. 3, s \in Sessions : checkpoint[p][s] <= checkpoint'[p][s],
           \A p \in 1 .. 3, s \in Sessions :
               checkpoint'[p][s] = checkpoint[p][s] \/ CheckpointOK(p, s)',
           checkpoint'[hand[w].processor][SessionOf(w)] >= To(w)
    PROVE  ProjectionInv'
<1> DEFINE r == hand[w].run
<1>1. /\ hand[w] \in HandType /\ r \in Runs /\ SessionOf(w) \in Sessions /\ To(w) \in Nat
      /\ event[r] \in EventType /\ event[r].status # "none" /\ HandOK(w)
      /\ hand[w].processor \in 1 .. 3
  BY HandTypes DEF ProjectionInv, ProjectionTypeOK, HandType, HandOK
<1>2. ASSUME NEW p \in 1 .. 3, p <= hand[w].processor
      PROVE  checkpoint'[p][SessionOf(w)] >= To(w)
  <2>1. CASE p = hand[w].processor
    BY <2>1
  <2>2. CASE p # hand[w].processor
    <3>1. p < hand[w].processor
      BY <1>1, <1>2, <2>2
    <3>2. checkpoint[p][SessionOf(w)] >= To(w)
      BY <1>1, <3>1 DEF HandOK
    <3>3. checkpoint[p][SessionOf(w)] <= checkpoint'[p][SessionOf(w)]
      BY <1>1
    <3>4. checkpoint[p][SessionOf(w)] \in Nat /\ checkpoint'[p][SessionOf(w)] \in Nat
      BY <1>1 DEF ProjectionInv, ProjectionTypeOK
    <3> QED BY <1>1, <3>2, <3>3, <3>4
  <2> QED BY <2>1, <2>2
<1>3. CASE hand[w].processor < 3
  <2> DEFINE next == hand[w].processor + 1
             h1   == [hand[w] EXCEPT !.processor = next]
             h    == [h1 EXCEPT !.stage = "reading", !.read = {}]
  <2>1. event' = event /\ hand' = [hand EXCEPT ![w] = h]
    BY <1>1, <1>3 DEF Proceed, HandType
  <2>2. next \in 1 .. 3 /\ \A p \in 1 .. 3 : p < next => p <= hand[w].processor
    BY <1>1, <1>3
  <2> HIDE DEF next
  <2>3. h1 \in HandType /\ h1.processor = next /\ h1.run = r
    BY <1>1, <2>2 DEF HandType
  <2> HIDE DEF h1
  <2>4. h \in HandType /\ h.processor = next /\ h.run = r /\ h.stage = "reading"
    BY <2>3 DEF HandType
  <2> HIDE DEF h
  <2>5. Works
    BY <2>1 DEF Works, ProjectionInv, ProjectionTypeOK
  <2>6. hand'[w] = h
    BY <2>1 DEF ProjectionInv, ProjectionTypeOK
  <2>7. SessionOf(w)' = SessionOf(w) /\ To(w)' = To(w)
    BY <2>4, <2>6 DEF SessionOf, To
  <2>8. HandOK(w)'
    BY <1>1, <1>2, <2>1, <2>2, <2>4, <2>6, <2>7 DEF HandOK
  <2>9. \A q \in Runs : event'[q].status = "processed" => event[q].status = "processed"
    BY <2>1
  <2> QED BY <2>1, <2>4, <2>5, <2>8, <2>9, WorkKeeps
<1>4. CASE ~(hand[w].processor < 3)
  <2> DEFINE e == [event[r] EXCEPT !.status = "processed", !.owner = NULL]
  <2>1. event' = [event EXCEPT ![r] = e] /\ hand' = [hand EXCEPT ![w] = Idle]
    BY <1>4 DEF Proceed
  <2>2. e \in EventType /\ e.status = "processed"
    BY <1>1 DEF EventType
  <2> HIDE DEF e
  <2>3. /\ event' \in [Runs -> EventType] /\ event'[r] = e
        /\ \A q \in Runs : q # r => event'[q] = event[q]
    BY <1>1, <2>1, <2>2 DEF ProjectionInv, ProjectionTypeOK
  <2>4. Works
    BY <1>1, <2>2, <2>3 DEF Works
  <2>5. hand'[w] = Idle
    BY <2>1 DEF ProjectionInv, ProjectionTypeOK
  <2>6. HandOK(w)'
    BY <2>5, IdleType DEF HandOK
  <2>7. \A p \in 1 .. 3 : p <= hand[w].processor
    BY <1>1, <1>4
  <2>8. \A p \in 1 .. 3 : checkpoint'[p][run[r].session] >= run[r].to
    BY <1>2, <2>7 DEF SessionOf, To
  <2>9. \A q \in Runs : event'[q].status = "processed" =>
               \/ event[q].status = "processed"
               \/ \A p \in 1 .. 3 : checkpoint'[p][run[q].session] >= run[q].to
    BY <2>3, <2>8
  <2> QED BY <2>1, <2>4, <2>6, <2>9, IdleType, WorkKeeps
<1> QED BY <1>3, <1>4

\* The worker goes on with the same processor.
LEMMA StageStep ==
    ASSUME ProjectionInv, NEW w \in Workers, hand[w].stage # "idle", NEW h \in HandType,
           hand' = [hand EXCEPT ![w] = h], h.run = hand[w].run, h.processor = hand[w].processor,
           h.stage # "idle",
           h.stage # "reading" =>
               ~Missing(w) /\ run[hand[w].run].from <= h.base + 1 /\ h.base <= Position(w),
           h.stage = "advancing" => h.base = hand[w].base /\
               \A n \in Batch(w) : <<hand[w].processor, SessionOf(w), n>> \in seen',
           seen \subseteq seen', UNCHANGED <<log, run, clock, event, checkpoint>>
    PROVE  ProjectionInv'
<1>1. hand'[w] = h
  BY DEF ProjectionInv, ProjectionTypeOK
<1>2. /\ SessionOf(w)' = SessionOf(w) /\ To(w)' = To(w) /\ Missing(w)' = Missing(w)
      /\ Position(w)' = Position(w)
  BY <1>1 DEF SessionOf, To, Missing, Position
<1>3. h.base = hand[w].base => Batch(w)' = Batch(w)
  <2>1. Numbers(h.run)' = Numbers(h.run)
    BY DEF Numbers
  <2>2. hand'[w].run = hand[w].run /\ hand'[w].base = h.base
    BY <1>1
  <2> QED BY <1>2, <2>1, <2>2 DEF Batch
<1>4. HandOK(w)
  BY DEF ProjectionInv
<1>5. HandOK(w)'
  BY <1>1, <1>2, <1>3, <1>4 DEF HandOK
<1>6. Works
  BY DEF Works, ProjectionInv, ProjectionTypeOK
<1> QED BY <1>5, <1>6, WorkKeeps

LEMMA ReadStep ==
    ASSUME ProjectionInv, NEW w \in Workers, Read(w)
    PROVE  ProjectionInv'
<1>1. hand[w].stage = "reading" /\ UNCHANGED <<log, run, clock, checkpoint, seen>>
  BY DEF Read, conversation, projections
<1>2. CASE GiveBack(w)
  BY <1>1, <1>2, GiveBackStep
<1>3. CASE To(w) <= Position(w) /\ Proceed(w)
  <2>1. /\ checkpoint \in [1 .. 3 -> [Sessions -> Nat]]
        /\ \A p \in 1 .. 3, s \in Sessions : checkpoint[p][s] <= checkpoint[p][s]
    BY DEF ProjectionInv, ProjectionTypeOK
  <2>2. To(w) \in Nat /\ Position(w) \in Nat
    BY <1>1, HandTypes
  <2>3. checkpoint'[hand[w].processor][SessionOf(w)] >= To(w)
    BY <1>1, <1>3, <2>2 DEF Position
  <2> QED BY <1>1, <1>3, <2>1, <2>3, ProceedStep
<1>4. CASE /\ ~Missing(w) /\ To(w) > Position(w) /\ ~Ahead(w)
           /\ hand' = [hand EXCEPT ![w] = [@ EXCEPT !.stage = "handling", !.base = Position(w)]]
           /\ UNCHANGED event
  <2> DEFINE at == Position(w)
             h  == [hand[w] EXCEPT !.stage = "handling", !.base = at]
  <2>1. /\ hand[w] \in HandType /\ at \in Nat /\ run[hand[w].run].from \in Numbers(hand[w].run)
        /\ run[hand[w].run].from \in Nat
    BY <1>1, <1>4, HandTypes
  <2>2. run[hand[w].run].from <= at + 1 /\ at <= at
    BY <1>4, <2>1 DEF Ahead
  <2>3. hand' = [hand EXCEPT ![w] = h] /\ at = Position(w)
    BY <1>4
  <2> HIDE DEF at
  <2>4. /\ h \in HandType /\ h.run = hand[w].run /\ h.processor = hand[w].processor
        /\ h.stage = "handling" /\ h.base = at
    BY <2>1 DEF HandType
  <2> HIDE DEF h
  <2> QED BY <1>1, <1>4, <2>2, <2>3, <2>4, StageStep
<1> QED BY <1>2, <1>3, <1>4 DEF Read

\* A handler has done its work.
LEMMA HandledStep ==
    ASSUME ProjectionInv, NEW w \in Workers, hand[w].stage \in {"handling", "replacing"},
           Saw(w), Handled(w), UNCHANGED <<log, run, clock, event, checkpoint>>
    PROVE  ProjectionInv'
<1> DEFINE h == [hand[w] EXCEPT !.stage = "advancing"]
<1>1. hand[w] \in HandType /\ HandOK(w)
  BY HandTypes DEF ProjectionInv
<1>2. hand' = [hand EXCEPT ![w] = h]
  BY DEF Handled
<1>3. /\ h \in HandType /\ h.run = hand[w].run /\ h.processor = hand[w].processor
      /\ h.stage = "advancing" /\ h.base = hand[w].base
  BY <1>1 DEF HandType
<1> HIDE DEF h
<1>4. /\ seen \subseteq seen'
      /\ \A n \in Batch(w) : <<hand[w].processor, SessionOf(w), n>> \in seen'
  BY DEF Saw
<1>5. ~Missing(w) /\ run[hand[w].run].from <= hand[w].base + 1 /\ hand[w].base <= Position(w)
  BY <1>1 DEF HandOK
<1> QED BY <1>2, <1>3, <1>4, <1>5, StageStep

LEMMA ReadCoreStep ==
    ASSUME ProjectionInv, NEW w \in Workers, ReadCore(w)
    PROVE  ProjectionInv'
<1> DEFINE facts == CoreFacts
           h     == [hand[w] EXCEPT !.stage = "replacing", !.read = facts]
<1>1. /\ hand[w] \in HandType /\ HandOK(w) /\ hand[w].stage = "handling"
      /\ UNCHANGED <<log, run, clock, event, checkpoint, seen>>
  BY HandTypes DEF ProjectionInv, ReadCore, Handling, conversation, projections
<1>2. hand' = [hand EXCEPT ![w] = h]
  BY DEF ReadCore
<1>3. facts \subseteq Int
  BY DEF CoreFacts, Active, Facts
<1> HIDE DEF facts
<1>4. /\ h \in HandType /\ h.run = hand[w].run /\ h.processor = hand[w].processor
      /\ h.stage = "replacing" /\ h.base = hand[w].base
  BY <1>1, <1>3 DEF HandType
<1> HIDE DEF h
<1>5. ~Missing(w) /\ run[hand[w].run].from <= hand[w].base + 1 /\ hand[w].base <= Position(w)
  BY <1>1 DEF HandOK
<1> QED BY <1>1, <1>2, <1>4, <1>5, StageStep

\* A checkpoint moves on over what the worker saw, over what other workers have
\* covered, and over what was posted while the run of the event was writing.
LEMMA AdvanceCovers ==
    ASSUME ProjectionInv, NEW w \in Workers, Advance(w), NEW p \in 1 .. 3, NEW s \in Sessions,
           p = hand[w].processor, s = SessionOf(w)
    PROVE  ProjectionInv'
<1> DEFINE r    == hand[w].run
           here == Position(w)
           up   == Advanced(w)
<1>1. /\ hand[w].stage = "advancing" /\ Proceed(w) /\ UNCHANGED <<log, run, clock, seen>>
      /\ checkpoint' = [checkpoint EXCEPT ![p] = [checkpoint[p] EXCEPT ![s] = up]]
  BY DEF Advance, conversation
<1>2. /\ hand[w] \in HandType /\ p \in 1 .. 3 /\ s \in Sessions /\ r \in Runs /\ HandOK(w)
      /\ here \in Nat /\ To(w) \in Nat /\ hand[w].base \in Nat
  BY <1>1, HandTypes DEF ProjectionInv, HandType
<1>3. up \in {here, To(w)} /\ here <= up /\ To(w) <= up /\ up \in Nat
  <2>1. {here, To(w)} \in SUBSET (0 .. here + To(w)) /\ here + To(w) \in Nat
    BY <1>2
  <2> QED BY <1>2, <2>1, GreatestIs DEF Advanced
<1>4. /\ checkpoint' \in [1 .. 3 -> [Sessions -> Nat]]
      /\ checkpoint'[p][s] = up
      /\ \A x \in 1 .. 3, y \in Sessions : x # p \/ y # s => checkpoint'[x][y] = checkpoint[x][y]
  <2>1. checkpoint \in [1 .. 3 -> [Sessions -> Nat]]
    BY DEF ProjectionInv, ProjectionTypeOK
  <2> HIDE DEF up
  <2> QED BY <1>1, <1>2, <1>3, <2>1
<1>5. here = checkpoint[p][s]
  BY DEF Position
<1>6. \A x \in 1 .. 3, y \in Sessions : checkpoint[x][y] <= checkpoint'[x][y]
  <2>1. \A x \in 1 .. 3, y \in Sessions : checkpoint[x][y] \in Nat
    BY DEF ProjectionInv, ProjectionTypeOK
  <2> HIDE DEF up, here
  <2> QED BY <1>3, <1>4, <1>5, <2>1
<1>7. CheckpointOK(p, s)'
  <2>1. up <= Len(log[s])
    BY <1>1, <1>2, <1>3, HandTypes
  <2>2. ASSUME NEW n \in 1 .. up PROVE Covered(p, s, n)'
    <3>1. CASE n <= here
      <4>1. Covered(p, s, n)
        BY <1>2, <1>5, <3>1 DEF ProjectionInv, CheckpointOK
      <4> QED BY <1>1, <4>1 DEF Covered, PostedDuring
    <3>2. CASE ~(n <= here)
      <4>1. n <= To(w) /\ hand[w].base < n
        BY <1>1, <1>2, <1>3, <3>2 DEF HandOK
      <4>2. CASE log[s][n].run = r
        <5>1. n \in 1 .. Len(log[s]) /\ s = run[r].session
          BY <1>2, <1>3, <2>1, NumbersAre DEF SessionOf, ProjectionInv, ProjectionTypeOK
        <5>2. n \in Batch(w)
          BY <4>1, <4>2, <5>1 DEF Batch, Numbers
        <5> QED BY <1>1, <1>2, <5>2 DEF HandOK, Covered
      <4>3. CASE log[s][n].run # r
        <5>1. /\ run[r].status = "ended" /\ run[r].from \in Numbers(r) /\ ~Missing(w)
              /\ To(w) \in Numbers(r) /\ run[r].from \in Nat
              /\ \A m \in Numbers(r) : log[s][m].run = r
          BY <1>1, <1>2, HandTypes DEF HandOK
        <5>2. run[r].from # n /\ To(w) # n
          BY <4>3, <5>1
        <5>3. run[r].from <= hand[w].base + 1
          BY <1>1, <1>2 DEF HandOK
        <5>4. run[r].from < n /\ n < run[r].to
          BY <1>2, <4>1, <5>1, <5>2, <5>3 DEF To
        <5>5. PostedDuring(n, r) /\ run[r].session = s
          BY <5>1, <5>4 DEF PostedDuring, Missing, SessionOf
        <5> QED BY <1>1, <1>2, <4>3, <5>5 DEF Covered, PostedDuring
      <4> QED BY <4>2, <4>3
    <3> QED BY <3>1, <3>2
  <2> QED BY <1>1, <1>4, <2>1, <2>2 DEF CheckpointOK
<1>8. \A x \in 1 .. 3, y \in Sessions :
         checkpoint'[x][y] = checkpoint[x][y] \/ CheckpointOK(x, y)'
  BY <1>4, <1>7
<1>9. checkpoint'[hand[w].processor][SessionOf(w)] >= To(w)
  BY <1>2, <1>3, <1>4
<1> QED BY <1>1, <1>4, <1>6, <1>8, <1>9, ProceedStep

LEMMA AdvanceStep ==
    ASSUME ProjectionInv, NEW w \in Workers, Advance(w)
    PROVE  ProjectionInv'
<1>1. hand[w].processor \in 1 .. 3 /\ SessionOf(w) \in Sessions
  BY HandTypes DEF Advance, HandType
<1> QED BY <1>1, AdvanceCovers

LEMMA ProjectionInitInv == ProjectionInit => ProjectionInv
<1> SUFFICES ASSUME ProjectionInit PROVE ProjectionInv
  OBVIOUS
<1>1. NoRun \in RunType /\ NoRun.status = "none"
  BY DEF NoRun, RunType
<1>2. NoEvent \in EventType /\ NoEvent.status = "none"
  BY DEF NoEvent, EventType
<1>3. ProjectionTypeOK
  BY <1>1, <1>2, IdleType DEF ProjectionInit, ProjectionTypeOK
<1>4. LogOK /\ \A r \in Runs : RunOK(r) /\ PassedOK(r)
  BY <1>1, <1>2 DEF ProjectionInit, LogOK, RunOK, PassedOK
<1>5. \A p \in 1 .. 3, s \in Sessions : CheckpointOK(p, s)
  BY DEF ProjectionInit, CheckpointOK
<1>6. \A w \in Workers : HandOK(w)
  BY IdleType DEF ProjectionInit, HandOK
<1> QED BY <1>3, <1>4, <1>5, <1>6 DEF ProjectionInv

\* Requests touch neither runs nor events nor checkpoints.
LEMMA ProjectionKept ==
    ASSUME ProjectionInv, UNCHANGED <<log, run, event, clock, checkpoint, hand, seen>>
    PROVE  ProjectionInv'
<1>1. ProjectionTypeOK' /\ LogOK'
  BY DEF ProjectionInv, ProjectionTypeOK, LogOK
<1>2. \A r \in Runs : RunOK(r)' /\ PassedOK(r)'
  <2>1. \A r \in Runs : Numbers(r)' = Numbers(r)
    BY DEF Numbers
  <2> QED BY <2>1 DEF ProjectionInv, RunOK, PassedOK
<1>3. \A p \in 1 .. 3, s \in Sessions : CheckpointOK(p, s)'
  BY DEF ProjectionInv, CheckpointOK, Covered, PostedDuring
<1>4. \A w \in Workers : HandOK(w)'
  BY DEF ProjectionInv, HandOK, SessionOf, To, Missing, Position, Batch, Numbers
<1> QED BY <1>1, <1>2, <1>3, <1>4 DEF ProjectionInv

LEMMA WorkerStep ==
    ASSUME ProjectionInv, NEW w \in Workers,
           \/ Read(w) \/ ProjectEpisode(w) \/ ProjectFacts(w) \/ ReadCore(w)
           \/ ReplaceCore(w) \/ Advance(w) \/ Fault(w) \/ Crash(w)
    PROVE  ProjectionInv'
<1>1. CASE ProjectEpisode(w) \/ ProjectFacts(w) \/ ReplaceCore(w)
  BY <1>1, HandledStep DEF ProjectEpisode, ProjectFacts, ReplaceCore, Handling, conversation
<1>2. CASE Fault(w)
  BY <1>2, GiveBackStep DEF Fault, conversation, projections
<1> QED BY <1>1, <1>2, ReadStep, ReadCoreStep, AdvanceStep, CrashStep

LEMMA ProjectionNextInv == ProjectionInv /\ [ProjectionNext]_memory => ProjectionInv'
<1> SUFFICES ASSUME ProjectionInv, [ProjectionNext]_memory PROVE ProjectionInv'
  OBVIOUS
<1>1. CASE \/ \E s \in Chats, v \in Values : Post(s, v)
           \/ \E s \in Children : Post(s, NULL)
           \/ \E r \in Runs, s \in Sessions : Queue(r, s)
           \/ \E r \in Runs : Start(r) \/ Write(r) \/ Finish(r) \/ FailEarly(r) \/ Reconcile(r)
  BY <1>1, ConversationStep
<1>2. CASE \E r \in Runs : RetryDue(r)
  BY <1>2, RetryDueStep
<1>3. CASE \E w \in Workers, r \in Runs : Claim(w, r)
  BY <1>3, ClaimStep
<1>4. CASE \/ \E w \in Workers : Read(w) \/ ProjectEpisode(w) \/ ProjectFacts(w) \/ ReadCore(w)
           \/ \E w \in Workers : ReplaceCore(w) \/ Advance(w) \/ Fault(w) \/ Crash(w)
  BY <1>4, WorkerStep
<1>5. CASE \/ \E r \in Runs : DeleteEpisode(r)
           \/ \E f \in Facts : Forget(f) \/ Promote(f)
           \/ RequestRebuild \/ RebuildRead \/ RebuildReplace
           \/ UNCHANGED memory
  <2>1. UNCHANGED <<log, run, event, clock, checkpoint, hand, seen>>
    BY <1>5 DEF DeleteEpisode, Forget, Promote, RequestRebuild, RebuildRead, RebuildReplace,
                memory, conversation, projections
  <2> QED BY <2>1, ProjectionKept
<1> QED BY <1>1, <1>2, <1>3, <1>4, <1>5 DEF ProjectionNext

\* The inductive invariant of the worker and its checkpoints.
THEOREM ProjectionInvariantHolds == ProjectionSpec => []ProjectionInv
BY ProjectionInitInv, ProjectionNextInv, PTL DEF ProjectionSpec

\* ProcessedWasRead: every processor has read the whole of an event that is processed,
\* save for what was posted while another run was writing, however crashes, retries and
\* workers come between the projections and the checkpoints (IncrementalMemoryProcessor,
\* advance_memory_checkpoint).
THEOREM ProcessedEventsWereRead == ProjectionSpec => []ProcessedWasRead
<1>1. ProjectionInv => ProcessedWasRead
  <2> SUFFICES ASSUME ProjectionInv, NEW r \in Runs, event[r].status = "processed",
                      NEW n \in Numbers(r), NEW p \in 1 .. 3
               PROVE  \/ <<p, run[r].session, n>> \in seen
                      \/ \E q \in Runs \ {r} : run[q].session = run[r].session /\ PostedDuring(n, q)
    BY DEF ProcessedWasRead
  <2>1. RunOK(r) /\ PassedOK(r) /\ event[r].status # "none"
    BY DEF ProjectionInv
  <2>2. /\ run[r].session \in Sessions /\ run[r].to \in Numbers(r) /\ n <= run[r].to
        /\ checkpoint[p][run[r].session] >= run[r].to
    BY <2>1 DEF RunOK, PassedOK
  <2>3. /\ n \in 1 .. Len(log[run[r].session]) /\ run[r].to \in Nat /\ n \in Nat
        /\ log[run[r].session][n].run = r
    BY <2>2, NumbersAre DEF ProjectionInv, Numbers
  <2>4. checkpoint[p][run[r].session] \in Nat /\ CheckpointOK(p, run[r].session)
    BY <2>2 DEF ProjectionInv, ProjectionTypeOK
  <2>5. n \in 1 .. checkpoint[p][run[r].session]
    BY <2>2, <2>3, <2>4
  <2>6. Covered(p, run[r].session, n)
    BY <2>4, <2>5 DEF CheckpointOK
  <2> QED BY <2>3, <2>6 DEF Covered
<1> QED BY <1>1, ProjectionInvariantHolds, PTL

-----------------------------------------------------------------------------
(* MemoryProjection: the facts.                                            *)

FactType == [key : 0 .. MaxRuns, value : Values \cup {NULL},
             status : {"candidate", "active", "superseded", "deleted"},
             version : Nat, source : Runs, kind : {"primary", "subagent"}]

\* Facts of which those of a subagent were promoted.
Reviewed(F) == F \subseteq Facts /\ \A f \in F : fact[f].kind = "subagent" => f \in reviewed

\* The inductive invariant of the facts: what was read to become a core memory
\* block, or is one, was reviewed.
FactsInv ==
    /\ fact \in Seq(FactType)
    /\ \A f \in Facts : fact[f].version <= Len(fact)
    /\ Reviewed(Active) /\ Reviewed(core) /\ Reviewed(api.read)
    /\ \A w \in Workers : Reviewed(hand[w].read)

\* What a step may do to the facts there are: the kind of a row never changes, and
\* a row becomes active only when it is promoted.
FactsGoOn ==
    /\ fact' \in Seq(FactType) /\ Len(fact') >= Len(fact)
    /\ \A f \in 1 .. Len(fact') : fact'[f].version <= Len(fact')
    /\ reviewed \subseteq reviewed'
    /\ \A f \in Facts :
          /\ fact'[f].kind = fact[f].kind
          /\ fact'[f].status = "active" => fact[f].status = "active" \/ f \in reviewed'
          /\ fact[f].status = "active" => fact'[f].status # "candidate"
          /\ fact[f].status = "superseded" => fact'[f].status \in {"superseded", "deleted"}
          /\ fact[f].status = "deleted" => fact'[f].status = "deleted"
    /\ \A f \in 1 .. Len(fact') :
          f \notin Facts /\ fact'[f].status = "active" => fact'[f].kind = "primary"

LEMMA ReviewedStays ==
    ASSUME FactsInv, FactsGoOn, NEW F, Reviewed(F)
    PROVE  F \subseteq 1 .. Len(fact') /\ \A f \in F : fact'[f].kind = "subagent" => f \in reviewed'
<1>1. Len(fact) \in Nat /\ Len(fact') \in Nat
  BY DEF FactsInv, FactsGoOn
<1>2. Len(fact) <= Len(fact') /\ F \subseteq 1 .. Len(fact)
  BY DEF FactsGoOn, Reviewed, Facts
<1>3. F \subseteq 1 .. Len(fact')
  BY <1>1, <1>2
<1>4. \A f \in F : fact'[f].kind = fact[f].kind
  BY DEF FactsGoOn, Reviewed
<1> QED BY <1>3, <1>4 DEF FactsGoOn, Reviewed

LEMMA FactsKeep ==
    ASSUME FactsInv, FactsGoOn,
           core' = core \/ core' = api.read \/ \E w \in Workers : core' = hand[w].read,
           api'.read \in {api.read, {}, Active},
           \A w \in Workers : hand'[w].read \in {hand[w].read, {}, Active}
    PROVE  FactsInv'
<1>1. Reviewed(Active) /\ Reviewed({})
  BY DEF FactsInv, Reviewed
<1>2. Reviewed(Active)'
  <2>1. Reviewed(Active)
    BY <1>1
  <2>2. \A f \in Facts' : fact'[f].status = "active" /\ fact'[f].kind = "subagent" => f \in reviewed'
    BY <2>1 DEF FactsGoOn, Reviewed, Active, Facts
  <2> QED BY <2>2 DEF Reviewed, Active
<1>3. Reviewed(core)'
  <2>1. PICK F : Reviewed(F) /\ core' = F
    BY DEF FactsInv
  <2> QED BY <2>1, ReviewedStays DEF Reviewed, Facts
<1>4. Reviewed(api.read)'
  <2>1. PICK F : Reviewed(F) /\ api'.read = F
    BY <1>1 DEF FactsInv
  <2> QED BY <2>1, ReviewedStays DEF Reviewed, Facts
<1>5. ASSUME NEW w \in Workers PROVE Reviewed(hand[w].read)'
  <2>1. PICK F : Reviewed(F) /\ hand'[w].read = F
    BY <1>1 DEF FactsInv
  <2> QED BY <2>1, ReviewedStays DEF Reviewed, Facts
<1> QED BY <1>2, <1>3, <1>4, <1>5 DEF FactsInv, FactsGoOn, Facts

\* Rows are marked, and none is added.
LEMMA RowsMarked ==
    ASSUME FactsInv, NEW new \in Seq(FactType), fact' = new, Len(new) = Len(fact),
           reviewed \subseteq reviewed',
           \A f \in Facts :
              /\ new[f].kind = fact[f].kind /\ new[f].version <= Len(fact)
              /\ \/ new[f].status = fact[f].status
                 \/ new[f].status = "deleted"
                 \/ new[f].status = "superseded" /\ fact[f].status = "active"
                 \/ new[f].status = "active" /\ fact[f].status = "candidate" /\ f \in reviewed'
    PROVE  FactsGoOn
BY DEF FactsGoOn, Facts

\* A row is added: that of a primary session may be active.
LEMMA RowAdded ==
    ASSUME FactsInv, NEW old \in Seq(FactType), NEW row \in FactType, Len(old) = Len(fact),
           fact' = Append(old, row), reviewed \subseteq reviewed',
           row.version <= Len(fact) + 1, row.status = "active" => row.kind = "primary",
           \A f \in Facts :
              /\ old[f].kind = fact[f].kind /\ old[f].version <= Len(fact)
              /\ \/ old[f].status = fact[f].status
                 \/ old[f].status = "superseded" /\ fact[f].status = "active"
    PROVE  FactsGoOn
<1>1. /\ Len(fact) \in Nat /\ Len(fact') = Len(fact) + 1 /\ fact' \in Seq(FactType)
      /\ fact'[Len(fact) + 1] = row /\ \A f \in Facts : fact'[f] = old[f]
  BY DEF FactsInv, Facts
<1>2. \A f \in 1 .. Len(fact') : f \in Facts \/ f = Len(fact) + 1
  BY <1>1 DEF Facts
<1>3. \A f \in 1 .. Len(fact') : fact'[f].version <= Len(fact')
  <2>1. \A f \in Facts : old[f].version \in Nat
    <3>1. \A f \in Facts : old[f] \in FactType
      BY ElementOfSeq DEF Facts
    <3> QED BY <3>1 DEF FactType
  <2>2. row.version \in Nat
    BY DEF FactType
  <2> QED BY <1>1, <1>2, <2>1, <2>2
<1>4. \A f \in 1 .. Len(fact') :
          f \notin Facts /\ fact'[f].status = "active" => fact'[f].kind = "primary"
  BY <1>1, <1>2
<1>5. \A f \in Facts :
          /\ fact'[f].kind = fact[f].kind
          /\ fact'[f].status = "active" => fact[f].status = "active" \/ f \in reviewed'
          /\ fact[f].status = "active" => fact'[f].status # "candidate"
          /\ fact[f].status = "superseded" => fact'[f].status \in {"superseded", "deleted"}
          /\ fact[f].status = "deleted" => fact'[f].status = "deleted"
  BY <1>1
<1>6. Len(fact') >= Len(fact)
  BY <1>1
<1> QED BY <1>1, <1>3, <1>4, <1>5, <1>6 DEF FactsGoOn

LEMMA FactRow ==
    ASSUME FactsInv, NEW f \in Facts
    PROVE  fact[f] \in FactType /\ fact[f].version <= Len(fact)
BY ElementOfSeq DEF FactsInv, Facts

\* activate_semantic_memory.
LEMMA ActivateStep ==
    ASSUME FactsInv, NEW value \in Values, NEW r \in Runs, Activate(value, r), reviewed' = reviewed
    PROVE  FactsGoOn
<1> DEFINE current == ActiveOf(0)
           versions == {fact[f].version : f \in current}
           version == IF current = {} THEN 1 ELSE 1 + Max(versions)
           old     == [f \in Facts |-> IF f \in current
                                       THEN [fact[f] EXCEPT !.status = "superseded"]
                                       ELSE fact[f]]
           row     == [key |-> 0, value |-> value, status |-> "active", version |-> version,
                       source |-> r, kind |-> "primary"]
<1>1. CASE UNCHANGED fact
  <2>1. Len(fact) = Len(fact) /\ \A f \in Facts : fact[f].version <= Len(fact)
    BY DEF FactsInv
  <2>2. fact \in Seq(FactType) /\ reviewed \subseteq reviewed'
    BY DEF FactsInv
  <2> QED BY <1>1, <2>1, <2>2, RowsMarked
<1>2. CASE fact' = Append(old, row)
  <2>1. current \subseteq Facts /\ \A f \in current : fact[f].status = "active"
    BY DEF ActiveOf, Active
  <2>2. version \in Nat /\ version <= Len(fact) + 1
    <3>1. Len(fact) \in Nat
      BY DEF FactsInv
    <3>2. CASE current = {}
      BY <3>1, <3>2
    <3>3. CASE current # {}
      <4>1. versions \in SUBSET (0 .. Len(fact)) /\ versions # {}
        <5>1. \A f \in current : fact[f].version \in Nat /\ fact[f].version <= Len(fact)
          BY <2>1, FactRow DEF FactType
        <5> QED BY <3>1, <3>3, <5>1
      <4> HIDE DEF versions
      <4>2. Max(versions) \in versions
        BY <3>1, <4>1, GreatestIs
      <4>3. Max(versions) \in 0 .. Len(fact)
        BY <4>1, <4>2
      <4>4. version = 1 + Max(versions)
        BY <3>3
      <4> HIDE DEF version
      <4> QED BY <3>1, <4>3, <4>4
    <3> QED BY <3>2, <3>3
  <2>3. ASSUME NEW f \in Facts
        PROVE  /\ old[f] \in FactType /\ old[f].kind = fact[f].kind /\ old[f].version <= Len(fact)
               /\ \/ old[f].status = fact[f].status
                  \/ old[f].status = "superseded" /\ fact[f].status = "active"
    <3>1. fact[f] \in FactType /\ fact[f].version <= Len(fact)
      BY FactRow
    <3> DEFINE gone == [fact[f] EXCEPT !.status = "superseded"]
    <3>2. /\ gone \in FactType /\ gone.status = "superseded" /\ gone.kind = fact[f].kind
          /\ gone.version = fact[f].version
      BY <3>1 DEF FactType
    <3>3. old[f] = IF f \in current THEN gone ELSE fact[f]
      OBVIOUS
    <3> HIDE DEF gone, old, current
    <3> QED BY <2>1, <3>1, <3>2, <3>3
  <2>4. old \in Seq(FactType) /\ Len(old) = Len(fact)
    <3>1. DOMAIN old = 1 .. Len(fact) /\ Len(fact) \in Nat /\ old \in [1 .. Len(fact) -> FactType]
      BY <2>3 DEF Facts, FactsInv
    <3> HIDE DEF old
    <3> QED BY <3>1
  <2>5. row \in FactType /\ row.version <= Len(fact) + 1 /\ row.kind = "primary"
    <3>1. 0 \in 0 .. MaxRuns
      BY MemoryAssumption
    <3> HIDE DEF version
    <3> QED BY <2>2, <3>1 DEF FactType
  <2> HIDE DEF old, row
  <2> QED BY <1>2, <2>3, <2>4, <2>5, RowAdded
<1> QED BY <1>1, <1>2 DEF Activate

\* put_semantic_candidate_once.
LEMMA PutOnceStep ==
    ASSUME FactsInv, NEW r \in Runs, PutOnce(r), reviewed' = reviewed
    PROVE  FactsGoOn
<1>0. \A f \in Facts : fact[f].version <= Len(fact)
  BY DEF FactsInv
<1>1. fact \in Seq(FactType) /\ Len(fact) \in Nat
  BY DEF FactsInv
<1>2. CASE UNCHANGED fact
  BY <1>0, <1>1, <1>2, RowsMarked
<1>3. CASE fact' = Append(fact, Finding(r))
  <2>1. Finding(r) \in FactType /\ Finding(r).status = "candidate" /\ Finding(r).version = 1
    BY DEF Finding, FactType, Runs
  <2>2. Finding(r).version <= Len(fact) + 1
    BY <1>1, <2>1
  <2> QED BY <1>0, <1>1, <1>3, <2>1, <2>2, RowAdded
<1> QED BY <1>2, <1>3 DEF PutOnce

\* Marked, for one of the rows.
LEMMA MarkedStep ==
    ASSUME FactsInv, NEW f \in Facts, NEW status \in {"active", "deleted"},
           fact' = Marked(f, status), reviewed \subseteq reviewed',
           status = "active" => fact[f].status = "candidate" /\ f \in reviewed'
    PROVE  FactsGoOn
<1> DEFINE row == [fact[f] EXCEPT !.status = status]
           new == [fact EXCEPT ![f] = row]
<1>1. fact[f] \in FactType /\ \A g \in Facts : fact[g].version <= Len(fact)
  BY FactRow DEF FactsInv
<1>2. /\ row \in FactType /\ row.status = status /\ row.kind = fact[f].kind
      /\ row.version = fact[f].version
  BY <1>1 DEF FactType
<1>3. fact' = new
  BY DEF Marked
<1> HIDE DEF row
<1>4. /\ new \in Seq(FactType) /\ Len(new) = Len(fact)
      /\ \A g \in Facts : new[g] = IF g = f THEN row ELSE fact[g]
  BY <1>2, ExceptSeq DEF FactsInv, Facts
<1> HIDE DEF new
<1>5. \A g \in Facts :
         /\ new[g].kind = fact[g].kind /\ new[g].version <= Len(fact)
         /\ \/ new[g].status = fact[g].status
            \/ new[g].status = "deleted"
            \/ new[g].status = "superseded" /\ fact[g].status = "active"
            \/ new[g].status = "active" /\ fact[g].status = "candidate" /\ g \in reviewed'
  BY <1>1, <1>2, <1>4
<1> QED BY <1>3, <1>4, <1>5, RowsMarked

\* Steps that leave the rows alone.
LEMMA FactsRest ==
    ASSUME FactsInv, UNCHANGED fact, reviewed \subseteq reviewed'
    PROVE  FactsGoOn
BY RowsMarked DEF FactsInv

LEMMA ProjectFactsStep ==
    ASSUME ProjectionInv, FactsInv, NEW w \in Workers, ProjectFacts(w)
    PROVE  FactsGoOn
<1> DEFINE r == hand[w].run
           s == SessionOf(w)
<1>1. reviewed' = reviewed /\ hand[w].stage = "handling"
  BY DEF ProjectFacts, Handling
<1>2. r \in Runs /\ s \in Sessions
  BY <1>1, HandTypes
<1>3. CASE UNCHANGED fact
  BY <1>1, <1>3, FactsRest
<1>4. CASE PutOnce(r)
  BY <1>1, <1>2, <1>4, PutOnceStep
<1>5. CASE \E n \in Said(w) : Activate(log[s][n].says, r)
  <2>1. PICK n \in Said(w) : Activate(log[s][n].says, r)
    BY <1>5
  <2>2. n \in 1 .. Len(log[s]) /\ log[s][n].says # NULL
    BY <2>1 DEF Said, Batch, Numbers, SessionOf
  <2>3. log[s] \in Seq(RowType)
    BY <1>2 DEF ProjectionInv, ProjectionTypeOK
  <2>4. log[s][n].says \in Values
    <3>1. log[s][n] \in RowType
      BY <2>2, <2>3, ElementOfSeq
    <3> QED BY <2>2, <3>1 DEF RowType
  <2> QED BY <1>1, <1>2, <2>1, <2>4, ActivateStep
<1> QED BY <1>3, <1>4, <1>5 DEF ProjectFacts

\* Every step lets the facts go on.
LEMMA StepsLetGoOn ==
    ASSUME ProjectionInv, FactsInv, [ProjectionNext]_memory
    PROVE  FactsGoOn
<1>1. CASE \/ \E s \in Chats, v \in Values : Post(s, v)
           \/ \E s \in Children : Post(s, NULL)
           \/ \E r \in Runs, s \in Sessions : Queue(r, s)
           \/ \E r \in Runs : Start(r) \/ Write(r) \/ Finish(r) \/ FailEarly(r) \/ Reconcile(r)
           \/ \E r \in Runs : RetryDue(r) \/ DeleteEpisode(r)
           \/ \E w \in Workers, r \in Runs : Claim(w, r)
           \/ RequestRebuild \/ RebuildRead \/ RebuildReplace
           \/ UNCHANGED memory
  <2>1. UNCHANGED fact /\ reviewed' = reviewed
    BY <1>1 DEF Post, Queue, Start, Write, Finish, FailEarly, Reconcile, RetryDue, DeleteEpisode,
                Claim, RequestRebuild, RebuildRead, RebuildReplace, memory, projections
  <2> QED BY <2>1, FactsRest
<1>2. CASE \/ \E w \in Workers : Read(w) \/ ProjectEpisode(w) \/ ReadCore(w)
           \/ \E w \in Workers : ReplaceCore(w) \/ Advance(w) \/ Fault(w) \/ Crash(w)
  <2>1. UNCHANGED fact /\ reviewed' = reviewed
    BY <1>2 DEF Read, ProjectEpisode, ReadCore, ReplaceCore, Advance, Fault, Crash, projections
  <2> QED BY <2>1, FactsRest
<1>3. CASE \E w \in Workers : ProjectFacts(w)
  BY <1>3, ProjectFactsStep
<1>4. CASE \E f \in Facts : Forget(f)
  BY <1>4, MarkedStep DEF Forget
<1>5. CASE \E f \in Facts : Promote(f)
  BY <1>5, MarkedStep DEF Promote, Promotable
<1> QED BY <1>1, <1>2, <1>3, <1>4, <1>5 DEF ProjectionNext

\* What a step may make of the core memory, and of what was read to replace it.
CoreGoesOn ==
    /\ core' = core \/ core' = api.read \/ \E w \in Workers : core' = hand[w].read
    /\ api'.read \in {api.read, {}, Active}
    /\ \A w \in Workers : hand'[w].read \in {hand[w].read, {}, Active}

LEMMA CoreRests ==
    ASSUME UNCHANGED <<core, api, hand>>
    PROVE  CoreGoesOn
BY DEF CoreGoesOn

\* One worker's hand moves.
LEMMA CoreHand ==
    ASSUME ProjectionInv, NEW w \in Workers, NEW h, hand' = [hand EXCEPT ![w] = h],
           h.read \in {hand[w].read, {}, Active}, core' = core \/ core' = hand[w].read,
           api' = api \/ api'.read = {}
    PROVE  CoreGoesOn
<1>1. hand \in [Workers -> HandType]
  BY DEF ProjectionInv, ProjectionTypeOK
<1>2. \A v \in Workers : hand'[v].read \in {hand[v].read, {}, Active}
  BY <1>1
<1> QED BY <1>2 DEF CoreGoesOn

\* The hands of the actions: what was read is kept, forgotten, or the facts that are active.
LEMMA HandsKept ==
    ASSUME ProjectionInv, NEW w \in Workers
    PROVE  /\ [hand[w] EXCEPT !.stage = "advancing"].read = hand[w].read
           /\ \A b : [hand[w] EXCEPT !.stage = "handling", !.base = b].read = hand[w].read
           /\ \A F : [hand[w] EXCEPT !.stage = "replacing", !.read = F].read = F
           /\ \A p : [hand[w] EXCEPT !.processor = p, !.stage = "reading", !.read = {}].read = {}
           /\ Idle.read = {}
           /\ \A r : [Idle EXCEPT !.run = r, !.stage = "reading"].read = {}
<1>1. hand[w] \in HandType
  BY DEF ProjectionInv, ProjectionTypeOK
<1> QED BY <1>1 DEF HandType, Idle

LEMMA CoreSteps ==
    ASSUME ProjectionInv, FactsInv, [ProjectionNext]_memory
    PROVE  CoreGoesOn
<1>1. CASE \/ \E s \in Chats, v \in Values : Post(s, v)
           \/ \E s \in Children : Post(s, NULL)
           \/ \E r \in Runs, s \in Sessions : Queue(r, s)
           \/ \E r \in Runs : Start(r) \/ Write(r) \/ Finish(r) \/ FailEarly(r) \/ Reconcile(r)
           \/ \E r \in Runs : RetryDue(r) \/ DeleteEpisode(r)
           \/ UNCHANGED memory
  <2>1. UNCHANGED <<core, api, hand>>
    BY <1>1 DEF Post, Queue, Start, Write, Finish, FailEarly, Reconcile, RetryDue, DeleteEpisode,
                memory, projections
  <2> QED BY <2>1, CoreRests
<1>2. CASE \/ \E f \in Facts : Forget(f) \/ Promote(f)
           \/ RequestRebuild \/ RebuildRead \/ RebuildReplace
  <2>1. hand' = hand
    BY <1>2 DEF Forget, Promote, RequestRebuild, RebuildRead, RebuildReplace
  <2>2. api'.read \in {{}, Active}
    BY <1>2 DEF Forget, Promote, RequestRebuild, RebuildRead, RebuildReplace, Rebuild, CoreFacts
  <2>3. core' = core \/ core' = api.read
    BY <1>2 DEF Forget, Promote, RequestRebuild, RebuildRead, RebuildReplace, projections
  <2> QED BY <2>1, <2>2, <2>3 DEF CoreGoesOn
<1>3. ASSUME NEW w \in Workers, \E r \in Runs : Claim(w, r) PROVE CoreGoesOn
  <2>1. PICK r \in Runs : /\ hand' = [hand EXCEPT ![w] = [Idle EXCEPT !.run = r, !.stage = "reading"]]
                          /\ core' = core /\ api' = api
    BY <1>3 DEF Claim, projections
  <2> DEFINE h == [Idle EXCEPT !.run = r, !.stage = "reading"]
  <2>2. hand' = [hand EXCEPT ![w] = h] /\ h.read = {}
    BY <2>1, HandsKept
  <2> HIDE DEF h
  <2> QED BY <2>1, <2>2, CoreHand
<1>4. ASSUME NEW w \in Workers, Proceed(w), UNCHANGED <<core, api>> PROVE CoreGoesOn
  <2>1. CASE hand' = [hand EXCEPT ![w] = Idle]
    BY <1>4, <2>1, HandsKept, CoreHand
  <2>2. CASE hand' = [hand EXCEPT ![w] = [hand[w] EXCEPT !.processor = @ + 1, !.stage = "reading",
                                                         !.read = {}]]
    <3> DEFINE next == hand[w].processor + 1
               h    == [hand[w] EXCEPT !.processor = next, !.stage = "reading", !.read = {}]
    <3>1. hand' = [hand EXCEPT ![w] = h]
      BY <2>2
    <3> HIDE DEF next
    <3>2. h.read = {}
      BY HandsKept
    <3> HIDE DEF h
    <3> QED BY <1>4, <3>1, <3>2, CoreHand
  <2> QED BY <1>4, <2>1, <2>2 DEF Proceed
<1>5. ASSUME NEW w \in Workers, GiveBack(w), core' = core, api' = api \/ api'.read = {}
      PROVE  CoreGoesOn
  BY <1>5, HandsKept, CoreHand DEF GiveBack
<1>6. ASSUME NEW w \in Workers, Handled(w), core' = core \/ core' = hand[w].read, api' = api
      PROVE  CoreGoesOn
  <2> DEFINE h == [hand[w] EXCEPT !.stage = "advancing"]
  <2>1. hand' = [hand EXCEPT ![w] = h] /\ h.read = hand[w].read
    BY <1>6, HandsKept DEF Handled
  <2> HIDE DEF h
  <2> QED BY <1>6, <2>1, CoreHand
<1>7. ASSUME NEW w \in Workers, Read(w) PROVE CoreGoesOn
  <2>1. UNCHANGED <<core, api>>
    BY <1>7 DEF Read, projections
  <2>2. CASE hand' = [hand EXCEPT ![w] = [@ EXCEPT !.stage = "handling", !.base = Position(w)]]
    <3> DEFINE h == [hand[w] EXCEPT !.stage = "handling", !.base = Position(w)]
    <3>1. hand' = [hand EXCEPT ![w] = h] /\ h.read = hand[w].read
      BY <2>2, HandsKept
    <3> HIDE DEF h
    <3> QED BY <2>1, <3>1, CoreHand
  <2> QED BY <1>4, <1>5, <1>7, <2>1, <2>2 DEF Read
<1>8. ASSUME NEW w \in Workers, ReadCore(w) PROVE CoreGoesOn
  <2>1. UNCHANGED <<core, api>>
    BY <1>8 DEF ReadCore, projections
  <2> DEFINE h == [hand[w] EXCEPT !.stage = "replacing", !.read = Active]
  <2>2. hand' = [hand EXCEPT ![w] = h] /\ h.read = Active
    BY <1>8, HandsKept DEF ReadCore, CoreFacts
  <2> HIDE DEF h
  <2> QED BY <2>1, <2>2, CoreHand
<1>9. ASSUME NEW w \in Workers, Crash(w) PROVE CoreGoesOn
  BY <1>9, HandsKept, CoreHand DEF Crash, projections
<1>10. ASSUME NEW w \in Workers, ProjectEpisode(w) \/ ProjectFacts(w) \/ ReplaceCore(w)
       PROVE  CoreGoesOn
  <2>1. Handled(w) /\ (core' = core \/ core' = hand[w].read) /\ api' = api
    BY <1>10 DEF ProjectEpisode, ProjectFacts, ReplaceCore
  <2> QED BY <1>6, <2>1
<1>11. ASSUME NEW w \in Workers, Advance(w) \/ Fault(w) PROVE CoreGoesOn
  <2>1. (Proceed(w) \/ GiveBack(w)) /\ UNCHANGED <<core, api>>
    BY <1>11 DEF Advance, Fault, projections
  <2> QED BY <1>4, <1>5, <2>1
<1> QED BY <1>1, <1>2, <1>3, <1>7, <1>8, <1>9, <1>10, <1>11 DEF ProjectionNext

LEMMA FactsInit == ProjectionInit => FactsInv
<1> SUFFICES ASSUME ProjectionInit PROVE FactsInv
  OBVIOUS
<1>1. fact = <<>> /\ Facts = {} /\ Active = {}
  BY DEF ProjectionInit, Facts, Active
<1>2. Reviewed({}) /\ core = {} /\ api.read = {} /\ \A w \in Workers : hand[w].read = {}
  BY DEF ProjectionInit, Reviewed, Idle
<1>3. fact \in Seq(FactType)
  BY <1>1, EmptySeq
<1>4. Reviewed(Active) /\ Reviewed(core) /\ Reviewed(api.read)
  BY <1>1, <1>2
<1>5. \A w \in Workers : Reviewed(hand[w].read)
  BY <1>2
<1> QED BY <1>1, <1>3, <1>4, <1>5 DEF FactsInv

LEMMA FactsNext ==
    ProjectionInv /\ FactsInv /\ [ProjectionNext]_memory => FactsInv'
BY StepsLetGoOn, CoreSteps, FactsKeep DEF CoreGoesOn

\* The inductive invariant of the facts, above that of the worker.
THEOREM FactsInvariantHolds == ProjectionSpec => [](ProjectionInv /\ FactsInv)
BY ProjectionInitInv, ProjectionNextInv, FactsInit, FactsNext, PTL DEF ProjectionSpec

\* FindingsAreReviewed: as a fact, what a subagent found reaches the model, through the
\* search or a core memory block, only after a reviewer promoted it, whatever events are
\* replayed and whichever rebuild of the blocks ends last (put_semantic_candidate_once,
\* promote_semantic_memory, CoreMemoryBuilder.rebuild).  The episode of its run, which
\* shows the same words, is no fact and is not reviewed.
THEOREM FindingsStayReviewed == ProjectionSpec => []FindingsAreReviewed
<1>1. FactsInv => FindingsAreReviewed
  BY DEF FactsInv, Reviewed, FindingsAreReviewed, Recalled, Searchable
<1> QED BY <1>1, FactsInvariantHolds, PTL

-----------------------------------------------------------------------------
(* MemoryProjection: what is heard again.                                  *)

\* The worker is done with the semantic part of its event.
Past(w) == \/ hand[w].processor > 2
           \/ hand[w].processor = 2 /\ hand[w].stage = "advancing"

\* A message that was handed to the semantic processor came with the event of its
\* run, and whoever handles that event for the first time is done with it.
HeardOnce(s, n) ==
    <<2, s, n>> \in seen =>
        /\ n \in 1 .. Len(log[s]) /\ log[s][n].run \in Runs
        /\ event[log[s][n].run].attempts > 0
        /\ \A w \in Workers :
              hand[w].stage # "idle" /\ hand[w].run = log[s][n].run =>
                  event[hand[w].run].attempts > 1 \/ Past(w)

\* An event in a worker's hand is that worker's.
HeldOK(w) ==
    hand[w].stage # "idle" =>
        /\ event[hand[w].run].status = "processing" /\ event[hand[w].run].owner = w
        /\ event[hand[w].run].attempts > 0

\* The inductive invariant of what was heard.
HeardInv ==
    /\ \A s \in Sessions, n \in Nat : HeardOnce(s, n)
    /\ \A r \in Runs : event[r].status = "none" => event[r].attempts = 0
    /\ \A w \in Workers : HeldOK(w)

\* Messages keep their runs, and events of runs that are under way may be published.
LEMMA HeardGrows ==
    ASSUME ProjectionInv, HeardInv, UNCHANGED <<hand, seen>>,
           \A s \in Sessions : \A n \in 1 .. Len(log[s]) : log[s][n].run \in Runs =>
               n \in 1 .. Len(log'[s]) /\ log'[s][n].run = log[s][n].run,
           \A r \in Runs : \/ event'[r] = event[r]
                           \/ /\ event[r].status = "none"
                              /\ event'[r].status = "pending" /\ event'[r].attempts = 0
    PROVE  HeardInv'
<1>1. ASSUME NEW r \in Runs, event[r].attempts > 0 \/ event[r].status # "none"
      PROVE  event'[r] = event[r]
  BY <1>1 DEF HeardInv
<1>2. ASSUME NEW s \in Sessions, NEW n \in Nat PROVE HeardOnce(s, n)'
  <2>1. HeardOnce(s, n)
    BY DEF HeardInv
  <2>2. CASE <<2, s, n>> \in seen
    <3>1. /\ n \in 1 .. Len(log'[s]) /\ log'[s][n].run = log[s][n].run /\ log[s][n].run \in Runs
          /\ event'[log[s][n].run] = event[log[s][n].run]
      BY <1>1, <2>1, <2>2 DEF HeardOnce
    <3>2. \A w \in Workers : Past(w)' <=> Past(w)
      BY DEF Past
    <3> QED BY <2>1, <2>2, <3>1, <3>2 DEF HeardOnce
  <2> QED BY <2>2 DEF HeardOnce
<1>3. ASSUME NEW w \in Workers PROVE HeldOK(w)'
  <2>1. CASE hand[w].stage = "idle"
    BY <2>1 DEF HeldOK
  <2>2. CASE hand[w].stage # "idle"
    <3>1. hand[w].run \in Runs /\ HeldOK(w)
      BY <2>2, HandTypes DEF HeardInv
    <3>2. event'[hand[w].run] = event[hand[w].run]
      BY <1>1, <2>2, <3>1 DEF HeldOK
    <3> QED BY <3>1, <3>2 DEF HeldOK
  <2> QED BY <2>1, <2>2
<1>4. \A r \in Runs : event'[r].status = "none" => event'[r].attempts = 0
  BY DEF HeardInv
<1> QED BY <1>2, <1>3, <1>4 DEF HeardInv

LEMMA HeardConversation ==
    ASSUME ProjectionInv, HeardInv,
           \/ \E s \in Chats, v \in Values : Post(s, v)
           \/ \E s \in Children : Post(s, NULL)
           \/ \E r \in Runs, s \in Sessions : Queue(r, s)
           \/ \E r \in Runs : Start(r) \/ Write(r) \/ Finish(r) \/ FailEarly(r) \/ Reconcile(r)
    PROVE  HeardInv'
<1>1. UNCHANGED <<hand, seen>>
  BY DEF Post, Queue, Start, Write, Finish, FailEarly, Reconcile, projections
<1>2. log \in [Sessions -> Seq(RowType)] /\ event \in [Runs -> EventType]
  BY DEF ProjectionInv, ProjectionTypeOK
<1>3. ASSUME NEW t \in Sessions, NEW r, NEW role, NEW says, r \in {0} \cup Runs,
             role \in {"user", "assistant"}, says \in Values \cup {NULL},
             AddMessage(t, r, role, says), event' = event
      PROVE  HeardInv'
  <2> DEFINE row == [run |-> r, role |-> role, says |-> says]
  <2>1. row \in RowType
    BY <1>3, MemoryAssumption DEF RowType, Runs
  <2>2. log' = [log EXCEPT ![t] = Append(log[t], row)]
    BY <1>3 DEF AddMessage
  <2> HIDE DEF row
  <2>3. log[t] \in Seq(RowType) /\ log'[t] = Append(log[t], row)
    BY <1>2, <2>2
  <2>4. \A n \in 1 .. Len(log[t]) : n \in 1 .. Len(log'[t]) /\ log'[t][n] = log[t][n]
    BY <2>1, <2>3
  <2>5. \A s \in Sessions : s # t => log'[s] = log[s]
    BY <1>2, <2>2
  <2>6. \A s \in Sessions : \A n \in 1 .. Len(log[s]) :
           n \in 1 .. Len(log'[s]) /\ log'[s][n].run = log[s][n].run
    BY <2>4, <2>5
  <2> QED BY <1>1, <1>3, <2>6, HeardGrows
<1>4. CASE \/ \E s \in Chats, v \in Values : Post(s, v)
           \/ \E s \in Children : Post(s, NULL)
  <2>1. PICK s \in Sessions, v \in Values \cup {NULL} : Post(s, v)
    BY <1>4 DEF Sessions
  <2> QED BY <1>3, <2>1 DEF Post
<1>5. CASE \E r \in Runs : Write(r)
  <2>1. PICK r \in Runs : Write(r)
    BY <1>5
  <2>2. run[r].session \in Sessions
    BY <2>1 DEF Write, ProjectionInv, RunOK
  <2> QED BY <1>3, <2>1, <2>2 DEF Write
<1>6. CASE \E r \in Runs, s \in Sessions : Queue(r, s)
  <2>1. PICK r \in Runs, t \in Sessions : Queue(r, t)
    BY <1>6
  <2> DEFINE last == LastUser(t)
             row  == [log[t][last] EXCEPT !.run = r]
  <2>2. /\ log' = [log EXCEPT ![t] = [log[t] EXCEPT ![last] = row]] /\ event' = event
        /\ log[t][last].run = 0
    BY <2>1 DEF Queue
  <2>3. last \in 1 .. Len(log[t]) /\ row \in RowType
    BY <2>1, LastUserIs
  <2> HIDE DEF last, row
  <2>4. log'[t] = [log[t] EXCEPT ![last] = row] /\ log[t] \in Seq(RowType)
    BY <1>2, <2>2
  <2>5. /\ Len(log'[t]) = Len(log[t])
        /\ \A n \in 1 .. Len(log[t]) : n # last => log'[t][n] = log[t][n]
    BY <2>3, <2>4, ExceptSeq
  <2>6. \A s \in Sessions : s # t => log'[s] = log[s]
    BY <1>2, <2>2
  <2>7. \A n \in 1 .. Len(log[t]) : log[t][n].run \in Runs => log'[t][n] = log[t][n]
    BY <2>2, <2>5 DEF Runs
  <2>8. \A s \in Sessions : \A n \in 1 .. Len(log[s]) : log[s][n].run \in Runs =>
           n \in 1 .. Len(log'[s]) /\ log'[s][n].run = log[s][n].run
    BY <2>5, <2>6, <2>7
  <2> QED BY <1>1, <2>2, <2>8, HeardGrows
<1>7. CASE \E r \in Runs : Start(r) \/ Finish(r) \/ FailEarly(r) \/ Reconcile(r)
  <2>1. PICK r \in Runs : Start(r) \/ Finish(r) \/ FailEarly(r) \/ Reconcile(r)
    BY <1>7
  <2>2. log' = log /\ (event' = event \/ Publish(r)) /\ Live(r)
    BY <2>1 DEF Start, Finish, FailEarly, Reconcile, Live
  <2>3. event[r].status = "none"
    BY <2>2 DEF ProjectionInv, RunOK, Live
  <2>4. ASSUME Publish(r) PROVE /\ \A q \in Runs : q # r => event'[q] = event[q]
                                /\ event'[r].status = "pending" /\ event'[r].attempts = 0
    <3> DEFINE at == clock + 1
               e1 == [NoEvent EXCEPT !.status = "pending"]
               e2 == [e1 EXCEPT !.due = TRUE]
               e  == [e2 EXCEPT !.at = at]
    <3>1. event' = [event EXCEPT ![r] = e]
      BY <2>4 DEF Publish
    <3> HIDE DEF at
    <3>2. e.status = "pending" /\ e.attempts = 0
      BY DEF NoEvent
    <3> HIDE DEF e
    <3> QED BY <1>2, <3>1, <3>2
  <2>5. \A q \in Runs : \/ event'[q] = event[q]
                        \/ /\ event[q].status = "none"
                           /\ event'[q].status = "pending" /\ event'[q].attempts = 0
    BY <2>2, <2>3, <2>4
  <2> QED BY <1>1, <2>2, <2>5, HeardGrows
<1> QED BY <1>4, <1>5, <1>6, <1>7

\* What is new is of one run, or of that run nothing was ever heard.
NewlyHeard(r) ==
    \A s \in Sessions, n \in Nat : <<2, s, n>> \in seen' /\ <<2, s, n>> \notin seen =>
        n \in 1 .. Len(log[s]) /\ log[s][n].run = r
NeverHeard(r) == \A s \in Sessions, n \in Nat : <<2, s, n>> \in seen => log[s][n].run # r

\* A worker's hand moves, and with it at most the event it holds, or takes up.
HeardMove(w, h, r, e) ==
    /\ hand' = [hand EXCEPT ![w] = h] /\ event' = [event EXCEPT ![r] = e]
    /\ log' = log /\ e.status # "none" /\ e.attempts >= event[r].attempts
    /\ IF hand[w].stage = "idle" THEN event[r].status = "pending" ELSE hand[w].run = r
    /\ h.stage # "idle" =>
          /\ h.run = r /\ e.status = "processing" /\ e.owner = w /\ e.attempts > 0
          /\ NeverHeard(r)' \/ e.attempts > 1 \/ Past(w)'
    /\ seen' = seen \/ (NewlyHeard(r) /\ e.attempts > 0)

LEMMA HeardMoves ==
    ASSUME ProjectionInv, HeardInv, NEW w \in Workers, NEW h \in HandType, NEW r \in Runs,
           NEW e \in EventType, HeardMove(w, h, r, e)
    PROVE  HeardInv'
<1>0. /\ hand' = [hand EXCEPT ![w] = h] /\ event' = [event EXCEPT ![r] = e]
      /\ log' = log /\ e.status # "none" /\ e.attempts >= event[r].attempts
      /\ IF hand[w].stage = "idle" THEN event[r].status = "pending" ELSE hand[w].run = r
      /\ h.stage # "idle" =>
            /\ h.run = r /\ e.status = "processing" /\ e.owner = w /\ e.attempts > 0
            /\ NeverHeard(r)' \/ e.attempts > 1 \/ Past(w)'
      /\ seen' = seen \/ (NewlyHeard(r) /\ e.attempts > 0)
  BY DEF HeardMove
<1>1. /\ hand'[w] = h /\ \A u \in Workers : u # w => hand'[u] = hand[u]
      /\ event'[r] = e /\ \A q \in Runs : q # r => event'[q] = event[q]
      /\ event \in [Runs -> EventType]
  BY <1>0 DEF ProjectionInv, ProjectionTypeOK
<1>2. ASSUME NEW u \in Workers, u # w, hand[u].stage # "idle" PROVE hand[u].run \in Runs \ {r}
  <2>1. hand[u].run \in Runs /\ HeldOK(u) /\ HeldOK(w)
    BY <1>0, <1>2, HandTypes DEF HeardInv
  <2> QED BY <1>0, <1>2, <2>1 DEF HeldOK
<1>3. ASSUME NEW u \in Workers PROVE HeldOK(u)'
  <2>1. CASE u = w
    BY <1>0, <1>1, <2>1 DEF HeldOK
  <2>2. CASE u # w
    BY <1>0, <1>1, <1>2, <2>2 DEF HeldOK, HeardInv
  <2> QED BY <2>1, <2>2
<1>4. \A q \in Runs : event'[q].status = "none" => event'[q].attempts = 0
  BY <1>0, <1>1 DEF HeardInv
<1>5. ASSUME NEW s \in Sessions, NEW n \in Nat, <<2, s, n>> \in seen' PROVE HeardOnce(s, n)'
  <2> DEFINE q == log[s][n].run
  <2>1. /\ n \in 1 .. Len(log[s]) /\ q \in Runs
        /\ q # r => <<2, s, n>> \in seen
        /\ event'[q].attempts > 0
    <3>1. CASE <<2, s, n>> \in seen
      <4>1. n \in 1 .. Len(log[s]) /\ q \in Runs /\ event[q].attempts > 0
        BY <1>0, <3>1 DEF HeardInv, HeardOnce
      <4>2. event[r].attempts \in Nat /\ e.attempts \in Nat
        BY <1>0, <1>1 DEF EventType
      <4> QED BY <1>0, <1>1, <3>1, <4>1, <4>2
    <3>2. CASE <<2, s, n>> \notin seen
      BY <1>0, <1>1, <1>5, <3>2 DEF NewlyHeard
    <3> QED BY <3>1, <3>2
  <2>2. ASSUME NEW u \in Workers, hand'[u].stage # "idle", hand'[u].run = q
        PROVE  event'[hand'[u].run].attempts > 1 \/ Past(u)'
    <3>1. CASE u = w
      BY <1>0, <1>1, <1>5, <2>1, <2>2, <3>1 DEF NeverHeard
    <3>2. CASE u # w
      <4>1. hand'[u] = hand[u] /\ q # r /\ event'[q] = event[q]
        BY <1>0, <1>1, <1>2, <2>1, <2>2, <3>2
      <4>2. event[q].attempts > 1 \/ Past(u)
        BY <1>0, <2>1, <2>2, <4>1 DEF HeardInv, HeardOnce
      <4> QED BY <2>2, <4>1, <4>2 DEF Past
    <3> QED BY <3>1, <3>2
  <2> QED BY <1>0, <2>1, <2>2 DEF HeardOnce
<1> QED BY <1>3, <1>4, <1>5 DEF HeardInv, HeardOnce

\* What the semantic part of a worker's event heard is past it.
LEMMA HeardWorker ==
    ASSUME ProjectionInv, HeardInv, NEW w \in Workers,
           \/ \E r \in Runs : Claim(w, r)
           \/ Read(w) \/ ProjectEpisode(w) \/ ProjectFacts(w) \/ ReadCore(w)
           \/ ReplaceCore(w) \/ Advance(w) \/ Fault(w) \/ Crash(w)
    PROVE  HeardInv'
<1>1. log' = log /\ log \in [Sessions -> Seq(RowType)] /\ event \in [Runs -> EventType]
  BY DEF Claim, Read, ProjectEpisode, ProjectFacts, ReadCore, ReplaceCore, Advance, Fault, Crash,
         conversation, ProjectionInv, ProjectionTypeOK
<1>2. HeldOK(w) /\ hand[w] \in HandType /\ (hand[w].stage # "idle" => hand[w].run \in Runs)
  BY HandTypes DEF HeardInv, ProjectionInv, ProjectionTypeOK
<1>3. CASE \E r \in Runs : Claim(w, r)
  <2>1. PICK r \in Runs : Claim(w, r)
    BY <1>3
  <2> DEFINE attempts == event[r].attempts + 1
             e1 == [event[r] EXCEPT !.status = "processing", !.owner = w, !.due = FALSE]
             e  == [e1 EXCEPT !.attempts = attempts]
             h1 == [Idle EXCEPT !.run = r]
             h  == [h1 EXCEPT !.stage = "reading"]
  <2>2. /\ event[r] \in EventType /\ event[r].status = "pending" /\ attempts \in Nat
        /\ attempts > 0 /\ attempts >= event[r].attempts /\ hand[w].stage = "idle"
        /\ attempts > 1 \/ event[r].attempts = 0
    <3>1. event[r] \in EventType
      BY <1>1
    <3>2. event[r].attempts \in Nat
      BY <3>1 DEF EventType
    <3>3. event[r].status = "pending" /\ hand[w].stage = "idle"
      BY <2>1 DEF Claim
    <3>4. attempts \in Nat /\ attempts > 0 /\ attempts >= event[r].attempts
          /\ (attempts > 1 \/ event[r].attempts = 0)
      BY <3>2
    <3> QED BY <3>1, <3>3, <3>4
  <2>3. event' = [event EXCEPT ![r] = e] /\ hand' = [hand EXCEPT ![w] = h] /\ seen' = seen
    BY <2>1, <2>2 DEF Claim, EventType, projections
  <2> HIDE DEF attempts
  <2>4. e1 \in EventType /\ e1.status = "processing" /\ e1.owner = w
    BY <2>2 DEF EventType
  <2> HIDE DEF e1
  <2>5. e \in EventType /\ e.status = "processing" /\ e.owner = w /\ e.attempts = attempts
    BY <2>2, <2>4 DEF EventType
  <2>6. h \in HandType /\ h.run = r
    <3>1. h1 \in HandType /\ h1.run = r
      BY DEF Idle, HandType, Runs
    <3> HIDE DEF h1
    <3> QED BY <3>1 DEF HandType
  <2> HIDE DEF e, h
  <2>7. NeverHeard(r)' \/ e.attempts > 1
    <3>1. event[r].attempts = 0 => NeverHeard(r)
      BY DEF HeardInv, HeardOnce, NeverHeard
    <3>2. NeverHeard(r) => NeverHeard(r)'
      BY <1>1, <2>3 DEF NeverHeard
    <3> QED BY <2>2, <2>5, <3>1, <3>2
  <2>8. HeardMove(w, h, r, e)
    BY <1>1, <2>2, <2>3, <2>5, <2>6, <2>7 DEF HeardMove
  <2> QED BY <2>5, <2>6, <2>8, HeardMoves
<1>4. ASSUME hand[w].stage # "idle", NEW e \in EventType, e.status # "none",
             e.attempts = event[hand[w].run].attempts, event' = [event EXCEPT ![hand[w].run] = e],
             hand' = [hand EXCEPT ![w] = Idle], seen' = seen
      PROVE  HeardInv'
  <2>0. PICK r \in Runs : r = hand[w].run
    BY <1>2, <1>4
  <2>1. e.attempts >= event[r].attempts
    <3>1. event[r] \in EventType /\ event[r].attempts \in Nat
      BY <1>1 DEF EventType
    <3> QED BY <1>4, <2>0, <3>1
  <2>2. /\ hand[w].stage # "idle" => hand[w].run = r
        /\ hand[w].stage = "idle" => event[r].status = "pending"
    BY <1>4, <2>0
  <2>3. event' = [event EXCEPT ![r] = e]
    BY <1>4, <2>0
  <2>4. PICK h \in HandType : h = Idle
    BY IdleType
  <2>5. /\ hand' = [hand EXCEPT ![w] = h] /\ h.stage = "idle"
        /\ IF hand[w].stage = "idle" THEN event[r].status = "pending" ELSE hand[w].run = r
    BY <1>4, <2>2, <2>4, IdleType
  <2>6. log' = log /\ seen' = seen /\ e.status # "none"
    BY <1>1, <1>4
  <2>7. HeardMove(w, h, r, e)
    BY <2>1, <2>3, <2>5, <2>6 DEF HeardMove
  <2> QED BY <2>7, HeardMoves
<1>5. ASSUME hand[w].stage # "idle", GiveBack(w), seen' = seen PROVE HeardInv'
  <2> DEFINE r      == hand[w].run
             status == IF event[r].attempts >= MaxAttempts THEN "dead_letter" ELSE "pending"
             e      == [event[r] EXCEPT !.owner = NULL, !.status = status]
  <2>1. event' = [event EXCEPT ![r] = e] /\ hand' = [hand EXCEPT ![w] = Idle]
    BY <1>5 DEF GiveBack, Failed
  <2>2. event[r] \in EventType /\ status \in {"dead_letter", "pending"}
    BY <1>1, <1>2, <1>5
  <2> HIDE DEF status
  <2>3. e \in EventType /\ e.status = status /\ e.attempts = event[r].attempts
    BY <2>2 DEF EventType
  <2> HIDE DEF e
  <2> QED BY <1>4, <1>5, <2>1, <2>2, <2>3
<1>6. CASE Crash(w)
  <2> DEFINE r == hand[w].run
             e == [event[r] EXCEPT !.status = "pending", !.owner = NULL, !.due = TRUE]
  <2>1. /\ event' = [event EXCEPT ![r] = e] /\ hand' = [hand EXCEPT ![w] = Idle]
        /\ hand[w].stage # "idle" /\ seen' = seen
    BY <1>6 DEF Crash, projections
  <2>2. event[r] \in EventType
    BY <1>1, <1>2, <2>1
  <2>3. e \in EventType /\ e.status = "pending" /\ e.attempts = event[r].attempts
    BY <2>2 DEF EventType
  <2> HIDE DEF e
  <2> QED BY <1>4, <2>1, <2>3
<1>7. ASSUME hand[w].stage # "idle", event' = event, NEW h \in HandType,
             hand' = [hand EXCEPT ![w] = h], h.run = hand[w].run,
             Past(w) => Past(w)', seen' = seen \/ (Saw(w) /\ (hand[w].processor = 2 => Past(w)'))
      PROVE  HeardInv'
  <2>0. PICK r \in Runs : r = hand[w].run
    BY <1>2, <1>7
  <2>1. PICK e \in EventType : e = event[r]
    BY <1>1
  <2>2. /\ event' = [event EXCEPT ![r] = e] /\ e.status = "processing" /\ e.owner = w
        /\ e.attempts > 0 /\ e.attempts >= event[r].attempts
    <3>1. e.attempts \in Nat
      BY DEF EventType
    <3> QED BY <1>1, <1>2, <1>7, <2>0, <2>1, <3>1 DEF HeldOK
  <2>3. ASSUME NEW s \in Sessions, NEW n \in Nat, <<2, s, n>> \in seen', <<2, s, n>> \notin seen
        PROVE  n \in 1 .. Len(log[s]) /\ log[s][n].run = r /\ Past(w)'
    <3>1. n \in Batch(w) /\ s = SessionOf(w) /\ hand[w].processor = 2
      BY <1>7, <2>3 DEF Saw
    <3>2. n \in 1 .. Len(log[s]) /\ log[s][n].run = r
      BY <2>0, <3>1 DEF Batch, Numbers, SessionOf
    <3> QED BY <1>7, <2>3, <3>1, <3>2
  <2>4. NewlyHeard(r)
    BY <2>3 DEF NewlyHeard
  <2>5. NeverHeard(r)' \/ e.attempts > 1 \/ Past(w)'
    <3> SUFFICES ASSUME ~NeverHeard(r)' PROVE e.attempts > 1 \/ Past(w)'
      OBVIOUS
    <3>1. PICK s \in Sessions, n \in Nat : <<2, s, n>> \in seen' /\ log[s][n].run = r
      BY <1>1 DEF NeverHeard
    <3>2. CASE <<2, s, n>> \in seen
      <4>1. e.attempts > 1 \/ Past(w)
        BY <1>7, <2>0, <2>1, <3>1, <3>2 DEF HeardInv, HeardOnce
      <4> QED BY <1>7, <4>1
    <3>3. CASE <<2, s, n>> \notin seen
      BY <2>3, <3>1, <3>3
    <3> QED BY <3>2, <3>3
  <2>6. /\ hand[w].stage # "idle" => hand[w].run = r
        /\ hand[w].stage = "idle" => event[r].status = "pending"
        /\ h.run = r /\ e.status # "none"
        /\ seen' = seen \/ (NewlyHeard(r) /\ e.attempts > 0)
    BY <1>7, <2>0, <2>2, <2>4
  <2>7. HeardMove(w, h, r, e)
    BY <1>1, <1>7, <2>2, <2>5, <2>6 DEF HeardMove
  <2> QED BY <1>7, <2>7, HeardMoves
<1>8. ASSUME hand[w].stage # "idle", Proceed(w), seen' = seen PROVE HeardInv'
  <2>1. CASE hand[w].processor < 3
    <3> DEFINE next == hand[w].processor + 1
               h1   == [hand[w] EXCEPT !.processor = next]
               h    == [h1 EXCEPT !.stage = "reading", !.read = {}]
    <3>1. event' = event /\ hand' = [hand EXCEPT ![w] = h]
      BY <1>2, <1>8, <2>1 DEF Proceed, HandType
    <3>2. next \in 1 .. 3 /\ (Past(w) => next > 2)
      BY <1>2, <2>1 DEF HandType, Past
    <3> HIDE DEF next
    <3>3. h1 \in HandType /\ h1.processor = next /\ h1.run = hand[w].run
      BY <1>2, <3>2 DEF HandType
    <3> HIDE DEF h1
    <3>4. h \in HandType /\ h.processor = next /\ h.run = hand[w].run
      BY <3>3 DEF HandType
    <3> HIDE DEF h
    <3>5. hand'[w] = h
      BY <3>1 DEF ProjectionInv, ProjectionTypeOK
    <3>6. Past(w) => Past(w)'
      BY <3>2, <3>4, <3>5 DEF Past
    <3> QED BY <1>7, <1>8, <3>1, <3>4, <3>6
  <2>2. CASE ~(hand[w].processor < 3)
    <3> DEFINE r == hand[w].run
               e == [event[r] EXCEPT !.status = "processed", !.owner = NULL]
    <3>1. event' = [event EXCEPT ![r] = e] /\ hand' = [hand EXCEPT ![w] = Idle]
      BY <2>2, <1>8 DEF Proceed
    <3>2. event[r] \in EventType
      BY <1>1, <1>2, <1>8
    <3>3. e \in EventType /\ e.status = "processed" /\ e.attempts = event[r].attempts
      BY <3>2 DEF EventType
    <3> HIDE DEF e
    <3> QED BY <1>4, <1>8, <3>1, <3>3
  <2> QED BY <2>1, <2>2
<1>9. ASSUME NEW h \in HandType, hand[w].stage \in {"reading", "handling"}, h.run = hand[w].run,
             h.processor = hand[w].processor, hand' = [hand EXCEPT ![w] = h], event' = event,
             seen' = seen
      PROVE  HeardInv'
  <2>1. hand'[w] = h
    BY <1>9 DEF ProjectionInv, ProjectionTypeOK
  <2>2. Past(w) => Past(w)'
    BY <1>9, <2>1 DEF Past
  <2> QED BY <1>7, <1>9, <2>2
<1>10. CASE Read(w)
  <2>1. CASE hand' = [hand EXCEPT ![w] = [@ EXCEPT !.stage = "handling", !.base = Position(w)]]
             /\ event' = event
    <3> DEFINE at == Position(w)
               h  == [hand[w] EXCEPT !.stage = "handling", !.base = at]
    <3>1. at \in Nat /\ hand[w].stage = "reading" /\ seen' = seen
      BY <1>10, HandTypes DEF Read, projections
    <3>2. hand' = [hand EXCEPT ![w] = h]
      BY <2>1
    <3> HIDE DEF at
    <3>3. h \in HandType /\ h.run = hand[w].run /\ h.processor = hand[w].processor
      BY <1>2, <3>1 DEF HandType
    <3> HIDE DEF h
    <3> QED BY <1>9, <2>1, <3>1, <3>2, <3>3
  <2>2. hand[w].stage # "idle" /\ seen' = seen
    BY <1>10 DEF Read, projections
  <2> QED BY <1>5, <1>8, <1>10, <2>1, <2>2 DEF Read
<1>11. CASE ReadCore(w)
  <2> DEFINE facts == CoreFacts
             h     == [hand[w] EXCEPT !.stage = "replacing", !.read = facts]
  <2>1. /\ hand' = [hand EXCEPT ![w] = h] /\ hand[w].stage = "handling" /\ event' = event
        /\ seen' = seen
    BY <1>11 DEF ReadCore, Handling, projections
  <2>2. facts \subseteq Int
    BY DEF CoreFacts, Active, Facts
  <2> HIDE DEF facts
  <2>3. h \in HandType /\ h.run = hand[w].run /\ h.processor = hand[w].processor
    BY <1>2, <2>2 DEF HandType
  <2> HIDE DEF h
  <2> QED BY <1>9, <2>1, <2>3
<1>12. CASE ProjectEpisode(w) \/ ProjectFacts(w) \/ ReplaceCore(w)
  <2> DEFINE h == [hand[w] EXCEPT !.stage = "advancing"]
  <2>1. /\ hand' = [hand EXCEPT ![w] = h] /\ hand[w].stage \in {"handling", "replacing"}
        /\ event' = event /\ Saw(w)
    BY <1>12 DEF ProjectEpisode, ProjectFacts, ReplaceCore, Handled, Handling
  <2>2. /\ h \in HandType /\ h.run = hand[w].run /\ h.processor = hand[w].processor
        /\ h.stage = "advancing"
    BY <1>2 DEF HandType
  <2> HIDE DEF h
  <2>3. hand'[w] = h
    BY <2>1 DEF ProjectionInv, ProjectionTypeOK
  <2>4. (Past(w) => Past(w)') /\ (hand[w].processor = 2 => Past(w)')
    BY <2>2, <2>3 DEF Past
  <2> QED BY <1>7, <2>1, <2>2, <2>4
<1>13. CASE Advance(w) \/ Fault(w)
  <2>1. hand[w].stage # "idle" /\ (Proceed(w) \/ GiveBack(w)) /\ seen' = seen
    BY <1>13 DEF Advance, Fault, projections
  <2> QED BY <1>5, <1>8, <2>1
<1> QED BY <1>3, <1>6, <1>10, <1>11, <1>12, <1>13

\* An event becomes due, or nothing that the invariant names is touched.
LEMMA HeardRests ==
    ASSUME ProjectionInv, HeardInv, UNCHANGED <<log, hand, seen>>,
           \A r \in Runs : /\ event'[r].status = event[r].status /\ event'[r].owner = event[r].owner
                           /\ event'[r].attempts = event[r].attempts
    PROVE  HeardInv'
<1>1. \A w \in Workers : hand[w].stage # "idle" => hand[w].run \in Runs
  BY HandTypes
<1>2. \A w \in Workers : HeldOK(w)'
  BY <1>1 DEF HeardInv, HeldOK
<1>3. ASSUME NEW s \in Sessions, NEW n \in Nat PROVE HeardOnce(s, n)'
  <2>1. HeardOnce(s, n) /\ \A w \in Workers : Past(w)' <=> Past(w)
    BY DEF HeardInv, Past
  <2> QED BY <1>1, <2>1 DEF HeardOnce
<1> QED BY <1>2, <1>3 DEF HeardInv

LEMMA HeardNext ==
    ASSUME ProjectionInv, HeardInv, [ProjectionNext]_memory
    PROVE  HeardInv'
<1>1. CASE \/ \E s \in Chats, v \in Values : Post(s, v)
           \/ \E s \in Children : Post(s, NULL)
           \/ \E r \in Runs, s \in Sessions : Queue(r, s)
           \/ \E r \in Runs : Start(r) \/ Write(r) \/ Finish(r) \/ FailEarly(r) \/ Reconcile(r)
  BY <1>1, HeardConversation
<1>2. CASE \/ \E w \in Workers, r \in Runs : Claim(w, r)
           \/ \E w \in Workers : Read(w) \/ ProjectEpisode(w) \/ ProjectFacts(w) \/ ReadCore(w)
           \/ \E w \in Workers : ReplaceCore(w) \/ Advance(w) \/ Fault(w) \/ Crash(w)
  BY <1>2, HeardWorker
<1>3. CASE \E r \in Runs : RetryDue(r)
  <2>1. PICK r \in Runs : RetryDue(r)
    BY <1>3
  <2>2. UNCHANGED <<log, hand, seen>>
    BY <2>1 DEF RetryDue, conversation, projections
  <2> DEFINE e == [event[r] EXCEPT !.due = TRUE]
  <2>3. event' = [event EXCEPT ![r] = e] /\ event \in [Runs -> EventType]
    BY <2>1 DEF RetryDue, ProjectionInv, ProjectionTypeOK
  <2>4. /\ e.status = event[r].status /\ e.owner = event[r].owner
        /\ e.attempts = event[r].attempts
    BY <2>3 DEF EventType
  <2> HIDE DEF e
  <2>5. \A q \in Runs : /\ event'[q].status = event[q].status /\ event'[q].owner = event[q].owner
                        /\ event'[q].attempts = event[q].attempts
    BY <2>3, <2>4
  <2> QED BY <2>2, <2>5, HeardRests
<1>4. CASE \/ \E r \in Runs : DeleteEpisode(r)
           \/ \E f \in Facts : Forget(f) \/ Promote(f)
           \/ RequestRebuild \/ RebuildRead \/ RebuildReplace
           \/ UNCHANGED memory
  <2>1. UNCHANGED <<log, event, hand, seen>>
    BY <1>4 DEF DeleteEpisode, Forget, Promote, RequestRebuild, RebuildRead, RebuildReplace,
                memory, conversation, projections
  <2> QED BY <2>1, HeardRests
<1> QED BY <1>1, <1>2, <1>3, <1>4 DEF ProjectionNext

LEMMA HeardInit == ProjectionInit => HeardInv
<1> SUFFICES ASSUME ProjectionInit PROVE HeardInv
  OBVIOUS
<1>1. seen = {} /\ (\A r \in Runs : event[r].attempts = 0)
      /\ \A w \in Workers : hand[w].stage = "idle"
  BY DEF ProjectionInit, NoEvent, Idle
<1> QED BY <1>1 DEF HeardInv, HeardOnce, HeldOK

\* A candidate is a subagent's finding, and no user's value.
NoValue == \A f \in Facts : fact[f].status = "candidate" => fact[f].value \notin Values

\* Rows that were there keep their values and become active only from a candidate;
\* one row may be added.
ValuesKept ==
    \A f \in Facts : /\ fact'[f].value = fact[f].value
                     /\ fact'[f].status = "active" => fact[f].status \in {"active", "candidate"}
                     /\ fact'[f].status = "candidate" => fact[f].status = "candidate"
Added == Facts' = Facts \/ Facts' = Facts \cup {Len(fact) + 1}
NewRow == fact'[Len(fact) + 1]

LEMMA ValuesStep ==
    ASSUME NoValue, ValuesKept, Added,
           Facts' = Facts \/ NewRow.status = "active" \/ NewRow.value = NULL
    PROVE  /\ NoValue'
           /\ \A v \in Values : ~Remembered(v) /\ Remembered(v)' =>
                 Facts' # Facts /\ NewRow.status = "active" /\ NewRow.value = v
<1>1. NULL \notin Values
  BY MemoryAssumption
<1>2. NoValue'
  BY <1>1 DEF NoValue, ValuesKept, Added, NewRow
<1>3. ASSUME NEW v \in Values, ~Remembered(v), Remembered(v)'
      PROVE  Facts' # Facts /\ NewRow.status = "active" /\ NewRow.value = v
  <2>1. PICK f \in Facts' : fact'[f].status = "active" /\ fact'[f].value = v
    BY <1>3 DEF Remembered, Active
  <2>2. f \notin Facts
    BY <1>3, <2>1 DEF Remembered, Active, ValuesKept, NoValue
  <2> QED BY <2>1, <2>2 DEF Added, NewRow
<1> QED BY <1>2, <1>3

LEMMA ValuesRest ==
    ASSUME UNCHANGED fact
    PROVE  ValuesKept /\ Added /\ Facts' = Facts
BY DEF ValuesKept, Added, Facts

\* A row is marked.
LEMMA MarkedValues ==
    ASSUME FactsInv, NEW f \in Facts, NEW status \in {"active", "deleted"},
           fact' = Marked(f, status), status = "active" => fact[f].status = "candidate"
    PROVE  ValuesKept /\ Added /\ Facts' = Facts
<1> DEFINE row == [fact[f] EXCEPT !.status = status]
           new == [fact EXCEPT ![f] = row]
<1>1. fact[f] \in FactType
  BY FactRow
<1>2. row \in FactType /\ row.status = status /\ row.value = fact[f].value
  BY <1>1 DEF FactType
<1>3. fact' = new
  BY DEF Marked
<1> HIDE DEF row
<1>4. /\ Len(new) = Len(fact) /\ \A g \in Facts : new[g] = IF g = f THEN row ELSE fact[g]
  BY <1>2, ExceptSeq DEF FactsInv, Facts
<1> HIDE DEF new
<1> QED BY <1>2, <1>3, <1>4 DEF ValuesKept, Added, Facts

\* A row is added to the rows that were there.
LEMMA AddedValues ==
    ASSUME FactsInv, NEW old, DOMAIN old = Facts, old \in Seq(FactType), NEW row \in FactType,
           fact' = Append(old, row),
           \A f \in Facts : /\ old[f].value = fact[f].value
                            /\ old[f].status \in {fact[f].status, "superseded"}
    PROVE  ValuesKept /\ Added /\ NewRow = row
<1>1. Len(fact) \in Nat /\ Len(old) = Len(fact)
  BY DEF FactsInv, Facts
<1>2. /\ Len(fact') = Len(fact) + 1 /\ fact'[Len(fact) + 1] = row
      /\ \A f \in Facts : fact'[f] = old[f]
  BY <1>1 DEF Facts
<1>3. Facts' = Facts \cup {Len(fact) + 1}
  BY <1>1, <1>2 DEF Facts
<1> QED BY <1>2, <1>3 DEF ValuesKept, Added, NewRow

\* activate_semantic_memory adds the value that was said.
LEMMA ActivateValues ==
    ASSUME ProjectionInv, FactsInv, NEW value \in Values, NEW r \in Runs, Activate(value, r)
    PROVE  /\ ValuesKept /\ Added
           /\ Facts' = Facts \/ (NewRow.status = "active" /\ NewRow.value = value)
<1> DEFINE current == ActiveOf(0)
           versions == {fact[f].version : f \in current}
           version == IF current = {} THEN 1 ELSE 1 + Max(versions)
           old     == [f \in Facts |-> IF f \in current
                                       THEN [fact[f] EXCEPT !.status = "superseded"]
                                       ELSE fact[f]]
           row     == [key |-> 0, value |-> value, status |-> "active", version |-> version,
                       source |-> r, kind |-> "primary"]
<1>1. CASE UNCHANGED fact
  BY <1>1, ValuesRest
<1>2. CASE fact' = Append(old, row)
  <2>1. ASSUME NEW f \in Facts
        PROVE  /\ old[f] \in FactType /\ old[f].value = fact[f].value
               /\ old[f].status \in {fact[f].status, "superseded"}
    <3>1. fact[f] \in FactType
      BY FactRow
    <3> DEFINE gone == [fact[f] EXCEPT !.status = "superseded"]
    <3>2. gone \in FactType /\ gone.status = "superseded" /\ gone.value = fact[f].value
      BY <3>1 DEF FactType
    <3>3. old[f] = IF f \in current THEN gone ELSE fact[f]
      OBVIOUS
    <3> HIDE DEF gone, old, current
    <3> QED BY <3>1, <3>2, <3>3
  <2>2. DOMAIN old = Facts /\ old \in Seq(FactType)
    <3>1. DOMAIN old = Facts /\ Len(fact) \in Nat /\ old \in [1 .. Len(fact) -> FactType]
      BY <2>1 DEF Facts, FactsInv
    <3> HIDE DEF old
    <3> QED BY <3>1
  <2>3. row \in FactType /\ row.status = "active" /\ row.value = value
    <3>1. version \in Nat
      <4>1. CASE current # {}
        <5>1. versions \in SUBSET (0 .. Len(fact)) /\ versions # {} /\ Len(fact) \in Nat
          <6>1. \A f \in current : fact[f].version \in Nat /\ fact[f].version <= Len(fact)
            BY FactRow DEF FactType, ActiveOf, Active
          <6> QED BY <4>1, <6>1 DEF FactsInv
        <5> HIDE DEF versions
        <5>2. Max(versions) \in versions
          BY <5>1, GreatestIs
        <5>3. Max(versions) \in 0 .. Len(fact)
          BY <5>1, <5>2
        <5>4. version = 1 + Max(versions)
          BY <4>1
        <5> HIDE DEF version
        <5> QED BY <5>1, <5>3, <5>4
      <4> QED BY <4>1
    <3>2. 0 \in 0 .. MaxRuns
      BY MemoryAssumption
    <3> HIDE DEF version
    <3> QED BY <3>1, <3>2 DEF FactType
  <2> HIDE DEF old, row
  <2> QED BY <1>2, <2>1, <2>2, <2>3, AddedValues
<1> QED BY <1>1, <1>2 DEF Activate

\* put_semantic_candidate_once adds no value of a user.
LEMMA PutOnceValues ==
    ASSUME FactsInv, NEW r \in Runs, PutOnce(r)
    PROVE  /\ ValuesKept /\ Added
           /\ Facts' = Facts \/ (NewRow.value = NULL /\ NewRow.status = "candidate")
<1>1. CASE UNCHANGED fact
  BY <1>1, ValuesRest
<1>2. CASE fact' = Append(fact, Finding(r))
  <2>1. /\ Finding(r) \in FactType /\ Finding(r).status = "candidate"
        /\ Finding(r).value = NULL
    BY DEF Finding, FactType, Runs
  <2>2. DOMAIN fact = Facts /\ fact \in Seq(FactType)
    BY DEF FactsInv, Facts
  <2> QED BY <1>2, <2>1, <2>2, AddedValues
<1> QED BY <1>1, <1>2 DEF PutOnce

\* A value is remembered only for a message that is new to the semantic processor,
\* or for an event that is given out again.
Heard == \A v \in Values : ~Remembered(v) /\ Remembered(v)' => \E w \in Workers : Hears(w, v)

LEMMA HeardFacts ==
    ASSUME ProjectionInv, FactsInv, HeardInv, NoValue, NEW w \in Workers, ProjectFacts(w)
    PROVE  NoValue' /\ Heard
<1> DEFINE r == hand[w].run
           s == SessionOf(w)
<1>1. /\ hand[w].stage = "handling" /\ Processors[hand[w].processor] = "semantic"
      /\ Handling(w, "semantic")
  BY DEF ProjectFacts, Handling
<1>2. r \in Runs /\ s \in Sessions /\ HeldOK(w) /\ hand[w] \in HandType
  BY <1>1, HandTypes DEF HeardInv
<1>3. CASE UNCHANGED fact
  BY <1>3, ValuesRest, ValuesStep DEF Heard
<1>4. CASE PutOnce(r)
  <2>1. NULL \notin Values
    BY MemoryAssumption
  <2> QED BY <1>2, <1>4, <2>1, PutOnceValues, ValuesStep DEF Heard
<1>5. CASE \E n \in Said(w) : Activate(log[s][n].says, r)
  <2>1. PICK n \in Said(w) : Activate(log[s][n].says, r)
    BY <1>5
  <2>2. n \in 1 .. Len(log[s]) /\ log[s][n].says # NULL /\ log[s][n].run = r /\ n \in Nat
    <3>1. n \in Numbers(r) /\ log[s][n].says # NULL
      BY <2>1 DEF Said, Batch
    <3>2. n \in 1 .. Len(log[s]) /\ log[s][n].run = r
      BY <3>1 DEF Numbers, SessionOf
    <3>3. Len(log[s]) \in Nat
      BY <1>2 DEF ProjectionInv, ProjectionTypeOK
    <3> QED BY <3>1, <3>2, <3>3
  <2>3. PICK value \in Values : value = log[s][n].says
    <3>1. log[s] \in Seq(RowType)
      BY <1>2 DEF ProjectionInv, ProjectionTypeOK
    <3>2. log[s][n] \in RowType
      BY <2>2, <3>1, ElementOfSeq
    <3> QED BY <2>2, <3>2 DEF RowType
  <2>4. /\ ValuesKept /\ Added
        /\ Facts' = Facts \/ (NewRow.status = "active" /\ NewRow.value = value)
    <3>1. PICK q \in Runs : q = r
      BY <1>2
    <3> QED BY <2>1, <2>3, <3>1, ActivateValues
  <2>5. <<2, s, n>> \notin seen \/ event[r].attempts > 1
    <3>1. hand[w].processor = 2
      BY <1>1, <1>2 DEF HandType, Processors
    <3>2. ~Past(w)
      BY <1>1, <3>1 DEF Past
    <3> QED BY <1>1, <1>2, <2>2, <3>2 DEF HeardInv, HeardOnce
  <2>6. \A v \in Values : v = value => Hears(w, v)
    BY <1>1, <2>1, <2>3, <2>5 DEF Hears
  <2> QED BY <2>4, <2>6, ValuesStep DEF Heard
<1> QED BY <1>3, <1>4, <1>5 DEF ProjectFacts

LEMMA HeardSteps ==
    ASSUME ProjectionInv, FactsInv, HeardInv, NoValue, [ProjectionNext]_memory
    PROVE  NoValue' /\ Heard
<1>1. CASE \/ \E s \in Chats, v \in Values : Post(s, v)
           \/ \E s \in Children : Post(s, NULL)
           \/ \E r \in Runs, s \in Sessions : Queue(r, s)
           \/ \E r \in Runs : Start(r) \/ Write(r) \/ Finish(r) \/ FailEarly(r) \/ Reconcile(r)
           \/ \E r \in Runs : RetryDue(r) \/ DeleteEpisode(r)
           \/ \E w \in Workers, r \in Runs : Claim(w, r)
           \/ RequestRebuild \/ RebuildRead \/ RebuildReplace
           \/ UNCHANGED memory
  <2>1. UNCHANGED fact
    BY <1>1 DEF Post, Queue, Start, Write, Finish, FailEarly, Reconcile, RetryDue, DeleteEpisode,
                Claim, RequestRebuild, RebuildRead, RebuildReplace, memory, projections
  <2> QED BY <2>1, ValuesRest, ValuesStep DEF Heard
<1>2. CASE \/ \E w \in Workers : Read(w) \/ ProjectEpisode(w) \/ ReadCore(w)
           \/ \E w \in Workers : ReplaceCore(w) \/ Advance(w) \/ Fault(w) \/ Crash(w)
  <2>1. UNCHANGED fact
    BY <1>2 DEF Read, ProjectEpisode, ReadCore, ReplaceCore, Advance, Fault, Crash, projections
  <2> QED BY <2>1, ValuesRest, ValuesStep DEF Heard
<1>3. CASE \E w \in Workers : ProjectFacts(w)
  BY <1>3, HeardFacts
<1>4. CASE \E f \in Facts : Forget(f)
  BY <1>4, MarkedValues, ValuesStep DEF Forget, Heard
<1>5. CASE \E f \in Facts : Promote(f)
  BY <1>5, MarkedValues, ValuesStep DEF Promote, Promotable, Heard
<1> QED BY <1>1, <1>2, <1>3, <1>4, <1>5 DEF ProjectionNext

\* The inductive invariant of what was heard, above those of the worker and the facts.
THEOREM HeardInvariantHolds ==
    ProjectionSpec => [](ProjectionInv /\ FactsInv /\ HeardInv /\ NoValue)
<1>1. ProjectionInit => NoValue
  BY DEF ProjectionInit, NoValue, Facts
<1>2. ProjectionInv /\ FactsInv /\ HeardInv /\ NoValue /\ [ProjectionNext]_memory
      => HeardInv' /\ NoValue'
  BY HeardNext, HeardSteps
<1> QED BY <1>1, <1>2, HeardInit, FactsInvariantHolds, PTL DEF ProjectionSpec

\* GovernanceIsFinal: what was decided about a fact stands.  No replay of an event and no
\* request brings back a row that was superseded or deleted, or makes a candidate of one
\* that was promoted (put_semantic_candidate_once); and while an event is handled for the
\* first time, a value that no active row holds is remembered only for a message that the
\* semantic processor had not handled before (activate_semantic_memory).
THEOREM DecisionsStand == ProjectionSpec => GovernanceIsFinal
<1> DEFINE Stands ==
        /\ \A f \in Facts :
             /\ fact[f].status = "active" => fact'[f].status # "candidate"
             /\ fact[f].status = "superseded" => fact'[f].status \in {"superseded", "deleted"}
             /\ fact[f].status = "deleted" => fact'[f].status = "deleted"
        /\ \A v \in Values :
             ~Remembered(v) /\ Remembered(v)' => \E w \in Workers : Hears(w, v)
<1>1. ProjectionInv /\ FactsInv /\ HeardInv /\ NoValue /\ [ProjectionNext]_memory
      => [Stands]_memory
  BY StepsLetGoOn, HeardSteps DEF FactsGoOn, Heard
<1> HIDE DEF Stands
<1>2. ProjectionSpec => [][Stands]_memory
  BY <1>1, HeardInvariantHolds, PTL DEF ProjectionSpec
<1> QED BY <1>2 DEF GovernanceIsFinal, Stands

-----------------------------------------------------------------------------
(* Folds over finite sets, and sums.                                       *)

\* Induction, as a set of numbers that has them all.
LEMMA NatInduct ==
    ASSUME NEW P, 0 \in P, \A n \in Nat : n \in P => n + 1 \in P
    PROVE  Nat \subseteq P
<1> SUFFICES ASSUME Nat \ P # {} PROVE FALSE
  OBVIOUS
<1> DEFINE m == Min(Nat \ P)
<1>1. m \in Nat \ P /\ \A n \in Nat \ P : m <= n
  BY LeastIs
<1> HIDE DEF m
<1>2. m # 0 /\ m - 1 \in Nat
  BY <1>1
<1>3. m - 1 \in P
  BY <1>1, <1>2
<1>4. (m - 1) + 1 = m
  BY <1>1
<1> QED BY <1>1, <1>2, <1>3, <1>4

\* A set that has a finite set as soon as it has the set without any one element.
Inductive(D, P) ==
    IsFiniteSet(D) /\ \A s \in SUBSET D : (\A x \in s : s \ {x} \in P) => s \in P

\* Induction over the subsets of a finite set, as a set that has them all.
LEMMA SubsetInduct ==
    ASSUME NEW D, NEW P, Inductive(D, P)
    PROVE  SUBSET D \subseteq P
<1> USE DEF Inductive
<1> DEFINE Sized(n) == \A s \in SUBSET D : Cardinality(s) = n => s \in P
           N == {n \in Nat : Sized(n)}
<1>1. ASSUME NEW s \in SUBSET D
      PROVE  IsFiniteSet(s) /\ Cardinality(s) \in Nat
  BY FS_Subset, FS_CardinalityType
<1>2. 0 \in N
  <2>1. ASSUME NEW s \in SUBSET D, Cardinality(s) = 0 PROVE s \in P
    <3>1. s = {}
      BY <1>1, <2>1, FS_EmptySet
    <3> QED BY <3>1
  <2> QED BY <2>1
<1>3. ASSUME NEW n \in Nat, n \in N PROVE n + 1 \in N
  <2>1. ASSUME NEW s \in SUBSET D, Cardinality(s) = n + 1 PROVE s \in P
    <3>1. ASSUME NEW x \in s PROVE s \ {x} \in P
      <4>1. Cardinality(s \ {x}) = n
        BY <1>1, <2>1, FS_RemoveElement
      <4> QED BY <1>3, <4>1
    <3> QED BY <3>1
  <2> QED BY <2>1
<1>4. Nat \subseteq N
  <2> HIDE DEF N
  <2> QED BY <1>2, <1>3, NatInduct
<1> QED BY <1>1, <1>4

\* What a fold over a finite set is made of: its first value, the function that takes it
\* on by an element, and the choice of elements; and what it gives.
Foldable(D, V, base, step, pick) ==
    /\ IsFiniteSet(D) /\ base \in V /\ step \in [D -> [V -> V]]
    /\ \A s \in SUBSET D : s # {} => pick[s] \in s

Folded(g, D, V, base, step, pick) ==
    /\ g \in [SUBSET D -> V]
    /\ \A s \in SUBSET D : g[s] = IF s = {} THEN base ELSE step[pick[s]][g[s \ {pick[s]}]]

\* A fold over the subsets of a finite set is a function.
LEMMA FoldExists ==
    ASSUME NEW D, NEW V, NEW base, NEW step, NEW pick, Foldable(D, V, base, step, pick)
    PROVE  \E g : Folded(g, D, V, base, step, pick)
<1> USE DEF Foldable
<1> DEFINE Small(n) == {s \in SUBSET D : Cardinality(s) <= n}
           Folds(g, n) == \A s \in Small(n) :
               g[s] = IF s = {} THEN base ELSE step[pick[s]][g[s \ {pick[s]}]]
           N == {n \in Nat : \E g \in [Small(n) -> V] : Folds(g, n)}
<1>1. ASSUME NEW s \in SUBSET D
      PROVE  IsFiniteSet(s) /\ Cardinality(s) \in Nat
  BY FS_Subset, FS_CardinalityType
<1>2. ASSUME NEW s \in SUBSET D, s # {}
      PROVE  /\ pick[s] \in s /\ pick[s] \in D /\ s \ {pick[s]} \in SUBSET D
             /\ Cardinality(s \ {pick[s]}) = Cardinality(s) - 1
  <2>1. pick[s] \in s
    BY <1>2
  <2> QED BY <1>1, <2>1, FS_RemoveElement
<1>3. 0 \in N
  <2> DEFINE g == [s \in Small(0) |-> base]
  <2>1. ASSUME NEW s \in Small(0) PROVE s = {}
    <3>1. Cardinality(s) = 0
      BY <1>1
    <3> QED BY <1>1, <3>1, FS_EmptySet
  <2>2. g \in [Small(0) -> V] /\ Folds(g, 0)
    BY <2>1
  <2> QED BY <2>2
<1>4. ASSUME NEW n \in Nat, n \in N PROVE n + 1 \in N
  <2>1. PICK g \in [Small(n) -> V] : Folds(g, n)
    BY <1>4
  <2> DEFINE More(s) == step[pick[s]][g[s \ {pick[s]}]]
             h == [s \in Small(n + 1) |-> IF s \in Small(n) THEN g[s] ELSE More(s)]
  <2>2. ASSUME NEW s \in Small(n + 1), s # {}
        PROVE  pick[s] \in D /\ s \ {pick[s]} \in Small(n) /\ s \ {pick[s]} \in Small(n + 1)
    <3>1. Cardinality(s) \in Nat /\ Cardinality(s) <= n + 1
      BY <1>1
    <3>2. pick[s] \in D /\ s \ {pick[s]} \in SUBSET D
          /\ Cardinality(s \ {pick[s]}) = Cardinality(s) - 1
      BY <1>2, <2>2
    <3> QED BY <3>1, <3>2
  <2>3. {} \in Small(n)
    BY FS_EmptySet
  <2>4. ASSUME NEW s \in Small(n + 1), s # {} PROVE More(s) \in V
    BY <2>2, <2>4
  <2>5. h \in [Small(n + 1) -> V]
    <3>1. ASSUME NEW s \in Small(n + 1) PROVE (IF s \in Small(n) THEN g[s] ELSE More(s)) \in V
      <4>1. CASE s \in Small(n)
        BY <4>1
      <4>2. CASE s \notin Small(n)
        BY <2>3, <2>4, <4>2
      <4> QED BY <4>1, <4>2
    <3> HIDE DEF Small, More
    <3> QED BY <3>1
  <2>6. ASSUME NEW s \in Small(n + 1)
        PROVE  h[s] = IF s = {} THEN base ELSE step[pick[s]][h[s \ {pick[s]}]]
    <3>1. CASE s = {}
      BY <2>1, <2>3, <3>1
    <3>2. CASE s # {}
      <4>1. s \ {pick[s]} \in Small(n) /\ s \ {pick[s]} \in Small(n + 1)
        BY <2>2, <3>2
      <4>2. h[s \ {pick[s]}] = g[s \ {pick[s]}]
        BY <4>1
      <4>3. h[s] = More(s)
        <5>1. CASE s \in Small(n)
          <6>1. h[s] = g[s]
            BY <5>1
          <6> QED BY <2>1, <3>2, <5>1, <6>1
        <5>2. CASE s \notin Small(n)
          BY <5>2
        <5> QED BY <5>1, <5>2
      <4> QED BY <3>2, <4>2, <4>3
    <3> QED BY <3>1, <3>2
  <2>7. Folds(h, n + 1)
    BY <2>6
  <2> HIDE DEF h, Folds, Small
  <2> QED BY <2>5, <2>7
<1>5. Nat \subseteq N
  <2> HIDE DEF N
  <2> QED BY <1>3, <1>4, NatInduct
<1>6. PICK g \in [Small(Cardinality(D)) -> V] : Folds(g, Cardinality(D))
  BY <1>1, <1>5
<1>7. Small(Cardinality(D)) = SUBSET D
  BY <1>1, FS_Subset
<1> QED BY <1>6, <1>7 DEF Folded

\* What SumFunction takes from a set, as an element of it.
OneOf(s) == CHOOSE y \in s : TRUE
SumOn(f) == CHOOSE h : h = [s \in SUBSET DOMAIN f |->
                               IF s = {} THEN 0 ELSE f[OneOf(s)] + h[s \ {OneOf(s)}]]

\* Numbers to add, and their sums, over any subset and in any order.
Summands(D, f) == IsFiniteSet(D) /\ f \in [D -> Nat]
Sums(D, f, h) ==
    /\ h \in [SUBSET D -> Nat] /\ h[{}] = 0
    /\ \A s \in SUBSET D : \A x \in s : h[s] = f[x] + h[s \ {x}]

LEMMA SumOnIs ==
    ASSUME NEW D, NEW f, Summands(D, f)
    PROVE  SumFunction(f) = SumOn(f)[D] /\ Sums(D, f, SumOn(f))
<1> USE DEF Summands
<1>1. SumFunction(f) = SumOn(f)[D]
  <2>1. DOMAIN f = D
    OBVIOUS
  <2>2. SumFunction(f) = SumOn(f)[DOMAIN f]
    BY Zenon DEF SumFunction, SumFunctionOnSet, FoldFunctionOnSet, MapThenFoldSet, SumOn, OneOf
  <2> QED BY <2>1, <2>2
<1>2. \A s \in SUBSET D : s # {} => OneOf(s) \in s
  BY DEF OneOf
<1>3. \E h : h = [s \in SUBSET DOMAIN f |-> IF s = {} THEN 0 ELSE f[OneOf(s)] + h[s \ {OneOf(s)}]]
  <2> DEFINE step == [x \in D |-> [v \in Nat |-> f[x] + v]]
             pick == [s \in SUBSET D |-> OneOf(s)]
  <2>1. step \in [D -> [Nat -> Nat]] /\ 0 \in Nat
    OBVIOUS
  <2>2. \A s \in SUBSET D : s # {} => pick[s] \in s
    BY <1>2
  <2>3. \A x \in D, v \in Nat : step[x][v] = f[x] + v
    OBVIOUS
  <2>4. \A s \in SUBSET D : pick[s] = OneOf(s)
    OBVIOUS
  <2> HIDE DEF step, pick
  <2>5. Foldable(D, Nat, 0, step, pick)
    BY <2>1, <2>2 DEF Foldable
  <2>6. PICK h : Folded(h, D, Nat, 0, step, pick)
    BY <2>5, FoldExists
  <2>7. ASSUME NEW s \in SUBSET D
        PROVE  h[s] = IF s = {} THEN 0 ELSE f[OneOf(s)] + h[s \ {OneOf(s)}]
    <3>1. CASE s # {}
      <4>1. OneOf(s) \in D /\ pick[s] = OneOf(s) /\ s \ {OneOf(s)} \in SUBSET D
        BY <1>2, <2>4, <3>1
      <4>2. h[s \ {OneOf(s)}] \in Nat
        BY <2>6, <4>1 DEF Folded
      <4>3. h[s] = step[OneOf(s)][h[s \ {OneOf(s)}]]
        BY <2>6, <3>1, <4>1 DEF Folded
      <4> QED BY <2>3, <3>1, <4>1, <4>2, <4>3
    <3>2. CASE s = {}
      BY <2>6, <3>2 DEF Folded
    <3> QED BY <3>1, <3>2
  <2>8. h = [s \in SUBSET D |-> IF s = {} THEN 0 ELSE f[OneOf(s)] + h[s \ {OneOf(s)}]]
    BY <2>6, <2>7 DEF Folded
  <2> QED BY <2>8
<1> DEFINE h == SumOn(f)
<1>4. h = [s \in SUBSET DOMAIN f |-> IF s = {} THEN 0 ELSE f[OneOf(s)] + h[s \ {OneOf(s)}]]
  BY <1>3, Zenon DEF SumOn
<1> HIDE DEF h
<1>5. /\ h = [s \in SUBSET D |-> h[s]] /\ h[{}] = 0
      /\ \A s \in SUBSET D : s # {} => h[s] = f[OneOf(s)] + h[s \ {OneOf(s)}]
  BY <1>4
<1>6. h \in [SUBSET D -> Nat]
  <2> DEFINE P == {s \in SUBSET D : h[s] \in Nat}
  <2>1. ASSUME NEW s \in SUBSET D, \A x \in s : s \ {x} \in P PROVE s \in P
    <3>1. CASE s = {}
      BY <1>5, <3>1
    <3>2. CASE s # {}
      <4>1. OneOf(s) \in s /\ h[s \ {OneOf(s)}] \in Nat /\ f[OneOf(s)] \in Nat
        BY <1>2, <2>1, <3>2
      <4>2. h[s] = f[OneOf(s)] + h[s \ {OneOf(s)}]
        BY <1>5, <3>2
      <4>3. h[s] \in Nat
        BY <4>1, <4>2
      <4> QED BY <4>3
    <3> QED BY <3>1, <3>2
  <2>2. SUBSET D \subseteq P
    <3> HIDE DEF P
    <3>1. Inductive(D, P)
      BY <2>1 DEF Inductive
    <3> QED BY <3>1, SubsetInduct
  <2> QED BY <1>5, <2>2
<1>7. \A s \in SUBSET D : \A x \in s : h[s] = f[x] + h[s \ {x}]
  <2> DEFINE P == {s \in SUBSET D : \A x \in s : h[s] = f[x] + h[s \ {x}]}
  <2>1. ASSUME NEW s \in SUBSET D, \A x \in s : s \ {x} \in P PROVE s \in P
    <3> SUFFICES ASSUME NEW x \in s PROVE h[s] = f[x] + h[s \ {x}]
      OBVIOUS
    <3> DEFINE y == OneOf(s)
    <3>1. y \in s /\ h[s] = f[y] + h[s \ {y}]
      BY <1>2, <1>5
    <3> HIDE DEF y
    <3>2. CASE x # y
      <4>1. x \in s \ {y} /\ y \in s \ {x} /\ (s \ {y}) \ {x} = (s \ {x}) \ {y}
        BY <3>1, <3>2
      <4>2. h[s \ {y}] = f[x] + h[(s \ {y}) \ {x}]
        BY <2>1, <3>1, <4>1
      <4>3. h[s \ {x}] = f[y] + h[(s \ {y}) \ {x}]
        BY <2>1, <4>1
      <4>4. h[(s \ {y}) \ {x}] \in Nat /\ f[x] \in Nat /\ f[y] \in Nat
        <5>1. (s \ {y}) \ {x} \in SUBSET D /\ x \in D /\ y \in D
          BY <3>1
        <5> QED BY <1>6, <5>1
      <4> QED BY <3>1, <4>2, <4>3, <4>4
    <3> QED BY <3>1, <3>2
  <2>2. SUBSET D \subseteq P
    <3> HIDE DEF P
    <3>1. Inductive(D, P)
      BY <2>1 DEF Inductive
    <3> QED BY <3>1, SubsetInduct
  <2> QED BY <2>2
<1> QED BY <1>1, <1>5, <1>6, <1>7 DEF Sums, h

\* A sum grows with its summands.
LEMMA SumsGrow ==
    ASSUME NEW D, NEW f, Summands(D, f), NEW E, NEW g, Summands(E, g),
           NEW h, Sums(D, f, h), NEW k, Sums(E, g, k),
           NEW T, T \subseteq D, T \subseteq E, \A x \in T : f[x] <= g[x]
    PROVE  h[T] <= k[T]
<1> USE DEF Summands, Sums
<1> DEFINE P == {s \in SUBSET T : h[s] <= k[s]}
<1>1. ASSUME NEW s \in SUBSET T, \A x \in s : s \ {x} \in P PROVE s \in P
  <2>1. CASE s = {}
    BY <2>1
  <2>2. CASE s # {}
    <3>1. PICK x \in s : TRUE
      BY <2>2
    <3>2. h[s] = f[x] + h[s \ {x}] /\ k[s] = g[x] + k[s \ {x}]
      <4>1. s \in SUBSET D /\ s \in SUBSET E
        OBVIOUS
      <4> QED BY <4>1
    <3>3. h[s \ {x}] <= k[s \ {x}] /\ f[x] <= g[x]
      BY <1>1
    <3>4. /\ h[s \ {x}] \in Nat /\ k[s \ {x}] \in Nat /\ f[x] \in Nat /\ g[x] \in Nat
      <4>1. s \ {x} \in SUBSET D /\ s \ {x} \in SUBSET E /\ x \in D /\ x \in E
        OBVIOUS
      <4> QED BY <4>1
    <3>5. h[s] <= k[s]
      BY <3>2, <3>3, <3>4
    <3> QED BY <3>5
  <2> QED BY <2>1, <2>2
<1>2. SUBSET T \subseteq P
  <2>1. IsFiniteSet(T)
    BY FS_Subset
  <2> HIDE DEF P
  <2>2. Inductive(T, P)
    BY <1>1, <2>1 DEF Inductive
  <2> QED BY <2>2, SubsetInduct
<1> QED BY <1>2

\* What is used of sums.
LEMMA SumNat ==
    ASSUME NEW D, NEW f, Summands(D, f)
    PROVE  SumFunction(f) \in Nat /\ (D = {} => SumFunction(f) = 0)
<1>1. SumFunction(f) = SumOn(f)[D] /\ Sums(D, f, SumOn(f))
  BY SumOnIs
<1> QED BY <1>1 DEF Sums

LEMMA SumGrows ==
    ASSUME NEW D, NEW f, Summands(D, f), NEW g, Summands(D, g), \A x \in D : f[x] <= g[x]
    PROVE  SumFunction(f) <= SumFunction(g)
<1>1. SumFunction(f) = SumOn(f)[D] /\ Sums(D, f, SumOn(f))
  BY SumOnIs
<1>2. SumFunction(g) = SumOn(g)[D] /\ Sums(D, g, SumOn(g))
  BY SumOnIs
<1> QED BY <1>1, <1>2, SumsGrow

LEMMA SumWith ==
    ASSUME NEW D, NEW x, x \notin D, NEW E, E = D \cup {x},
           NEW f, Summands(D, f), NEW g, Summands(E, g), \A y \in D : f[y] = g[y]
    PROVE  SumFunction(g) = g[x] + SumFunction(f)
<1> DEFINE h == SumOn(f)
           k == SumOn(g)
<1>1. SumFunction(f) = h[D] /\ Sums(D, f, h)
  BY SumOnIs
<1>2. SumFunction(g) = k[E] /\ Sums(E, g, k)
  BY SumOnIs
<1> HIDE DEF h, k
<1>3. k[E] = g[x] + k[D]
  <2>1. E \in SUBSET E /\ x \in E /\ E \ {x} = D
    OBVIOUS
  <2> QED BY <1>2, <2>1 DEF Sums
<1>4. D \subseteq E /\ D \subseteq D /\ (\A y \in D : f[y] <= g[y]) /\ (\A y \in D : g[y] <= f[y])
  BY DEF Summands
<1>5. h[D] <= k[D]
  BY <1>1, <1>2, <1>4, SumsGrow
<1>6. k[D] <= h[D]
  BY <1>1, <1>2, <1>4, SumsGrow
<1>7. k[D] \in Nat /\ h[D] \in Nat
  BY <1>1, <1>2, <1>4 DEF Sums
<1>8. k[D] = h[D]
  BY <1>5, <1>6, <1>7
<1> QED BY <1>1, <1>2, <1>3, <1>8

-----------------------------------------------------------------------------
(* ContextSelection: what is sent of a session.                            *)

ContextSpec == ContextInit /\ [][ContextNext]_context

Domains  == {D \in SUBSET Nat : IsFiniteSet(D)}
PartType == UNION {[D -> Nat] : D \in Domains}
UnitType == [request : Nat, states : PartType, calls : PartType, results : PartType]

LEMMA PartHas ==
    ASSUME NEW f \in PartType
    PROVE  DOMAIN f \in Domains /\ f \in [DOMAIN f -> Nat]
BY DEF PartType

LEMMA IsPart ==
    ASSUME NEW D \in Domains, NEW f, f \in [D -> Nat]
    PROVE  f \in PartType
BY DEF PartType

LEMMA NoneIsPart == None \in PartType /\ DOMAIN None = {}
<1>1. {} \in Domains /\ None \in [{} -> Nat]
  BY FS_EmptySet DEF Domains, None
<1> QED BY <1>1, IsPart

LEMMA OnlyNone ==
    ASSUME NEW f \in PartType, DOMAIN f = {}
    PROVE  f = None
<1>1. f \in [{} -> Nat] /\ None \in [{} -> Nat]
  BY PartHas DEF None
<1> QED BY <1>1

LEMMA LeastOfTwo ==
    ASSUME NEW a \in Nat, NEW b \in Nat
    PROVE  Min({a, b}) \in Nat /\ Min({a, b}) <= a /\ Min({a, b}) <= b
<1>1. {a, b} \in SUBSET Nat /\ {a, b} # {}
  OBVIOUS
<1>2. Min({a, b}) \in {a, b} /\ \A y \in {a, b} : Min({a, b}) <= y
  BY <1>1, LeastIs
<1> QED BY <1>2

LEMMA GreatestOfTwo ==
    ASSUME NEW a \in Int, NEW b \in Int
    PROVE  Max({a, b}) \in Int /\ Max({a, b}) >= a /\ Max({a, b}) >= b
<1>1. \E x \in {a, b} : \A y \in {a, b} : x >= y
  OBVIOUS
<1>2. Max({a, b}) \in {a, b} /\ \A y \in {a, b} : Max({a, b}) >= y
  BY <1>1 DEF Max
<1> QED BY <1>2

LEMMA TokensNat ==
    ASSUME NEW f \in PartType, NEW each \in Nat
    PROVE  Tokens(f, each) \in Nat /\ (DOMAIN f = {} => Tokens(f, each) = 0)
<1> DEFINE g == [i \in DOMAIN f |-> each + f[i]]
<1>1. Summands(DOMAIN f, g)
  BY PartHas DEF Summands, Domains
<1>2. Tokens(f, each) = SumFunction(g)
  BY DEF Tokens
<1> HIDE DEF g
<1> QED BY <1>1, <1>2, SumNat

LEMMA CostNat ==
    ASSUME NEW u \in UnitType
    PROVE  Cost(u) \in Nat /\ 2 <= Cost(u)
<1>1. /\ u.request \in Nat /\ u.calls \in PartType
      /\ u.states \in PartType /\ u.results \in PartType
  BY DEF UnitType
<1>2. Tokens(u.calls, 1) \in Nat /\ Tokens(u.states, 0) \in Nat /\ Tokens(u.results, 1) \in Nat
  BY <1>1, TokensNat
<1> QED BY <1>1, <1>2 DEF Cost

LEMMA CostDrops ==
    ASSUME NEW u \in UnitType
    PROVE  /\ [u EXCEPT !.states = None] \in UnitType
           /\ Cost([u EXCEPT !.states = None]) <= Cost(u)
<1> DEFINE v == [u EXCEPT !.states = None]
<1>1. /\ v \in UnitType /\ v.request = u.request /\ v.states = None
      /\ v.calls = u.calls /\ v.results = u.results
  BY NoneIsPart DEF UnitType
<1> HIDE DEF v
<1>2. Tokens(None, 0) = 0 /\ Tokens(u.states, 0) \in Nat
  BY NoneIsPart, TokensNat DEF UnitType
<1>3. /\ u.request \in Nat /\ Tokens(u.calls, 1) \in Nat /\ Tokens(u.results, 1) \in Nat
  BY TokensNat DEF UnitType
<1>4. Cost(v) <= Cost(u)
  BY <1>1, <1>2, <1>3 DEF Cost
<1> QED BY <1>1, <1>4 DEF v

-----------------------------------------------------------------------------
\* What may be shown of a unit: a result with its call, and a unit that lost calls
\* without its states and the calls that have no result.
Shown(v, u) ==
    /\ v \in UnitType /\ DOMAIN v.results \subseteq DOMAIN v.calls
    /\ DOMAIN v.calls # DOMAIN u.calls =>
          v.states = None /\ DOMAIN v.calls = DOMAIN v.results

LEMMA CutIs ==
    ASSUME NEW f \in PartType, NEW level \in Nat
    PROVE  /\ Cut(f, level) \in PartType /\ DOMAIN Cut(f, level) = DOMAIN f
           /\ f = None => Cut(f, level) = None
<1>1. DOMAIN f \in Domains
  BY PartHas
<1>2. \A i \in DOMAIN f : Min({f[i], level}) \in Nat
  BY PartHas, LeastOfTwo
<1>3. Cut(f, level) \in [DOMAIN f -> Nat]
  BY <1>2 DEF Cut
<1>4. DOMAIN Cut(f, level) = DOMAIN f
  BY <1>3
<1>5. Cut(f, level) \in PartType
  BY <1>1, <1>3, IsPart
<1>6. f = None => DOMAIN Cut(f, level) = {}
  BY <1>4, NoneIsPart
<1> QED BY <1>4, <1>5, <1>6, OnlyNone

LEMMA TruncatedIs ==
    ASSUME NEW u, NEW v, Shown(v, u), NEW level \in Nat
    PROVE  Shown(Truncated(v, level), u)
<1> DEFINE t == Truncated(v, level)
<1>1. v \in UnitType /\ v.states \in PartType /\ v.calls \in PartType /\ v.results \in PartType
  BY DEF Shown, UnitType
<1>2. Min({v.request, level}) \in Nat
  BY LeastOfTwo DEF Shown, UnitType
<1>3. /\ Cut(v.states, level) \in PartType /\ Cut(v.calls, level) \in PartType
      /\ Cut(v.results, level) \in PartType
  BY <1>1, CutIs
<1>4. /\ t \in UnitType /\ t.states = Cut(v.states, level)
      /\ t.calls = Cut(v.calls, level) /\ t.results = Cut(v.results, level)
  <2>1. t = [request |-> Min({v.request, level}), states |-> Cut(v.states, level),
             calls |-> Cut(v.calls, level), results |-> Cut(v.results, level)]
    <3>1. v = [request |-> v.request, states |-> v.states,
               calls |-> v.calls, results |-> v.results]
      BY <1>1 DEF UnitType
    <3>2. t = [v EXCEPT !.request = Min({v.request, level}), !.states = Cut(v.states, level),
                        !.calls = Cut(v.calls, level), !.results = Cut(v.results, level)]
      BY <3>1 DEF Truncated
    <3> QED BY <3>1, <3>2
  <2> HIDE DEF t
  <2> QED BY <1>2, <1>3, <2>1 DEF UnitType
<1> HIDE DEF t
<1>5. /\ DOMAIN t.calls = DOMAIN v.calls /\ DOMAIN t.results = DOMAIN v.results
      /\ v.states = None => t.states = None
  BY <1>1, <1>4, CutIs
<1>6. Shown(t, u)
  BY <1>4, <1>5 DEF Shown
<1> QED BY <1>6 DEF t

LEMMA CompactedIs ==
    ASSUME NEW u, Shown(u, u), NEW k
    PROVE  Shown(Compacted(u, k), u)
<1> DEFINE kept == Newest(k, DOMAIN u.results)
           v == Compacted(u, k)
<1>1. u \in UnitType /\ u.calls \in PartType /\ u.results \in PartType
  BY DEF Shown, UnitType
<1>2. kept \subseteq DOMAIN u.results /\ kept \subseteq DOMAIN u.calls
  BY DEF Newest, Shown
<1> HIDE DEF kept
<1>3. kept \in Domains
  BY <1>1, <1>2, PartHas, FS_Subset DEF Domains
<1>4. Restrict(u.calls, kept) \in [kept -> Nat] /\ Restrict(u.results, kept) \in [kept -> Nat]
  BY <1>1, <1>2, PartHas DEF Restrict
<1>5. Restrict(u.calls, kept) \in PartType /\ Restrict(u.results, kept) \in PartType
  BY <1>3, <1>4, IsPart
<1>6. v = [request |-> u.request, states |-> None,
           calls |-> Restrict(u.calls, kept), results |-> Restrict(u.results, kept)]
  <2>1. u = [request |-> u.request, states |-> u.states,
             calls |-> u.calls, results |-> u.results]
    BY <1>1 DEF UnitType
  <2>2. v = [u EXCEPT !.states = None, !.calls = Restrict(u.calls, kept),
                      !.results = Restrict(u.results, kept)]
    BY <2>1 DEF Compacted, kept
  <2> QED BY <2>1, <2>2
<1>7. DOMAIN Restrict(u.calls, kept) = kept /\ DOMAIN Restrict(u.results, kept) = kept
  BY <1>4
<1> HIDE DEF v
<1>8. v \in UnitType /\ v.states = None /\ DOMAIN v.calls = kept /\ DOMAIN v.results = kept
  BY <1>1, <1>5, <1>6, <1>7, NoneIsPart DEF UnitType
<1>9. Shown(v, u)
  BY <1>8 DEF Shown
<1> QED BY <1>9 DEF v

LEMMA AUnit ==
    ASSUME NEW u \in UnitType
    PROVE  u # NoUnit
<1>1. "request" \in DOMAIN u
  BY DEF UnitType
<1>2. DOMAIN NoUnit = {}
  BY DEF NoUnit
<1> QED BY <1>1, <1>2

LEMMA LevelsAre ==
    /\ Levels \in Seq(Nat) /\ CompactLevels \in Seq(Nat)
    /\ Len(CompactLevels) \in DOMAIN CompactLevels /\ Shortest \in Nat
<1>1. Levels \in Seq(Nat) /\ CompactLevels \in Seq(Nat) /\ CompactLevels # <<>>
  BY ContextAssumption
<1>2. Len(CompactLevels) \in DOMAIN CompactLevels
  BY <1>1
<1> QED BY <1>1, <1>2 DEF Shortest, Last

\* A unit that was cut is still what may be shown, and fits.
Fits(v, u, left) == Shown(v, u) /\ Cost(v) <= left

LEMMA FirstFitFits ==
    ASSUME NEW u, NEW v, Shown(v, u), NEW levels \in Seq(Nat), NEW left,
           Fitting(v, levels, left) # {}
    PROVE  Fits(FirstFit(v, levels, left), u, left)
<1> DEFINE l == Min(Fitting(v, levels, left))
<1>1. Fitting(v, levels, left) \in SUBSET Nat
  BY DEF Fitting
<1>2. l \in Fitting(v, levels, left)
  BY <1>1, LeastIs
<1>3. FirstFit(v, levels, left) = Truncated(v, levels[l])
  BY DEF FirstFit
<1> HIDE DEF l
<1>4. levels[l] \in Nat /\ Cost(Truncated(v, levels[l])) <= left
  BY <1>2 DEF Fitting
<1> QED BY <1>3, <1>4, TruncatedIs DEF Fits

LEMMA KeepsAre ==
    ASSUME NEW u, Shown(u, u), NEW left, Keeps(u, left) # {}
    PROVE  Max(Keeps(u, left)) \in Keeps(u, left)
<1> DEFINE n == Cardinality(DOMAIN u.results)
<1>1. n \in Nat
  BY PartHas, FS_CardinalityType DEF Shown, UnitType, Domains
<1>2. Keeps(u, left) \subseteq 0 .. n - 1
  BY DEF Keeps
<1> HIDE DEF n
<1>3. 0 .. n - 1 \subseteq 0 .. n
  BY <1>1
<1>4. Keeps(u, left) \in SUBSET (0 .. n)
  BY <1>2, <1>3
<1> QED BY <1>1, <1>4, GreatestIs

LEMMA TruncateUnitFits ==
    ASSUME NEW u, Shown(u, u), NEW left
    PROVE  TruncateUnit(u, left) = NoUnit \/ Fits(TruncateUnit(u, left), u, left)
<1>1. CASE Fitting(u, Levels, left) # {}
  BY <1>1, LevelsAre, FirstFitFits DEF TruncateUnit
<1>2. CASE Fitting(u, Levels, left) = {} /\ Keeps(u, left) # {}
  <2> DEFINE v == Compacted(u, Max(Keeps(u, left)))
  <2>1. TruncateUnit(u, left) = FirstFit(v, CompactLevels, left)
    BY <1>2 DEF TruncateUnit, CompactToolCycles
  <2>2. Shown(v, u)
    BY CompactedIs
  <2>3. Fitting(v, CompactLevels, left) # {}
    BY <1>2, KeepsAre DEF Keeps
  <2> HIDE DEF v
  <2> QED BY <2>1, <2>2, <2>3, LevelsAre, FirstFitFits
<1>3. CASE Fitting(u, Levels, left) = {} /\ Keeps(u, left) = {}
  BY <1>3 DEF TruncateUnit, CompactToolCycles
<1> QED BY <1>1, <1>2, <1>3

\* What is left of a unit without any result is its request.
LEMMA BareCost ==
    ASSUME NEW u, Shown(u, u), NEW level \in Nat
    PROVE  Cost(Truncated(Compacted(u, 0), level)) = 2 + Min({u.request, level})
<1> DEFINE v == Compacted(u, 0)
           t == Truncated(v, level)
           kept == Newest(0, DOMAIN u.results)
<1>1. u \in UnitType /\ IsFiniteSet(DOMAIN u.results) /\ DOMAIN u.results \subseteq Nat
  BY PartHas DEF Shown, UnitType, Domains
<1>2. kept = {}
  <2> SUFFICES ASSUME NEW i \in kept PROVE FALSE
    OBVIOUS
  <2> DEFINE S == {j \in DOMAIN u.results : j >= i}
  <2>1. i \in S /\ Cardinality(S) <= 0
    BY <1>1 DEF Newest
  <2>2. IsFiniteSet(S)
    BY <1>1, FS_Subset
  <2> HIDE DEF S
  <2>3. Cardinality(S) \in Nat /\ Cardinality(S) # 0
    BY <2>1, <2>2, FS_CardinalityType, FS_EmptySet
  <2> QED BY <2>1, <2>3
<1>3. v = [u EXCEPT !.states = None, !.calls = Restrict(u.calls, kept),
                    !.results = Restrict(u.results, kept)]
  <2>1. u = [request |-> u.request, states |-> u.states,
             calls |-> u.calls, results |-> u.results]
    BY <1>1 DEF UnitType
  <2> QED BY <2>1 DEF Compacted
<1> HIDE DEF v, kept
<1>4. \A f : Restrict(f, kept) = None
  BY <1>2 DEF Restrict, None
<1>5. v.request = u.request /\ v.states = None /\ v.calls = None /\ v.results = None
  <2>1. u = [request |-> u.request, states |-> u.states,
             calls |-> u.calls, results |-> u.results]
    BY <1>1 DEF UnitType
  <2> QED BY <1>3, <1>4, <2>1
<1>6. v = [request |-> u.request, states |-> None, calls |-> None, results |-> None]
  <2>1. u = [request |-> u.request, states |-> u.states,
             calls |-> u.calls, results |-> u.results]
    BY <1>1 DEF UnitType
  <2> QED BY <1>3, <1>4, <2>1
<1>7. Cut(None, level) = None
  BY NoneIsPart, CutIs
<1>8. t.request = Min({u.request, level}) /\ t.states = None /\ t.calls = None /\ t.results = None
  BY <1>6, <1>7 DEF Truncated
<1> HIDE DEF t
<1>9. Tokens(None, 0) = 0 /\ Tokens(None, 1) = 0 /\ Min({u.request, level}) \in Nat
  BY <1>1, NoneIsPart, TokensNat, LeastOfTwo DEF UnitType
<1>10. Cost(t) = 2 + Min({u.request, level})
  BY <1>8, <1>9 DEF Cost
<1> QED BY <1>10 DEF t, v

LEMMA TruncateUnitFinds ==
    ASSUME NEW u, Shown(u, u), NEW left, u.results # None,
           2 + Min({u.request, Shortest}) <= left
    PROVE  TruncateUnit(u, left) # NoUnit
<1>1. CASE Fitting(u, Levels, left) # {}
  <2>1. Fits(FirstFit(u, Levels, left), u, left)
    BY <1>1, LevelsAre, FirstFitFits
  <2> QED BY <1>1, <2>1, AUnit DEF TruncateUnit, Fits, Shown
<1>2. CASE Fitting(u, Levels, left) = {}
  <2> DEFINE n == Cardinality(DOMAIN u.results)
  <2>1. n \in Nat /\ n # 0
    <3>1. u.results \in PartType /\ IsFiniteSet(DOMAIN u.results)
      BY PartHas DEF Shown, UnitType, Domains
    <3>2. DOMAIN u.results # {}
      BY <3>1, OnlyNone
    <3> QED BY <3>1, <3>2, FS_CardinalityType, FS_EmptySet
  <2>2. Len(CompactLevels) \in Fitting(Compacted(u, 0), CompactLevels, left)
    <3>1. Cost(Truncated(Compacted(u, 0), Shortest)) <= left
      BY LevelsAre, BareCost
    <3> QED BY <3>1, LevelsAre DEF Fitting, Shortest, Last
  <2>3. 0 \in 0 .. n - 1
    BY <2>1
  <2>4. Keeps(u, left) # {}
    BY <2>2, <2>3 DEF Keeps
  <2> HIDE DEF n
  <2> DEFINE v == Compacted(u, Max(Keeps(u, left)))
  <2>5. TruncateUnit(u, left) = FirstFit(v, CompactLevels, left)
    BY <1>2, <2>4 DEF TruncateUnit, CompactToolCycles
  <2>6. Shown(v, u)
    BY CompactedIs
  <2>7. Fitting(v, CompactLevels, left) # {}
    BY <2>4, KeepsAre DEF Keeps
  <2> HIDE DEF v
  <2>8. Fits(FirstFit(v, CompactLevels, left), u, left)
    BY <2>6, <2>7, LevelsAre, FirstFitFits
  <2> QED BY <2>5, <2>8, AUnit DEF Fits, Shown
<1> QED BY <1>1, <1>2

\* The runs of a session, and what may be selected of some of them.
History      == 1 .. Len(units)
Selections   == UNION {[D -> UnitType] : D \in SUBSET History}
UnitsOK      == units \in Seq(UnitType) /\ \A i \in History : Shown(units[i], units[i])
Fitted(sel, S, budget) ==
    /\ sel \in Selections /\ DOMAIN sel \subseteq S
    /\ Spent(sel) <= budget
    /\ \A i \in DOMAIN sel : Shown(sel[i], units[i])

LEMMA SelectionHas ==
    ASSUME NEW sel \in Selections
    PROVE  /\ DOMAIN sel \subseteq History /\ sel \in [DOMAIN sel -> UnitType]
           /\ IsFiniteSet(DOMAIN sel)
<1>1. DOMAIN sel \subseteq History /\ sel \in [DOMAIN sel -> UnitType]
  BY DEF Selections
<1>2. IsFiniteSet(History)
  BY FS_Interval DEF History
<1> QED BY <1>1, <1>2, FS_Subset

LEMMA CostsAre ==
    ASSUME NEW sel \in Selections
    PROVE  /\ Summands(DOMAIN sel, [i \in DOMAIN sel |-> Cost(sel[i])])
           /\ Spent(sel) = SumFunction([i \in DOMAIN sel |-> Cost(sel[i])])
<1>1. \A i \in DOMAIN sel : Cost(sel[i]) \in Nat
  BY SelectionHas, CostNat
<1> QED BY <1>1, SelectionHas DEF Summands, Spent

LEMMA SpentNat ==
    ASSUME NEW sel \in Selections
    PROVE  Spent(sel) \in Nat /\ (DOMAIN sel = {} => Spent(sel) = 0)
<1> DEFINE f == [i \in DOMAIN sel |-> Cost(sel[i])]
<1>1. Summands(DOMAIN sel, f) /\ Spent(sel) = SumFunction(f)
  BY CostsAre
<1> HIDE DEF f
<1> QED BY <1>1, SumNat

LEMMA NothingSelected ==
    None \in Selections /\ DOMAIN None = {} /\ Spent(None) = 0
<1>1. None \in [{} -> UnitType] /\ {} \in SUBSET History
  BY DEF None
<1>2. None \in Selections
  BY <1>1 DEF Selections
<1> QED BY <1>2, NoneIsPart, SpentNat

LEMMA SpentWith ==
    ASSUME NEW sel \in Selections, NEW i \in History, i \notin DOMAIN sel, NEW u \in UnitType
    PROVE  /\ With(sel, i, u) \in Selections
           /\ Spent(With(sel, i, u)) = Cost(u) + Spent(sel)
<1> DEFINE D == DOMAIN sel
           new == With(sel, i, u)
           f == [r \in D |-> Cost(sel[r])]
           g == [r \in D \cup {i} |-> Cost(new[r])]
<1>1. new \in [D \cup {i} -> UnitType]
  BY SelectionHas DEF With
<1>2. new \in Selections
  BY <1>1, SelectionHas DEF Selections
<1>3. Summands(D, f) /\ Spent(sel) = SumFunction(f)
  BY CostsAre
<1>4. new[i] = u /\ \A r \in D : new[r] = sel[r]
  BY DEF With
<1>5. DOMAIN new = D \cup {i}
  BY <1>1
<1>6. Summands(D \cup {i}, g) /\ Spent(new) = SumFunction(g)
  BY <1>2, <1>5, CostsAre
<1>7. g[i] = Cost(u) /\ \A r \in D : f[r] = g[r]
  BY <1>4
<1>8. i \notin D
  OBVIOUS
<1> HIDE DEF f, g, D
<1>9. SumFunction(g) = g[i] + SumFunction(f)
  BY <1>3, <1>6, <1>7, <1>8, SumWith
<1> QED BY <1>2, <1>3, <1>6, <1>7, <1>9

\* One step of the selection.
Chosen(i, left) ==
    IF Cost(units[i]) <= left THEN units[i] ELSE TruncateUnit(units[i], left)

LEMMA ChosenFits ==
    ASSUME UnitsOK, NEW i \in History, NEW left
    PROVE  Chosen(i, left) = NoUnit \/ Fits(Chosen(i, left), units[i], left)
<1>1. Shown(units[i], units[i])
  BY DEF UnitsOK
<1>2. CASE Cost(units[i]) <= left
  BY <1>1, <1>2 DEF Chosen, Fits
<1>3. CASE ~(Cost(units[i]) <= left)
  BY <1>1, <1>3, TruncateUnitFits DEF Chosen
<1> QED BY <1>2, <1>3

LEMMA SelectedIs ==
    ASSUME NEW i, NEW sel, NEW budget
    PROVE  Selected(i, sel, budget) =
              LET unit == Chosen(i, budget - Spent(sel))
              IN  IF unit = NoUnit THEN sel ELSE With(sel, i, unit)
BY Zenon DEF Selected, Chosen

LEMMA SelectedType ==
    ASSUME UnitsOK, NEW i \in History, NEW sel \in Selections, NEW budget
    PROVE  Selected(i, sel, budget) \in Selections
<1> DEFINE unit == Chosen(i, budget - Spent(sel))
<1>1. unit = NoUnit \/ unit \in UnitType
  BY ChosenFits DEF Fits, Shown
<1>2. Selected(i, sel, budget) = IF unit = NoUnit THEN sel ELSE With(sel, i, unit)
  BY SelectedIs
<1> HIDE DEF unit
<1>3. ASSUME unit \in UnitType PROVE With(sel, i, unit) \in Selections
  <2>1. DOMAIN sel \cup {i} \in SUBSET History
    BY SelectionHas
  <2>2. With(sel, i, unit) \in [DOMAIN sel \cup {i} -> UnitType]
    BY <1>3, SelectionHas DEF With
  <2> QED BY <2>1, <2>2 DEF Selections
<1> QED BY <1>1, <1>2, <1>3

LEMMA SelectedFits ==
    ASSUME UnitsOK, NEW S \in SUBSET History, NEW i \in S, NEW budget \in Int,
           NEW sel, Fitted(sel, S \ {i}, budget)
    PROVE  Fitted(Selected(i, sel, budget), S, budget)
<1> DEFINE left == budget - Spent(sel)
           unit == Chosen(i, left)
           new == With(sel, i, unit)
<1>1. /\ sel \in Selections /\ i \notin DOMAIN sel /\ Spent(sel) \in Nat /\ i \in History
      /\ DOMAIN sel \subseteq S
  BY SpentNat DEF Fitted
<1>2. unit = NoUnit \/ Fits(unit, units[i], left)
  BY <1>1, ChosenFits
<1>3. Selected(i, sel, budget) = IF unit = NoUnit THEN sel ELSE new
  BY SelectedIs
<1>4. CASE unit = NoUnit
  BY <1>1, <1>3, <1>4 DEF Fitted
<1>5. CASE unit # NoUnit /\ Fits(unit, units[i], left)
  <2> HIDE DEF unit
  <2>1. unit \in UnitType /\ Shown(unit, units[i]) /\ Cost(unit) <= left /\ Cost(unit) \in Nat
    BY <1>5, CostNat DEF Fits, Shown
  <2>2. new \in Selections /\ Spent(new) = Cost(unit) + Spent(sel)
    BY <1>1, <2>1, SpentWith
  <2>3. /\ DOMAIN new = DOMAIN sel \cup {i} /\ new[i] = unit
        /\ \A r \in DOMAIN sel : new[r] = sel[r]
    BY <1>1 DEF With
  <2> HIDE DEF new
  <2>4. Spent(new) <= budget
    BY <1>1, <2>1, <2>2
  <2>5. \A r \in DOMAIN new : Shown(new[r], units[r])
    BY <2>1, <2>3 DEF Fitted
  <2>6. Fitted(new, S, budget)
    BY <1>1, <2>2, <2>3, <2>4, <2>5 DEF Fitted
  <2> QED BY <1>3, <1>5, <2>6
<1> QED BY <1>2, <1>4, <1>5

\* The fold of SelectRecent, over the sets of the newest runs.
Steps(budget) == CHOOSE h : h =
    [S \in SUBSET DOMAIN [i \in DOMAIN units |-> i] |->
        IF S = {} THEN None
        ELSE Selected([i \in DOMAIN units |-> i][Min(S)], h[S \ {Min(S)}], budget)]

\* What it gives for a set of runs, whatever the runs.
Selecting(h, budget) ==
    /\ h[{}] = None
    /\ \A S \in SUBSET History : S # {} =>
          h[S] = Selected(Min(S), h[S \ {Min(S)}], budget)

LEMMA LeastRun ==
    ASSUME NEW S \in SUBSET History, S # {}
    PROVE  Min(S) \in S /\ Min(S) \in History /\ (\A i \in S : Min(S) <= i)
<1>1. S \in SUBSET Nat
  BY DEF History
<1> QED BY <1>1, LeastIs

LEMMA SelectRecentIs ==
    ASSUME UnitsOK, NEW budget \in Int
    PROVE  /\ SelectRecent(budget) = Steps(budget)[History]
           /\ Selecting(Steps(budget), budget)
<1> DEFINE runs == [i \in DOMAIN units |-> i]
           h == Steps(budget)
<1>1. DOMAIN runs = History /\ DOMAIN units = History /\ \A i \in History : runs[i] = i
  BY DEF UnitsOK, History
<1>2. SelectRecent(budget) = Steps(budget)[DOMAIN [i \in DOMAIN units |-> i]]
  BY Zenon DEF SelectRecent, FoldRightDomain, FoldRight, MapThenFoldSet, Steps
<1> HIDE DEF runs
<1>3. \E g : g = [S \in SUBSET DOMAIN runs |->
                    IF S = {} THEN None ELSE Selected(runs[Min(S)], g[S \ {Min(S)}], budget)]
  <2> DEFINE step == [i \in History |-> [sel \in Selections |-> Selected(i, sel, budget)]]
             pick == [S \in SUBSET History |-> Min(S)]
  <2>1. step \in [History -> [Selections -> Selections]]
    BY SelectedType
  <2>2. /\ \A S \in SUBSET History : pick[S] = Min(S)
        /\ \A i \in History : \A sel \in Selections : step[i][sel] = Selected(i, sel, budget)
    OBVIOUS
  <2> HIDE DEF step, pick
  <2>3. IsFiniteSet(History)
    BY FS_Interval DEF History
  <2>4. \A S \in SUBSET History : S # {} => pick[S] \in S
    BY <2>2, LeastRun
  <2>5. Foldable(History, Selections, None, step, pick)
    BY <2>1, <2>3, <2>4, NothingSelected DEF Foldable
  <2>6. PICK g : Folded(g, History, Selections, None, step, pick)
    BY <2>5, FoldExists
  <2>7. ASSUME NEW S \in SUBSET History
        PROVE  g[S] = IF S = {} THEN None ELSE Selected(runs[Min(S)], g[S \ {Min(S)}], budget)
    <3>1. CASE S # {}
      <4>1. Min(S) \in History /\ runs[Min(S)] = Min(S) /\ S \ {Min(S)} \in SUBSET History
        BY <1>1, <3>1, LeastRun
      <4>2. g[S \ {Min(S)}] \in Selections
        BY <2>6, <4>1 DEF Folded
      <4>3. g[S] = step[Min(S)][g[S \ {Min(S)}]]
        BY <2>2, <2>6, <3>1 DEF Folded
      <4> QED BY <2>2, <3>1, <4>1, <4>2, <4>3
    <3>2. CASE S = {}
      BY <2>6, <3>2 DEF Folded
    <3> QED BY <3>1, <3>2
  <2>8. g = [S \in SUBSET History |->
                IF S = {} THEN None ELSE Selected(runs[Min(S)], g[S \ {Min(S)}], budget)]
    BY <2>6, <2>7 DEF Folded
  <2> QED BY <1>1, <2>8
<1>4. h = [S \in SUBSET DOMAIN runs |->
              IF S = {} THEN None ELSE Selected(runs[Min(S)], h[S \ {Min(S)}], budget)]
  BY <1>3, Zenon DEF Steps, runs
<1> HIDE DEF h
<1>5. h[{}] = None
  BY <1>1, <1>4
<1>6. ASSUME NEW S \in SUBSET History, S # {}
      PROVE  h[S] = Selected(Min(S), h[S \ {Min(S)}], budget)
  <2>1. h[S] = Selected(runs[Min(S)], h[S \ {Min(S)}], budget)
    BY <1>1, <1>4, <1>6
  <2>2. runs[Min(S)] = Min(S)
    BY <1>1, <1>6, LeastRun
  <2> QED BY <2>1, <2>2
<1> QED BY <1>1, <1>2, <1>5, <1>6 DEF Selecting, h, runs

\* The run under way is in what is selected when some of its rounds can be.
CanFit(budget) ==
    /\ units[Current].results # None
    /\ 2 + Min({units[Current].request, Shortest}) <= budget

LEMMA NewestFirst ==
    ASSUME UnitsOK, NEW budget \in Int, CanFit(budget), Current \in History
    PROVE  Current \in DOMAIN Selected(Current, None, budget)
<1> DEFINE unit == Chosen(Current, budget)
<1>1. Shown(units[Current], units[Current]) /\ units[Current] \in UnitType
  BY DEF UnitsOK, Shown
<1>2. unit # NoUnit
  BY <1>1, AUnit, TruncateUnitFinds DEF Chosen, CanFit
<1>3. budget - Spent(None) = budget
  BY NothingSelected
<1>4. Selected(Current, None, budget) = With(None, Current, unit)
  BY <1>2, <1>3, SelectedIs
<1> QED BY <1>4 DEF With

LEMMA SelectingFits ==
    ASSUME UnitsOK, NEW budget \in Nat, NEW h, Selecting(h, budget), NEW S \in SUBSET History
    PROVE  /\ Fitted(h[S], S, budget)
           /\ Current \in S /\ CanFit(budget) => Current \in DOMAIN h[S]
<1> DEFINE P == {T \in SUBSET History :
                    /\ Fitted(h[T], T, budget)
                    /\ Current \in T /\ CanFit(budget) => Current \in DOMAIN h[T]}
<1>1. ASSUME NEW T \in SUBSET History, \A x \in T : T \ {x} \in P PROVE T \in P
  <2>1. CASE T = {}
    <3>1. h[T] = None /\ Current \notin T
      BY <2>1 DEF Selecting
    <3> QED BY <2>1, <3>1, NothingSelected DEF Fitted
  <2>2. CASE T # {}
    <3> DEFINE x == Min(T)
               sel == h[T \ {x}]
    <3>1. x \in T /\ (\A i \in T : x <= i) /\ T \ {x} \in P
      BY <1>1, <2>2, LeastRun
    <3>2. h[T] = Selected(x, sel, budget)
      BY <2>2 DEF Selecting
    <3>3. Fitted(sel, T \ {x}, budget) /\
          (Current \in T \ {x} /\ CanFit(budget) => Current \in DOMAIN sel)
      BY <3>1
    <3> HIDE DEF x, sel, P
    <3>4. Fitted(h[T], T, budget)
      BY <3>1, <3>2, <3>3, SelectedFits
    <3>5. ASSUME Current \in T, CanFit(budget) PROVE Current \in DOMAIN h[T]
      <4>1. CASE x # Current
        <5>1. Current \in DOMAIN sel
          BY <3>3, <3>5, <4>1
        <5>2. DOMAIN sel \subseteq DOMAIN Selected(x, sel, budget)
          BY SelectedIs DEF With
        <5> QED BY <3>2, <5>1, <5>2
      <4>2. CASE x = Current
        <5>1. T \ {x} = {}
          <6>1. ASSUME NEW y \in T PROVE y = x
            <7>1. y \in 1 .. Len(units) /\ x <= y /\ x = Len(units)
              BY <3>1, <4>2 DEF History, Current
            <7> QED BY <7>1
          <6> QED BY <6>1
        <5>2. sel = None
          BY <5>1 DEF sel, Selecting
        <5> QED BY <3>2, <3>5, <4>2, <5>2, NewestFirst
      <4> QED BY <4>1, <4>2
    <3> QED BY <3>4, <3>5 DEF P
  <2> QED BY <2>1, <2>2
<1>2. IsFiniteSet(History)
  BY FS_Interval DEF History
<1>3. SUBSET History \subseteq P
  <2> HIDE DEF P
  <2>1. Inductive(History, P)
    BY <1>1, <1>2 DEF Inductive
  <2> QED BY <2>1, SubsetInduct
<1> QED BY <1>3

\* A unit without its states is what may be shown of it, and costs no more.
LEMMA WithoutStates ==
    ASSUME NEW u, NEW v, Shown(v, u)
    PROVE  /\ Shown([v EXCEPT !.states = None], u)
           /\ Cost([v EXCEPT !.states = None]) \in Nat /\ Cost(v) \in Nat
           /\ Cost([v EXCEPT !.states = None]) <= Cost(v)
<1> DEFINE w == [v EXCEPT !.states = None]
<1>1. v \in UnitType
  BY DEF Shown
<1>2. w \in UnitType /\ Cost(w) <= Cost(v)
  BY <1>1, CostDrops
<1>3. w.states = None /\ w.calls = v.calls /\ w.results = v.results
  BY <1>1 DEF UnitType
<1> HIDE DEF w
<1>4. Shown(w, u)
  BY <1>2, <1>3 DEF Shown
<1>5. Cost(w) \in Nat /\ Cost(v) \in Nat
  BY <1>1, <1>2, CostNat
<1> QED BY <1>2, <1>4, <1>5 DEF w

\* What a selection costs when its units are replaced by others that cost no more.
LEMMA SpentDrops ==
    ASSUME NEW sel \in Selections, NEW new \in Selections, DOMAIN new = DOMAIN sel,
           \A i \in DOMAIN sel : Cost(new[i]) <= Cost(sel[i])
    PROVE  Spent(new) <= Spent(sel)
<1> DEFINE D == DOMAIN sel
           f == [i \in DOMAIN new |-> Cost(new[i])]
           g == [i \in DOMAIN sel |-> Cost(sel[i])]
<1>1. Summands(DOMAIN new, f) /\ Spent(new) = SumFunction(f)
  BY CostsAre
<1>2. Summands(DOMAIN sel, g) /\ Spent(sel) = SumFunction(g)
  BY CostsAre
<1>3. Summands(D, f) /\ Summands(D, g)
  BY <1>1, <1>2
<1>4. \A i \in D : f[i] <= g[i]
  OBVIOUS
<1> HIDE DEF D, f, g
<1>5. SumFunction(f) <= SumFunction(g)
  BY <1>3, <1>4, SumGrows
<1> QED BY <1>1, <1>2, <1>5

LEMMA ProjectedFits ==
    ASSUME NEW sel, NEW budget \in Nat, Fitted(sel, History, budget)
    PROVE  Fitted(Projected(sel), History, budget) /\ DOMAIN Projected(sel) = DOMAIN sel
<1> DEFINE new == Projected(sel)
<1>1. sel \in Selections /\ DOMAIN sel \subseteq History /\ Spent(sel) \in Nat /\ Spent(sel) <= budget
  BY SpentNat DEF Fitted
<1>2. DOMAIN new = DOMAIN sel
  BY DEF Projected
<1>3. ASSUME NEW i \in DOMAIN sel
      PROVE  Shown(new[i], units[i]) /\ Cost(new[i]) <= Cost(sel[i])
  <2>1. Shown(sel[i], units[i])
    BY DEF Fitted
  <2>2. new[i] = sel[i] \/ new[i] = [sel[i] EXCEPT !.states = None]
    BY DEF Projected
  <2> HIDE DEF new
  <2> QED BY <2>1, <2>2, WithoutStates
<1>4. new \in [DOMAIN sel -> UnitType]
  <2>1. \A i \in DOMAIN sel : new[i] \in UnitType
    BY <1>3 DEF Shown
  <2> QED BY <2>1 DEF Projected
<1> HIDE DEF new
<1>5. new \in Selections
  BY <1>1, <1>4 DEF Selections
<1>6. Spent(new) <= Spent(sel) /\ Spent(new) \in Nat
  BY <1>1, <1>2, <1>3, <1>5, SpentDrops, SpentNat
<1>7. Fitted(new, History, budget)
  BY <1>1, <1>2, <1>3, <1>5, <1>6 DEF Fitted
<1> QED BY <1>2, <1>7 DEF new

-----------------------------------------------------------------------------
\* The request that is sent.
RequestOK(shown, budget) ==
    /\ Fitted(shown, History, budget)
    /\ CanFit(budget) => Current \in DOMAIN shown

LEMMA BuiltOK ==
    ASSUME UnitsOK, units # <<>>, NEW budget \in Nat
    PROVE  RequestOK(Projected(SelectRecent(budget)), budget)
<1> DEFINE h == Steps(budget)
<1>1. SelectRecent(budget) = h[History] /\ Selecting(h, budget)
  BY SelectRecentIs
<1> HIDE DEF h
<1>2. Current \in History /\ History \in SUBSET History
  BY DEF UnitsOK, Current, History
<1>3. /\ Fitted(h[History], History, budget)
      /\ CanFit(budget) => Current \in DOMAIN h[History]
  BY <1>1, <1>2, SelectingFits
<1> QED BY <1>1, <1>3, ProjectedFits DEF RequestOK

LEMMA WholeOK ==
    ASSUME UnitsOK, units # <<>>
    PROVE  RequestOK([i \in DOMAIN units |-> [units[i] EXCEPT !.states = None]], Spent(units))
<1> DEFINE new == [i \in DOMAIN units |-> [units[i] EXCEPT !.states = None]]
<1>1. /\ DOMAIN units = History /\ units \in [History -> UnitType] /\ Current \in History
      /\ \A i \in History : Shown(units[i], units[i])
  BY DEF UnitsOK, History, Current
<1>2. DOMAIN new = History
  BY <1>1
<1>3. ASSUME NEW i \in History
      PROVE  /\ Shown(new[i], units[i]) /\ new[i] \in UnitType
             /\ Cost(new[i]) <= Cost(units[i])
  <2>1. Shown(units[i], units[i]) /\ new[i] = [units[i] EXCEPT !.states = None]
    BY <1>1
  <2> HIDE DEF new
  <2>2. Shown(new[i], units[i]) /\ Cost(new[i]) <= Cost(units[i])
    BY <2>1, WithoutStates
  <2> QED BY <2>2 DEF Shown
<1>4. new \in [History -> UnitType]
  BY <1>1, <1>3
<1> HIDE DEF new
<1>5. new \in Selections /\ units \in Selections
  BY <1>1, <1>4 DEF Selections
<1>6. Spent(new) <= Spent(units)
  BY <1>1, <1>2, <1>3, <1>5, SpentDrops
<1>7. RequestOK(new, Spent(units))
  BY <1>1, <1>2, <1>3, <1>5, <1>6 DEF RequestOK, Fitted
<1> QED BY <1>7 DEF new

\* The inductive invariant: the calls of a run are numbered, a call that has no result is
\* the last, and what was sent is sound.
Numbered(u) == DOMAIN u.calls = 1 .. Cardinality(DOMAIN u.calls)

ContextInv ==
    /\ fixed \in Nat
    /\ UnitsOK /\ \A i \in History : Numbered(units[i])
    /\ phase # "idle" => units # <<>>
    /\ phase = "tool" => DOMAIN units[Current].calls # {}
    /\ phase = "sent" => RequestOK(request.units, request.budget)

LEMMA BudgetNat ==
    ASSUME NEW limit \in Nat, NEW cost \in Nat
    PROVE  Max({1, limit - cost}) \in Nat
<1>1. 1 \in Int /\ limit - cost \in Int
  OBVIOUS
<1>2. Max({1, limit - cost}) \in Int /\ Max({1, limit - cost}) >= 1
  BY <1>1, GreatestOfTwo
<1> QED BY <1>2

LEMMA SoundIsInvariant ==
    ASSUME ContextInv
    PROVE  SelectionIsSound
<1> SUFFICES ASSUME phase = "sent"
             PROVE  /\ Spent(request.units) <= request.budget
                    /\ \A i \in DOMAIN request.units :
                          LET shown == request.units[i]
                          IN  /\ DOMAIN shown.results \subseteq DOMAIN shown.calls
                              /\ DOMAIN shown.calls # DOMAIN units[i].calls =>
                                    shown.states = None /\ DOMAIN shown.calls = DOMAIN shown.results
                    /\ NewestCanFit => Current \in DOMAIN request.units
  BY DEF SelectionIsSound
<1>1. RequestOK(request.units, request.budget)
  BY DEF ContextInv
<1> QED BY <1>1 DEF RequestOK, Fitted, Shown, CanFit, NewestCanFit

LEMMA ContextInitInv ==
    ASSUME ContextInit
    PROVE  ContextInv
<1>1. units = <<>> /\ phase = "idle" /\ fixed = 0
  BY DEF ContextInit
<1>2. History = {}
  BY <1>1 DEF History
<1>3. units \in Seq(UnitType)
  BY <1>1
<1> QED BY <1>1, <1>2, <1>3 DEF ContextInv, UnitsOK

\* A part of a unit gains an element.
LEMMA WithPart ==
    ASSUME NEW f \in PartType, NEW i \in Nat, NEW value \in Nat
    PROVE  With(f, i, value) \in PartType /\ DOMAIN With(f, i, value) = DOMAIN f \cup {i}
<1>1. DOMAIN f \in Domains /\ f \in [DOMAIN f -> Nat]
  BY PartHas
<1>2. DOMAIN f \cup {i} \in Domains
  BY <1>1, FS_AddElement DEF Domains
<1>3. With(f, i, value) \in [DOMAIN f \cup {i} -> Nat]
  BY <1>1 DEF With
<1> QED BY <1>2, <1>3, IsPart

\* The unit of the newest run becomes another.
LEMMA UnitReplaced ==
    ASSUME ContextInv, units # <<>>, NEW u \in UnitType,
           DOMAIN u.results \subseteq DOMAIN u.calls, Numbered(u),
           units' = [units EXCEPT ![Current] = u]
    PROVE  /\ UnitsOK' /\ (\A i \in History' : Numbered(units'[i]))
           /\ units' # <<>> /\ Current' = Current /\ units'[Current] = u
<1>1. units \in Seq(UnitType) /\ Current \in 1 .. Len(units)
  BY DEF ContextInv, UnitsOK, Current
<1>2. /\ units' \in Seq(UnitType) /\ Len(units') = Len(units) /\ units'[Current] = u
      /\ \A i \in 1 .. Len(units) : i # Current => units'[i] = units[i]
  BY <1>1
<1>3. Shown(u, u)
  BY DEF Shown
<1>4. /\ History' = History /\ Current' = Current
  BY <1>2 DEF History, Current
<1>5. ASSUME NEW i \in History PROVE Shown(units'[i], units'[i]) /\ Numbered(units'[i])
  <2>1. units'[i] = u \/ units'[i] = units[i]
    BY <1>2 DEF History
  <2>2. Shown(units[i], units[i]) /\ Numbered(units[i])
    BY DEF ContextInv, UnitsOK
  <2> QED BY <1>3, <2>1, <2>2
<1>6. units' # <<>>
  BY <1>1, <1>2
<1> QED BY <1>2, <1>4, <1>5, <1>6 DEF UnitsOK

LEMMA NewUnitOK ==
    ASSUME NEW size \in Nat
    PROVE  Shown(NewUnit(size), NewUnit(size)) /\ Numbered(NewUnit(size))
<1> DEFINE u == NewUnit(size)
<1>1. /\ u \in UnitType /\ u.calls = None /\ u.results = None
  BY NoneIsPart DEF NewUnit, UnitType
<1> HIDE DEF u
<1>2. Cardinality({}) = 0 /\ DOMAIN None = {}
  BY FS_EmptySet, NoneIsPart
<1>3. Shown(u, u) /\ Numbered(u)
  BY <1>1, <1>2 DEF Shown, Numbered
<1> QED BY <1>3 DEF u

LEMMA AskInv ==
    ASSUME ContextInv, NEW size \in Sizes, Ask(size)
    PROVE  ContextInv'
<1>1. size \in Nat
  BY ContextAssumption
<1>2. units \in Seq(UnitType) /\ NewUnit(size) \in UnitType
  BY <1>1, NewUnitOK DEF ContextInv, UnitsOK, Shown
<1>3. units' = Append(units, NewUnit(size)) /\ phase' = "turn" /\ fixed' = fixed
  BY DEF Ask
<1>4. /\ units' \in Seq(UnitType) /\ Len(units') = Len(units) + 1 /\ units' # <<>>
      /\ units'[Len(units) + 1] = NewUnit(size)
      /\ \A i \in 1 .. Len(units) : units'[i] = units[i]
  BY <1>2, <1>3
<1>5. ASSUME NEW i \in History' PROVE Shown(units'[i], units'[i]) /\ Numbered(units'[i])
  <2>1. Len(units) \in Nat /\ i \in 1 .. Len(units) + 1
    BY <1>2, <1>4 DEF History
  <2>2. CASE i = Len(units) + 1
    BY <1>1, <1>4, <2>2, NewUnitOK
  <2>3. CASE i \in 1 .. Len(units)
    BY <1>4, <2>3 DEF ContextInv, UnitsOK, History
  <2> QED BY <2>1, <2>2, <2>3
<1> QED BY <1>3, <1>4, <1>5 DEF ContextInv, UnitsOK

LEMMA CallInv ==
    ASSUME ContextInv, NEW size \in Sizes, NEW states, Call(size, states)
    PROVE  ContextInv'
<1> DEFINE round == Cardinality(DOMAIN units[Current].calls) + 1
           u == units[Current]
           more == With(u.calls, round, size)
           given == IF round \in states THEN With(u.states, round, size) ELSE u.states
           new == [request |-> u.request, states |-> given, calls |-> more, results |-> u.results]
<1>1. size \in Nat
  BY ContextAssumption
<1>2. /\ units # <<>> /\ units \in Seq(UnitType) /\ Current \in 1 .. Len(units)
  BY DEF ContextInv, UnitsOK, Current, Call
<1>3. u \in UnitType /\ DOMAIN u.results \subseteq DOMAIN u.calls /\ Numbered(u)
  BY <1>2 DEF ContextInv, UnitsOK, History, Shown
<1>4. round \in Nat /\ 1 <= round /\ DOMAIN u.calls = 1 .. round - 1 /\ IsFiniteSet(DOMAIN u.calls)
  <2>1. IsFiniteSet(DOMAIN u.calls)
    BY <1>3, PartHas DEF UnitType, Domains
  <2> QED BY <1>3, <2>1, FS_CardinalityType DEF Numbered
<1>5. more \in PartType /\ DOMAIN more = DOMAIN u.calls \cup {round}
  BY <1>1, <1>3, <1>4, WithPart DEF UnitType
<1>6. given \in PartType
  BY <1>1, <1>3, <1>4, WithPart DEF UnitType
<1>7. units' = [units EXCEPT ![Current] = new]
  <2>1. units' = [units EXCEPT ![Current].calls = more, ![Current].states = given]
    BY Zenon DEF Call
  <2>2. [[u EXCEPT !.calls = more] EXCEPT !.states = given] = new
    <3> HIDE DEF u, more, given
    <3>1. PICK r, s, c, q : u = [request |-> r, states |-> s, calls |-> c, results |-> q]
      BY <1>3 DEF UnitType
    <3>2. new = [request |-> r, states |-> given, calls |-> more, results |-> q]
      BY <3>1
    <3>3. [u EXCEPT !.calls = more] = [request |-> r, states |-> s, calls |-> more, results |-> q]
      BY <3>1
    <3> DEFINE called == [u EXCEPT !.calls = more]
    <3>4. called = [request |-> r, states |-> s, calls |-> more, results |-> q]
      BY <3>3
    <3> HIDE DEF new, called
    <3>5. [called EXCEPT !.states = given] = new
      BY <3>2, <3>4
    <3> QED BY <3>5 DEF called
  <2> HIDE DEF new, more, given
  <2> QED BY <1>2, <2>1, <2>2
<1>8. new \in UnitType /\ new.calls = more /\ new.results = u.results
  <2> HIDE DEF more, given
  <2> QED BY <1>3, <1>5, <1>6 DEF UnitType
<1> HIDE DEF new, more, given, u
<1>9. DOMAIN new.calls = 1 .. round /\ DOMAIN new.calls # {}
  BY <1>4, <1>5, <1>8
<1>10. Numbered(new) /\ DOMAIN new.results \subseteq DOMAIN new.calls
  <2>1. Cardinality(1 .. round) = round
    BY <1>4, FS_Interval
  <2> QED BY <1>3, <1>5, <1>8, <1>9, <2>1 DEF Numbered
<1>11. phase' = "tool" /\ fixed' = 0
  BY DEF Call
<1> HIDE DEF round
<1> QED BY <1>2, <1>7, <1>8, <1>9, <1>10, <1>11, UnitReplaced DEF ContextInv

LEMMA ResultInv ==
    ASSUME ContextInv, NEW size \in Sizes, Result(size)
    PROVE  ContextInv'
<1> DEFINE u == units[Current]
           round == Cardinality(DOMAIN u.calls)
           more == With(u.results, round, size)
           new == [u EXCEPT !.results = more]
<1>1. size \in Nat
  BY ContextAssumption
<1>2. units # <<>> /\ units \in Seq(UnitType) /\ Current \in 1 .. Len(units) /\ DOMAIN u.calls # {}
  BY DEF ContextInv, UnitsOK, Current, Result
<1>3. u \in UnitType /\ DOMAIN u.results \subseteq DOMAIN u.calls /\ Numbered(u)
  BY <1>2 DEF ContextInv, UnitsOK, History, Shown
<1>4. round \in Nat /\ round \in DOMAIN u.calls
  <2>1. IsFiniteSet(DOMAIN u.calls)
    BY <1>3, PartHas DEF UnitType, Domains
  <2>2. round \in Nat /\ round # 0
    BY <1>2, <2>1, FS_CardinalityType, FS_EmptySet
  <2>3. DOMAIN u.calls = 1 .. round
    BY <1>3 DEF Numbered
  <2> QED BY <2>2, <2>3
<1>5. more \in PartType /\ DOMAIN more = DOMAIN u.results \cup {round}
  BY <1>1, <1>3, <1>4, WithPart DEF UnitType
<1>6. units' = [units EXCEPT ![Current] = new]
  BY <1>2 DEF Result
<1>7. new \in UnitType /\ new.calls = u.calls /\ new.results = more
  <2> HIDE DEF more
  <2> QED BY <1>3, <1>5 DEF UnitType
<1>8. phase' = "turn" /\ fixed' = fixed
  BY DEF Result
<1> HIDE DEF new, more, round, u
<1>9. Numbered(new) /\ DOMAIN new.results \subseteq DOMAIN new.calls
  BY <1>3, <1>4, <1>5, <1>7 DEF Numbered
<1> QED BY <1>2, <1>6, <1>7, <1>8, <1>9, UnitReplaced DEF ContextInv

LEMMA RequestInv ==
    ASSUME ContextInv, units' = units, phase' = "sent", fixed' \in Nat, units # <<>>,
           RequestOK(request'.units, request'.budget)
    PROVE  ContextInv'
<1>1. RequestOK(request.units, request.budget)'
  BY Zenon DEF RequestOK, Fitted, CanFit, Selections, History, Current, Spent
<1>2. UnitsOK' /\ (\A i \in History : Numbered(units[i]))'
  BY DEF ContextInv, UnitsOK, History
<1> QED BY <1>1, <1>2 DEF ContextInv

LEMMA BuildInv ==
    ASSUME ContextInv, NEW cost \in FixedCosts, Build(cost)
    PROVE  ContextInv'
<1> DEFINE budget == Max({1, Limit - cost})
<1>1. cost \in Nat /\ budget \in Nat
  <2>1. cost \in Nat /\ Limit \in Nat
    BY ContextAssumption
  <2> QED BY <2>1, BudgetNat
<1>2. UnitsOK /\ units # <<>>
  BY DEF ContextInv, Build
<1>3. fixed' = cost /\ phase' = "sent" /\ units' = units /\ replay' = replay
  BY DEF Build
<1>4. HistoryBudget(Limit)' = budget
  BY <1>3 DEF HistoryBudget
<1> HIDE DEF budget
<1>5. request' = [units |-> Projected(SelectRecent(budget)), budget |-> budget, retry |-> FALSE]
  BY <1>4 DEF Build
<1>6. request'.units = Projected(SelectRecent(budget)) /\ request'.budget = budget
  BY <1>5
<1>7. RequestOK(Projected(SelectRecent(budget)), budget)
  BY <1>1, <1>2, BuiltOK
<1>8. RequestOK(request'.units, request'.budget)
  BY <1>6, <1>7
<1> QED BY <1>1, <1>2, <1>3, <1>8, RequestInv

LEMMA OverflowInv ==
    ASSUME ContextInv, Overflow
    PROVE  ContextInv'
<1> DEFINE budget == HistoryBudget(RetryLimit)
<1>1. fixed \in Nat /\ budget \in Nat
  <2>1. fixed \in Nat /\ RetryLimit \in Nat
    BY ContextAssumption DEF ContextInv
  <2> QED BY <2>1, BudgetNat DEF HistoryBudget
<1>2. UnitsOK /\ units # <<>>
  BY DEF ContextInv, Overflow
<1>3. fixed' = fixed /\ phase' = "sent" /\ units' = units
  BY DEF Overflow
<1>4. request' = [units |-> Projected(SelectRecent(budget)), budget |-> budget, retry |-> TRUE]
  BY DEF Overflow
<1> HIDE DEF budget
<1>5. request'.units = Projected(SelectRecent(budget)) /\ request'.budget = budget
  BY <1>4
<1>6. RequestOK(Projected(SelectRecent(budget)), budget)
  BY <1>1, <1>2, BuiltOK
<1>7. RequestOK(request'.units, request'.budget)
  BY <1>5, <1>6
<1> QED BY <1>1, <1>2, <1>3, <1>7, RequestInv

LEMMA StateRefusedInv ==
    ASSUME ContextInv, StateRefused
    PROVE  ContextInv'
<1> DEFINE whole == [i \in DOMAIN units |-> [units[i] EXCEPT !.states = None]]
<1>1. UnitsOK /\ units # <<>> /\ fixed \in Nat
  BY DEF ContextInv, StateRefused
<1>2. fixed' = fixed /\ phase' = "sent" /\ units' = units
  BY DEF ContextInv, StateRefused
<1>3. request' = [units |-> whole, budget |-> Spent(units), retry |-> TRUE]
  BY DEF StateRefused
<1>4. RequestOK(whole, Spent(units))
  BY <1>1, WholeOK
<1> HIDE DEF whole
<1>5. request'.units = whole /\ request'.budget = Spent(units)
  BY <1>3
<1>6. RequestOK(request'.units, request'.budget)
  BY <1>4, <1>5
<1> QED BY <1>1, <1>2, <1>6, RequestInv

LEMMA EndInv ==
    ASSUME ContextInv, End
    PROVE  ContextInv'
<1>1. phase' = "idle" /\ fixed' = 0 /\ units' = units
  BY DEF End
<1> QED BY <1>1 DEF ContextInv, UnitsOK, History

LEMMA ContextStutter ==
    ASSUME ContextInv, UNCHANGED context
    PROVE  ContextInv'
<1>1. phase' = phase /\ fixed' = fixed /\ units' = units /\ request' = request
  BY DEF context
<1>2. CASE phase = "sent"
  <2>1. RequestOK(request'.units, request'.budget) /\ units # <<>> /\ fixed \in Nat
    BY <1>1, <1>2 DEF ContextInv
  <2> QED BY <1>1, <1>2, <2>1, RequestInv
<1>3. CASE phase # "sent"
  BY <1>1, <1>3 DEF ContextInv, UnitsOK, History, Current
<1> QED BY <1>2, <1>3

LEMMA ContextStepInv ==
    ASSUME ContextInv, [ContextNext]_context
    PROVE  ContextInv'
<1>1. ASSUME NEW size \in Sizes, Ask(size) \/ Result(size) PROVE ContextInv'
  BY <1>1, AskInv, ResultInv
<1>2. ASSUME NEW size \in Sizes, NEW states \in {{}, 1 .. MaxRounds}, Call(size, states)
      PROVE  ContextInv'
  BY <1>2, CallInv
<1>3. ASSUME NEW cost \in FixedCosts, Build(cost) PROVE ContextInv'
  BY <1>3, BuildInv
<1>4. CASE Overflow \/ StateRefused \/ End
  BY <1>4, OverflowInv, StateRefusedInv, EndInv
<1>5. CASE UNCHANGED context
  BY <1>5, ContextStutter
<1> QED BY <1>1, <1>2, <1>3, <1>4, <1>5 DEF ContextNext

\* Whatever is asked, called, answered and refused, the runs of the session are whole and
\* the request that was built from them is sound.
THEOREM ContextInvariantHolds == ContextSpec => []ContextInv
<1>1. ContextInit => ContextInv
  BY ContextInitInv
<1>2. ContextInv /\ [ContextNext]_context => ContextInv'
  BY ContextStepInv
<1> QED BY <1>1, <1>2, PTL DEF ContextSpec

\* What the model is sent of a session fits its budget, has a call before every result, has
\* no state of a run that lost rounds, and has the run under way when it can.
THEOREM SelectionSound == ContextSpec => []SelectionIsSound
<1>1. ContextInv => SelectionIsSound
  BY SoundIsInvariant
<1> QED BY <1>1, ContextInvariantHolds, PTL
=============================================================================
