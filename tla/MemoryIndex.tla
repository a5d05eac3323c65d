---------------------------- MODULE MemoryIndex ----------------------------
(***************************************************************************)
(* The search index of the memory files of a worktree: memory/manager.py,  *)
(* memory/store.py and memory/chunking.py, and of memory/service.py the    *)
(* periodic loop and the archive of a session.  The files belong to the    *)
(* user, who edits them at any time; a sync scans them all and then        *)
(* reads again each one whose hash differs from the index.                 *)
(*                                                                         *)
(* A text is the set of entries in it; equal texts have equal hashes.      *)
(* Every change of a file gives it another time of modification.           *)
(***************************************************************************)
EXTENDS Integers, Sequences, FiniteSets, SequencesExt

CONSTANTS
    Paths,          \* the memory files, in the order a scan lists them
    Entries,        \* what can be in a file; the archive of a session is one
    Unstorable,     \* entries whose chunks collide: a long line that repeats itself
    MaxEdits, MaxEmbedFaults, MaxIndexRestarts,     \* bounds
    Absent

ASSUME IndexAssumption ==
    /\ Paths \in Seq(ToSet(Paths)) /\ IsInjective(Paths) /\ Paths # <<>>
    /\ Unstorable \subseteq Entries
    /\ {MaxEdits, MaxEmbedFaults, MaxIndexRestarts} \subseteq Nat
    /\ Absent \notin Entries

Files == ToSet(Paths)
Daily == Last(Paths)     \* today's file of archives

VARIABLES
    file,        \* the text and time of each file
    record,      \* the row of files: the text by its hash, and the time
    chunks,      \* the text that the chunks of each file hold
    embedded,    \* the texts whose embeddings are cached
    synced,      \* last_sync_ms: never, fresh or expired
    sync,        \* the task of the sync, with its scan
    edits, embedFaults, indexRestarts

index == <<file, record, chunks, embedded, synced, sync, edits, embedFaults, indexRestarts>>

NoFile == [text |-> Absent, time |-> 0]
NoSync == [stage |-> "none", scan |-> [p \in Files |-> NoFile], todo |-> {}, text |-> Absent]

IndexInit ==
    /\ file = [p \in Files |-> NoFile]
    /\ record = [p \in Files |-> NoFile]
    /\ chunks = [p \in Files |-> Absent]
    /\ embedded = {}
    /\ synced = "never"
    /\ sync = NoSync
    /\ edits = 0 /\ embedFaults = 0 /\ indexRestarts = 0

There(p) == file[p].text # Absent
Indexed(p) == record[p] # NoFile
Cached(text) == text \in embedded

-----------------------------------------------------------------------------
(* The files.                                                              *)

WriteFile(p, text) ==
    /\ edits < MaxEdits
    /\ edits' = edits + 1
    /\ file' = [file EXCEPT ![p] = IF text = Absent THEN NoFile
                                   ELSE [text |-> text, time |-> edits + 1]]

\* The user writes or removes a file, or saves it as it was.
Edit(p, text) ==
    /\ WriteFile(p, text)
    /\ UNCHANGED <<record, chunks, embedded, synced, sync, embedFaults, indexRestarts>>

-----------------------------------------------------------------------------
(* When to sync.                                                           *)

\* _is_index_stale compares the times, and never reads a file.
Stale == \/ synced # "fresh"
         \/ \E p \in Files : record[p].time # file[p].time

Expire ==
    /\ synced = "fresh"
    /\ synced' = "expired"
    /\ UNCHANGED <<file, record, chunks, embedded, sync, edits, embedFaults, indexRestarts>>

\* schedule_sync: one task at a time, and only a forced one when nothing is stale.
Scheduled(force) ==
    IF sync.stage = "none" /\ (force \/ Stale)
    THEN sync' = [NoSync EXCEPT !.stage = "scanning"]
    ELSE UNCHANGED sync

\* A search, or the periodic loop.
Schedule ==
    /\ sync.stage = "none" /\ Stale
    /\ Scheduled(FALSE)
    /\ UNCHANGED <<file, record, chunks, embedded, synced, edits, embedFaults, indexRestarts>>

\* The text of the file with the entry of one more session.
WithArchive(text, s) == text \cup {s}

\* archive_previous_session_for_new_session: once for each session and day; the
\* sync is not scheduled while another runs.
Archive(s) ==
    LET old == IF There(Daily) THEN file[Daily].text ELSE {}
    IN  /\ s \notin old
        /\ WriteFile(Daily, WithArchive(old, s))
        /\ Scheduled(TRUE)
        /\ UNCHANGED <<record, chunks, embedded, synced, embedFaults, indexRestarts>>

-----------------------------------------------------------------------------
(* A sync.                                                                 *)

Removed == {p \in Files : Indexed(p) /\ sync.scan[p] = NoFile}

\* _scan_files and list_files.
Scan ==
    /\ sync.stage = "scanning"
    /\ sync' = [sync EXCEPT !.stage = "deleting", !.scan = file,
                            !.todo = {p \in Files : There(p)}]
    /\ UNCHANGED <<file, record, chunks, embedded, synced, edits, embedFaults, indexRestarts>>

\* delete_paths.
DeletePaths ==
    /\ sync.stage = "deleting"
    /\ record' = [p \in Files |-> IF p \in Removed THEN NoFile ELSE record[p]]
    /\ chunks' = [p \in Files |-> IF p \in Removed THEN Absent ELSE chunks[p]]
    /\ sync' = [sync EXCEPT !.stage = "files"]
    /\ UNCHANGED <<file, embedded, synced, edits, embedFaults, indexRestarts>>

\* The files of the scan come in its order.
First(p) == \A q \in sync.todo : \E i, j \in DOMAIN Paths :
                                     i <= j /\ Paths[i] = p /\ Paths[j] = q
Rest(p)  == sync.todo \ {p}
Skips(p) == record[p].text = sync.scan[p].text

\* The next file of the scan: its hash is in the index already, or it is read
\* again, with the embeddings the cache has; it may be gone by now.
NextFile ==
    /\ sync.stage = "files"
    /\ \E p \in sync.todo :
          /\ First(p)
          /\ \/ Skips(p) /\ sync' = [sync EXCEPT !.todo = Rest(p)]
             \/ /\ ~Skips(p) /\ There(p)
                /\ sync' = [sync EXCEPT !.text = file[p].text,
                                        !.stage = IF Cached(file[p].text) THEN "storing"
                                                                             ELSE "embedding"]
             \/ ~Skips(p) /\ ~There(p) /\ sync' = NoSync
    /\ UNCHANGED <<file, record, chunks, embedded, synced, edits, embedFaults, indexRestarts>>

\* The provider of embeddings answers, or fails, and then the sync does too.
Embed ==
    /\ sync.stage = "embedding"
    /\ embedded' = embedded \cup {sync.text}
    /\ sync' = [sync EXCEPT !.stage = "storing"]
    /\ UNCHANGED <<file, record, chunks, synced, edits, embedFaults, indexRestarts>>

EmbedFails ==
    /\ sync.stage = "embedding" /\ embedFaults < MaxEmbedFaults
    /\ embedFaults' = embedFaults + 1
    /\ sync' = NoSync
    /\ UNCHANGED <<file, record, chunks, embedded, synced, edits, indexRestarts>>

\* A mutant: the row is given the time of the file as it is stored.
RowNow(p) == [text |-> sync.scan[p].text, time |-> file[p].time]

\* The row of a file is the one the scan made.
Row(p) == sync.scan[p]

\* chunk_markdown gives two chunks of a text one id.
Collides(text) == text \cap Unstorable # {}

\* replace_file, in one transaction; a collision undoes it and ends the sync.
ReplaceFile ==
    /\ sync.stage = "storing"
    /\ \E p \in sync.todo :
          /\ First(p)
          /\ \/ /\ ~Collides(sync.text)
                /\ record' = [record EXCEPT ![p] = Row(p)]
                /\ chunks' = [chunks EXCEPT ![p] = sync.text]
                /\ sync' = [sync EXCEPT !.stage = "files", !.todo = Rest(p), !.text = Absent]
             \/ /\ Collides(sync.text)
                /\ sync' = NoSync
                /\ UNCHANGED <<record, chunks>>
    /\ UNCHANGED <<file, embedded, synced, edits, embedFaults, indexRestarts>>

\* last_sync_ms, here and in the table meta.
FinishSync ==
    /\ sync.stage = "files" /\ sync.todo = {}
    /\ synced' = "fresh"
    /\ sync' = NoSync
    /\ UNCHANGED <<file, record, chunks, embedded, edits, embedFaults, indexRestarts>>

\* The process starts again and reads meta.
IndexRestart ==
    /\ indexRestarts < MaxIndexRestarts /\ sync.stage # "none"
    /\ indexRestarts' = indexRestarts + 1
    /\ sync' = NoSync
    /\ UNCHANGED <<file, record, chunks, embedded, synced, edits, embedFaults>>

IndexNext ==
    \/ \E p \in Files, text \in (SUBSET Entries) \cup {Absent} : Edit(p, text)
    \/ \E s \in Entries \ Unstorable : Archive(s)
    \/ Expire \/ Schedule \/ Scan \/ DeletePaths \/ NextFile \/ Embed \/ EmbedFails
    \/ ReplaceFile \/ FinishSync \/ IndexRestart

-----------------------------------------------------------------------------
(* Search.                                                                 *)

\* The rows search_bm25 and load_vector_rows join with the files.
Rows == {p \in Files : chunks[p] # Absent}

\* search: the files in which an entry is found, by words or by its embedding;
\* the sync it schedules does not come before the answer.
Hits(entry) == {p \in Rows : entry \in chunks[p]}

-----------------------------------------------------------------------------
(* Properties.                                                             *)

\* An index that is not taken for stale is right: what a search finds is what
\* the files have, whatever was edited, removed, archived or restarted while a
\* sync scanned, read and stored them at three different times.
FreshIndexIsRight ==
    ~Stale => \A entry \in Entries : Hits(entry) = {p \in Files : There(p) /\ entry \in file[p].text}
=============================================================================
