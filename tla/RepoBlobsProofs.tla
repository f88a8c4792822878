--------------------------- MODULE RepoBlobsProofs ---------------------------
(***************************************************************************)
(* No blob is lost: every chunk row has its blob, every listed backup can  *)
(* be restored, GC collects exactly the rest, and readers see the file     *)
(* store of module FileStore.  For all constants, as long as the local     *)
(* Meta is not replaced by a backup (CanLoseMeta): a restore brings back   *)
(* rows that no file references, whose blobs GC may have deleted.          *)
(*                                                                         *)
(* The argument is about what is Promised: the blobs of the chunk rows and *)
(* of the rows that backups reference.  A blob is promised after it was    *)
(* stored, by the INSERT of its row; a backup promises what a row already  *)
(* does.  The two who delete blobs, an upload that lost a race and GC,     *)
(* delete what is not promised and will not be.                            *)
(*                                                                         *)
(* The last section, about the contents that sessions store, needs neither *)
(* that argument nor that assumption.                                      *)
(***************************************************************************)
EXTENDS RepoProofs

\* The backups: those in the backend and the one being made.
Snapshots == {snaps[n] : n \in DOMAIN snaps} \union {bk.snap}

\* The blobs that rows and backups name, with the contents they must have.
RowPairs  == { <<chunks[c].blob, chunks[c].hash>> : c \in DOMAIN chunks }
SnapPairs == UNION { SnapRefs(s) : s \in Snapshots }
Promised  == RowPairs \union SnapPairs

\* A block task between its start and its end belongs to a file being stored.
Started   == TaskStates \ {"none", "ok", "err"}
PhasePart == \A t \in Tasks : task[t].st \in Started => pc[t[1]] = "store"

\* Uploaders have blob names of their own, which nobody else was given.
NamesPart ==
    /\ \A t \in Tasks : task[t].st \in Uploading => task[t].blob < nextBlob
    /\ \A t, u \in Tasks :
            task[t].st \in Uploading /\ task[u].st \in Uploading /\ task[t].blob = task[u].blob
                => t = u
    /\ \A r \in Promised : r[1] < nextBlob
    /\ \A r \in Promised : \A t \in Tasks : task[t].st \in Uploading => task[t].blob # r[1]
    /\ \A c, d \in DOMAIN chunks : chunks[c].blob = chunks[d].blob => c = d

\* What is promised is stored, and so is what is about to be.
StoredPart ==
    /\ Promised \subseteq BlobPairs(blobs)
    /\ \A t \in Tasks : task[t].st = "insert" =>
            <<task[t].blob, task[t].hash>> \in BlobPairs(blobs)

\* GC's garbage is not promised: blobs of rows still there are blobs of dead
\* rows, and after the backups were asked none is a backup's.
GarbagePart ==
    /\ gc.pc \in {"protect", "rows", "blobs"} =>
            \A c \in DOMAIN chunks : chunks[c].blob \in gc.garbage => c \in gc.dead
    /\ gc.pc = "blobs" => gc.dead = {}
    /\ gc.pc \in {"rows", "blobs"} => \A r \in SnapPairs : r[1] \notin gc.garbage

\* The name of a backup that may still be dropped; all other objects stay, but
\* for the pruning that keeps the newest.
Unsettled == IF bk.pc \in {"snapshot", "upload", "verify", "drop"} THEN {bk.name} ELSE {}

\* A blob that no referenced row names is garbage, or a backup was asked.
ReferencedBlobs == {chunks[c].blob : c \in Referenced(files) \intersect DOMAIN chunks}
OrphanPart ==
    /\ gc.pc = "scan" => gc.listed = DOMAIN blobs
    /\ gc.pc = "protect" => DOMAIN blobs \subseteq ReferencedBlobs \union gc.garbage
    /\ gc.pc \in {"rows", "blobs"} /\ ~gc.failed /\ DOMAIN snaps \subseteq Unsettled =>
            DOMAIN blobs \subseteq ReferencedBlobs \union gc.garbage

\* The verified backup is the newest one, but for the one being made.
NewestPart ==
    /\ bk.pc = "idle" => ~bk.snap.ok
    /\ bk.pc \in {"upload", "verify"} => bk.snap.ok
    /\ DOMAIN snaps \subseteq 1 .. bk.name
    /\ verified # 0 => verified \in DOMAIN snaps /\ snaps[verified].ok
    /\ bk.pc \in {"snapshot", "upload", "verify", "drop"} => verified < bk.name
    /\ bk.pc = "prune" => verified = bk.name
    /\ verified <= bk.name

BlobsInv ==
    /\ ~CanLoseMeta
    /\ FilesInv
    /\ PhasePart /\ NamesPart /\ StoredPart /\ GarbagePart /\ OrphanPart /\ NewestPart

-----------------------------------------------------------------------------
\* Membership in Promised, without the sets of sets.
LEMMA PromisedMember ==
    \A r : r \in Promised <=>
        \/ \E c \in DOMAIN chunks : r = <<chunks[c].blob, chunks[c].hash>>
        \/ r \in SnapPairs
BY DEF Promised, RowPairs

\* A pair of the snapshots is one of a stored snapshot or of the one being made.
LEMMA SnapPairsMember ==
    \A r : r \in SnapPairs <=>
        \/ \E n \in DOMAIN snaps : r \in SnapRefs(snaps[n])
        \/ r \in SnapRefs(bk.snap)
BY DEF SnapPairs, Snapshots

\* A pair of the backend names a blob of the backend.
LEMMA PairStored ==
    \A b, h : <<b, h>> \in BlobPairs(blobs) <=> b \in DOMAIN blobs /\ blobs[b] = h
BY DEF BlobPairs

\* The four properties are consequences of BlobsInv.
LEMMA BlobsInvImplies ==
    BlobsInv => /\ RowsHaveBlobs /\ SnapshotsRestorable
                /\ VerifiedBackupRestorable /\ GCLeavesNoOrphans
<1> SUFFICES ASSUME BlobsInv
             PROVE  /\ RowsHaveBlobs /\ SnapshotsRestorable
                    /\ VerifiedBackupRestorable /\ GCLeavesNoOrphans
    OBVIOUS
<1>1. RowsHaveBlobs
    BY PromisedMember DEF BlobsInv, StoredPart, RowsHaveBlobs
<1>2. \A n \in DOMAIN snaps : SnapRefs(snaps[n]) \subseteq BlobPairs(blobs)
    BY PromisedMember, SnapPairsMember DEF BlobsInv, StoredPart
<1>3. SnapshotsRestorable
    BY <1>2 DEF SnapshotsRestorable, Restorable
<1>4. VerifiedBackupRestorable
    BY <1>2 DEF VerifiedBackupRestorable, Restorable, BlobsInv, NewestPart
<1>5. GCLeavesNoOrphans
    <2> SUFFICES ASSUME gc.pc = "blobs", gc.garbage = {}, ~gc.failed, DOMAIN snaps = {}
                 PROVE  DOMAIN blobs = {chunks[c].blob : c \in Referenced(files)}
        BY DEF GCLeavesNoOrphans
    <2>1. Referenced(files) \subseteq DOMAIN chunks
        <3>1. \A p \in DOMAIN files : IdsOf(files[p]) \subseteq DOMAIN chunks
            BY DEF BlobsInv, FilesInv, Inv, DBPart, DBOk, DBInv, NoDangling
        <3>2. QED
            BY <3>1 DEF Referenced
    <2>2. Referenced(files) \intersect DOMAIN chunks = Referenced(files)
        BY <2>1
    <2>3. DOMAIN blobs \subseteq {chunks[c].blob : c \in Referenced(files)}
        BY <2>2 DEF BlobsInv, OrphanPart, ReferencedBlobs
    <2>4. \A c \in Referenced(files) : chunks[c].blob \in DOMAIN blobs
        <3> SUFFICES ASSUME NEW c \in Referenced(files) PROVE chunks[c].blob \in DOMAIN blobs
            OBVIOUS
        <3>1. <<chunks[c].blob, chunks[c].hash>> \in BlobPairs(blobs)
            BY <1>1, <2>1 DEF RowsHaveBlobs
        <3>2. QED
            BY <3>1, PairStored
    <2>5. QED
        BY <2>3, <2>4
<1>6. QED
    BY <1>1, <1>3, <1>4, <1>5

\* Nothing is promised in the beginning.
LEMMA InitBlobs == ~CanLoseMeta /\ Init => BlobsInv
<1> SUFFICES ASSUME ~CanLoseMeta, Init PROVE BlobsInv
    OBVIOUS
<1>1. FilesInv
    BY InitFiles
<1>2. DOMAIN << >> = {}
    OBVIOUS
<1>3. DOMAIN chunks = {} /\ DOMAIN snaps = {} /\ bk.pc = "idle" /\ ~bk.snap.ok /\ verified = 0
    BY <1>2 DEF Init, NoBk, NoSnap
<1>4. Promised = {}
    BY <1>3 DEF Promised, RowPairs, SnapPairs, Snapshots, SnapRefs
<1>5. \A t \in Tasks : task[t].st = "none"
    BY DEF Init, NoTask
<1>6. gc.pc = "idle"
    BY DEF Init, NoGC
<1>7. PhasePart
    BY <1>5 DEF PhasePart, Started
<1>8. NamesPart
    <2>1. \A t \in Tasks : task[t].st \notin Uploading
        BY <1>5 DEF Uploading
    <2>2. QED
        BY <1>3, <1>4, <2>1 DEF NamesPart
<1>9. StoredPart
    BY <1>4, <1>5 DEF StoredPart
<1>10. GarbagePart /\ OrphanPart
    BY <1>6 DEF GarbagePart, OrphanPart
<1>11. bk.name = 0
    BY DEF Init, NoBk
<1>12. NewestPart
    BY <1>3, <1>11 DEF NewestPart
<1>13. QED
    BY <1>1, <1>7, <1>8, <1>9, <1>10, <1>12 DEF BlobsInv

-----------------------------------------------------------------------------
(* What a step does to the manifest: rows keep hash and blob while they    *)
(* exist, and at most one path changes.                                    *)

RowsKept ==
    /\ DOMAIN chunks' \subseteq DOMAIN chunks
    /\ \A c \in DOMAIN chunks' : /\ chunks'[c].hash = chunks[c].hash
                                 /\ chunks'[c].blob = chunks[c].blob

OthersKept(p) == \A q \in DOMAIN files \ {p} : files'[q] = files[q]
SameFiles     == DOMAIN files' = DOMAIN files /\ \A q \in DOMAIN files : files'[q] = files[q]
Writes(p)     == DOMAIN files' = DOMAIN files \union {p} /\ OthersKept(p)
Removes(p)    == DOMAIN files' = DOMAIN files \ {p} /\ OthersKept(p)

FileStep == SameFiles \/ (\E p \in Paths : Writes(p)) \/ (\E p \in DOMAIN files : Removes(p))

\* UpsertFile, DeleteFile and the deletion of unreferenced rows.
LEMMA WriteStep ==
    ASSUME DBOk(files, chunks), NEW p \in Paths, NEW refs, NEW body, IsTable(refs, Idx, Int),
           UpsertAllowed(files, chunks, p, refs), WriteFile(p, refs, body)
    PROVE  RowsKept /\ FileStep
<1>1. Rows(chunks) /\ DBInv(files, chunks) /\ IsBlockList(refs)
    BY ManifestRows, ListTyped DEF DBOk
<1>2. Keeps(files, chunks, p, files', chunks') /\ DOMAIN files' = DOMAIN files \union {p}
    <2>1. UpsertAllowed(files, chunks, p, refs)
        OBVIOUS
    <2>2. Keeps(files, chunks, p, UpsertFiles(files, chunks, p, refs), UpsertChunks(files, chunks, p, refs))
        BY <1>1, <2>1, UpsertFileCorrect
    <2>3. DOMAIN UpsertFiles(files, chunks, p, refs) = DOMAIN files \union {p}
        BY DEF UpsertFiles
    <2>4. QED
        BY <2>2, <2>3 DEF WriteFile
<1>3. QED
    BY <1>2 DEF Keeps, RowsKept, FileStep, Writes, OthersKept

\* DeleteFile takes references of one file away and keeps all rows referenced elsewhere.
LEMMA RemoveStep ==
    ASSUME DBOk(files, chunks), NEW p, RemoveFile(p)
    PROVE  RowsKept /\ FileStep
<1>1. Rows(chunks) /\ DBInv(files, chunks)
    BY ManifestRows DEF DBOk
<1>2. Keeps(files, chunks, p, files', chunks') /\ DOMAIN files' = DOMAIN files \ {p}
    BY <1>1, DeleteFileCorrect DEF RemoveFile
<1>3. CASE p \in DOMAIN files
    BY <1>2, <1>3 DEF Keeps, RowsKept, FileStep, Removes, OthersKept
<1>4. CASE p \notin DOMAIN files
    BY <1>2, <1>4 DEF Keeps, RowsKept, FileStep, SameFiles
<1>5. QED
    BY <1>3, <1>4

\* Deleting unreferenced rows takes no reference away.
LEMMA DropStep ==
    ASSUME DBOk(files, chunks), NEW dead, \A c \in dead : Unreferenced(files, c),
           RemoveChunks(dead)
    PROVE  RowsKept /\ SameFiles
<1>1. Rows(chunks) /\ DBInv(files, chunks)
    BY ManifestRows DEF DBOk
<1>2. SameFiles
    BY <1>1, RemoveRowsCorrect DEF RemoveChunks, SameFiles
<1>3. RowsKept
    BY DEF RemoveChunks, RowsKept, Without
<1>4. QED
    BY <1>2, <1>3

\* A step that leaves the manifest alone.
LEMMA NoStep == UNCHANGED <<files, chunks>> => RowsKept /\ SameFiles
BY DEF RowsKept, SameFiles

\* The list a writer commits is typed and its path known.
LEMMA CommitTyped ==
    ASSUME Inv, NEW w \in Writers, pc[w] \in {"store", "commit"}
    PROVE  path[w] \in Paths /\ IsTable(ChunkRefs(w), Idx, Int)
<1>1. path[w] \in Paths
    BY DEF Inv, PathPart
<1>2. ASSUME NEW i \in Blocks(w)
      PROVE  i \in Idx /\ task[<<w, i>>].id \in Int
    BY BoundsAssumption DEF Blocks, Tasks, Inv, TaskPart, GoodTasks
<1>3. QED
    BY <1>1, <1>2 DEF ChunkRefs, IsTable

\* No step of a writer, of DELETE or MOVE, or of GC does more than that, and
\* only a file block's INSERT adds a row.
LEMMA PutRows ==
    ASSUME FilesInv, NEW w \in Puts, PutStep(w)
    PROVE  RowsKept /\ FileStep
<1>1. Inv /\ DBOk(files, chunks) /\ w \in Writers
    BY DEF FilesInv, Inv, DBPart, Writers
<1>2. CASE PutCommit(w)
    <2>1. path[w] \in Paths /\ IsTable(ChunkRefs(w), Idx, Int)
        BY <1>1, <1>2, CommitTyped DEF PutCommit
    <2>2. QED
        BY <1>1, <1>2, <2>1, WriteStep DEF PutCommit
<1>3. CASE PutCleanup(w)
    <2>1. PICK t \in TasksOf(w) : \/ RemoveChunks(DeleteChunkIfZeroIds(chunks, task[t].id))
                                  \/ UNCHANGED db
        BY <1>3 DEF PutCleanup
    <2>2. \A c \in DeleteChunkIfZeroIds(chunks, task[t].id) : Unreferenced(files, c)
        BY <1>1, ZeroIdsUnreferenced
    <2>3. QED
        BY <1>1, <2>1, <2>2, DropStep, NoStep DEF db, FileStep
<1>4. CASE UNCHANGED db
    BY <1>4, NoStep DEF db, FileStep
<1>5. QED
    BY <1>2, <1>3, <1>4 DEF PutStep, PutStart, PutGiveUp, PutLock, PutCommitFails, PutFailed

\* What a step of an rsync session does to rows and files.
LEMMA SessionRows ==
    ASSUME FilesInv, NEW w \in Sessions, SessionStep(w)
    PROVE  RowsKept /\ FileStep
<1>1. Inv /\ DBOk(files, chunks) /\ w \in Writers
    BY DEF FilesInv, Inv, DBPart, Writers
<1>2. CASE SessionUpsert(w)
    <2>1. path[w] \in Paths /\ IsTable(ChunkRefs(w), Idx, Int)
        BY <1>1, <1>2, CommitTyped DEF SessionUpsert
    <2>2. QED
        BY <1>1, <1>2, <2>1, WriteStep DEF SessionUpsert
<1>3. CASE SessionDelete(w)
    BY <1>1, <1>3, RemoveStep DEF SessionDelete
<1>4. CASE UNCHANGED db
    BY <1>4, NoStep DEF db, FileStep
<1>5. QED
    BY <1>2, <1>3, <1>4 DEF SessionStep, SessionStart, SessionFile, SessionEnd

\* What a step of a tree operation does to rows and files.
LEMMA TreeRows == FilesInv /\ TreeStep => RowsKept /\ FileStep
<1> SUFFICES ASSUME FilesInv, TreeStep PROVE RowsKept /\ FileStep
    OBVIOUS
<1>1. DBOk(files, chunks) /\ IsManifest(files, chunks)
    BY DEF FilesInv, Inv, DBPart, DBOk
<1>2. CASE TreeDeleteRow
    BY <1>1, <1>2, RemoveStep DEF TreeDeleteRow
<1>3. CASE MoveUpsert
    <2>1. op.dst \in Paths
        BY <1>3 DEF MoveUpsert, FilesInv, Inv, OpPart
    <2>2. IsTable(GetFileChunks(files, op.src), Idx, Int)
        BY <1>1, GetFileChunksTyped
    <2>3. QED
        BY <1>1, <1>3, <2>1, <2>2, WriteStep DEF MoveUpsert
<1>4. CASE UNCHANGED db
    BY <1>4, NoStep DEF db, FileStep
<1>5. QED
    BY <1>2, <1>3, <1>4 DEF TreeStep, DeletePathStart, MovePathStart, TreeOpEnd

\* What a step of GC does to rows and files: none of a file goes.
LEMMA GCRows == FilesInv /\ GCStep => RowsKept /\ SameFiles
<1> SUFFICES ASSUME FilesInv, GCStep PROVE RowsKept /\ SameFiles
    OBVIOUS
<1>1. CASE GCDeleteRow
    <2>1. PICK c \in gc.dead : RemoveChunks(DeleteChunkIds(chunks, c))
        BY <1>1 DEF GCDeleteRow
    <2>2. \A d \in DeleteChunkIds(chunks, c) : Unreferenced(files, d)
        BY <1>1 DEF GCDeleteRow, FilesInv, DeadPart, DeleteChunkIds
    <2>3. QED
        BY <2>1, <2>2, DropStep DEF FilesInv, Inv, DBPart
<1>2. CASE UNCHANGED db
    BY <1>2, NoStep DEF db
<1>3. QED
    BY <1>1, <1>2 DEF GCStep, GCRequest, GCLockMaintenance, GCLockWrite, GCList, GCScan, GCProtect,
       GCRowsDone, GCDeleteBlob, GCFinish, GCAbort

-----------------------------------------------------------------------------
(* What a step does to the block tasks.                                    *)

\* Nobody becomes an uploader or stores another blob.
UploadsKept == \A t \in Tasks :
    /\ task'[t].st \in Uploading => /\ task[t].st \in Uploading
                                    /\ task'[t].blob = task[t].blob
                                    /\ task'[t].hash = task[t].hash
    /\ task'[t].st = "insert" => task[t].st = "insert"

\* A settled result is published: the waiters settle too, the others stay.
LEMMA PublishSettles ==
    ASSUME TaskPart, NEW t \in Tasks, NEW r, r.st \in {"ok", "err"}, Publish(t, r), NEW u \in Tasks
    PROVE  task'[u].st \in {"ok", "err"} \/ (u # t /\ task'[u] = task[u])
<1>1. task[u] \in GoodTasks
    BY DEF TaskPart
<1>2. CASE u = t
    BY <1>2 DEF Publish
<1>3. CASE u # t /\ u \in Waiters(t)
    <2>1. task'[u] = [task[u] EXCEPT !.st = r.st, !.id = r.id]
        BY <1>3 DEF Publish
    <2>2. QED
        BY <1>1, <2>1 DEF GoodTasks
<1>4. CASE u # t /\ u \notin Waiters(t)
    BY <1>4 DEF Publish
<1>5. QED
    BY <1>2, <1>3, <1>4

\* One task takes another state, its blob and hash stay.
LEMMA OneTaskMoves ==
    ASSUME TaskPart, NEW t \in Tasks, NEW q
    PROVE  /\ task' = [task EXCEPT ![t].st = q] =>
                \A u \in Tasks : IF u = t THEN /\ task'[u].st = q
                                                /\ task'[u].blob = task[u].blob
                                                /\ task'[u].hash = task[u].hash
                                  ELSE task'[u] = task[u]
           /\ \A c : task' = [task EXCEPT ![t].st = q, ![t].id = c] =>
                \A u \in Tasks : IF u = t THEN /\ task'[u].st = q
                                                /\ task'[u].blob = task[u].blob
                                                /\ task'[u].hash = task[u].hash
                                  ELSE task'[u] = task[u]
<1>1. task \in [Tasks -> GoodTasks] /\ task[t] \in GoodTasks
    BY DEF TaskPart
<1>2. QED
    BY <1>1 DEF GoodTasks

\* The blocks of a file that is started or ended are not uploading.
LEMMA StartClearMoves ==
    ASSUME NEW w \in Writers, NEW u \in Tasks
    PROVE  /\ \A body \in Bodies : StartTasks(w, body) =>
                IF u[1] = w THEN task'[u].st \in {"none", "todo"} ELSE task'[u] = task[u]
           /\ ClearTasks(w) =>
                IF u[1] = w THEN task'[u].st = "none" ELSE task'[u] = task[u]
<1>1. NoTask \in [st : {"none"}, hash : {None}, id : {0}, new : {FALSE}, blob : {0}]
    BY DEF NoTask
<1>2. \A h : [NoTask EXCEPT !.st = "todo", !.hash = h].st = "todo"
    BY <1>1 DEF NoTask
<1>3. ASSUME NEW body \in Bodies, StartTasks(w, body)
      PROVE  IF u[1] = w THEN task'[u].st \in {"none", "todo"} ELSE task'[u] = task[u]
    <2>1. task'[u] = IF u[1] # w THEN task[u]
                     ELSE IF u[2] \in DOMAIN body
                          THEN [NoTask EXCEPT !.st = "todo", !.hash = body[u[2]]]
                          ELSE NoTask
        BY <1>3 DEF StartTasks
    <2>2. QED
        BY <1>1, <1>2, <2>1
<1>4. ASSUME ClearTasks(w)
      PROVE  IF u[1] = w THEN task'[u].st = "none" ELSE task'[u] = task[u]
    BY <1>1, <1>4 DEF ClearTasks
<1>5. QED
    BY <1>3, <1>4

\* No step of StoreChunk starts a task.
LEMMA NothingStarts ==
    ASSUME Inv, NEW t \in Tasks, StoreChunk(t), NEW u \in Tasks, task'[u].st \in Started
    PROVE  task[u].st \in Started
<1>1. TaskPart /\ task[t] \in GoodTasks /\ task[u] \in GoodTasks
    BY DEF Inv, TaskPart
<1>2. task[t].st \in Started
    BY DEF StoreChunk, FindChunk, AbandonTask, Register, PutBlob, PutBlobFails,
       InsertRow, InsertFails, Refind, DropDuplicate, Started, TaskStates, Uploading
<1>3. u # t => (task[u].st = task'[u].st \/ task'[u].st \in {"ok", "err"})
    <2>1. \A r : r.st \in {"ok", "err"} /\ Publish(t, r) =>
                task'[u].st \in {"ok", "err"} \/ (u # t /\ task'[u] = task[u])
        BY <1>1, PublishSettles
    <2>2. /\ Failed(t).st = "err"
          /\ [task[t] EXCEPT !.st = "ok"].st = "ok"
          /\ \A id : [task[t] EXCEPT !.st = "ok", !.id = id, !.new = TRUE].st = "ok"
        BY <1>1 DEF Failed, GoodTasks
    <2>3. CASE PutBlobFails(t) \/ InsertRow(t) \/ DropDuplicate(t)
        BY <2>1, <2>2, <2>3 DEF PutBlobFails, InsertRow, DropDuplicate
    <2>4. CASE FindChunk(t) \/ AbandonTask(t) \/ Register(t) \/ PutBlob(t) \/ InsertFails(t)
        BY <1>1, <2>4 DEF FindChunk, AbandonTask, Register, PutBlob, InsertFails, TaskPart
    <2>5. CASE Refind(t)
        BY <1>1, <2>1, <2>2, <2>5 DEF Refind, TaskPart
    <2>6. QED
        BY <2>3, <2>4, <2>5 DEF StoreChunk
<1>4. QED
    BY <1>2, <1>3 DEF Started

\* PhasePart speaks of the uploads.
LEMMA PhaseFrame ==
    PhasePart /\ UNCHANGED upl => PhasePart'
BY DEF PhasePart, upl

\* No step leaves a started task behind.
LEMMA PhaseKept ==
    ASSUME FilesInv, PhasePart
    PROVE  /\ \A t \in Tasks : StoreChunk(t) => PhasePart'
           /\ \A w \in Puts : PutStep(w) => PhasePart'
           /\ \A w \in Sessions : SessionStep(w) => PhasePart'
           /\ Down => PhasePart'
<1>1. Inv /\ TaskPart /\ pc \in [Writers -> Phases] /\ task \in [Tasks -> GoodTasks]
    BY DEF FilesInv, Inv, PathPart, TaskPart
<1>2. \A u \in Tasks : u[1] \in Writers
    BY DEF Tasks
<1>3. ASSUME NEW t \in Tasks, StoreChunk(t) PROVE PhasePart'
    <2>1. UNCHANGED pc
        BY <1>3 DEF StoreChunk, FindChunk, AbandonTask, Register, PutBlob, PutBlobFails,
           InsertRow, InsertFails, Refind, DropDuplicate
    <2>2. QED
        BY <1>1, <1>3, <2>1, NothingStarts DEF PhasePart
<1>4. ASSUME NEW w \in Writers, NEW q \in Phases, pc' = [pc EXCEPT ![w] = q],
             \/ UNCHANGED task /\ \A u \in Tasks : u[1] = w => task[u].st \notin Started
             \/ q = "store" /\ \E body \in Bodies : StartTasks(w, body)
             \/ ClearTasks(w)
      PROVE  PhasePart'
    <2> SUFFICES ASSUME NEW u \in Tasks, task'[u].st \in Started PROVE pc'[u[1]] = "store"
        BY DEF PhasePart
    <2>1. CASE UNCHANGED task /\ \A v \in Tasks : v[1] = w => task[v].st \notin Started
        BY <1>1, <1>2, <1>4, <2>1 DEF PhasePart
    <2>2. CASE u[1] # w /\ task'[u] = task[u]
        BY <1>1, <1>2, <1>4, <2>2 DEF PhasePart
    <2>3. CASE q = "store" /\ \E body \in Bodies : StartTasks(w, body)
        <3>1. CASE u[1] = w
            BY <1>1, <1>4, <2>3, <3>1
        <3>2. CASE u[1] # w
            BY <2>2, <2>3, <3>2, StartClearMoves
        <3>3. QED
            BY <3>1, <3>2
    <2>4. CASE ClearTasks(w)
        <3>1. u[1] # w
            BY <2>4, StartClearMoves DEF Started
        <3>2. QED
            BY <2>2, <2>4, <3>1, StartClearMoves
    <2>5. QED
        BY <1>4, <2>1, <2>3, <2>4
<1>5. ASSUME NEW w \in Writers, Settled(w) \/ pc[w] # "store", NEW u \in Tasks, u[1] = w
      PROVE  task[u].st \notin Started
    <2>1. u \in TasksOf(w)
        BY <1>5 DEF Tasks, TasksOf
    <2>2. QED
        BY <1>5, <2>1 DEF PhasePart, Settled, Started
<1>6. ASSUME NEW w \in Puts, PutStep(w) PROVE PhasePart'
    <2>1. w \in Writers /\ (AllOk(w) => Settled(w))
        BY DEF Writers, AllOk, Settled
    <2>2. CASE PutStart(w)
        BY <1>4, <2>1, <2>2 DEF PutStart, Phases
    <2>3. CASE PutGiveUp(w) \/ PutLock(w) \/ PutCommitFails(w)
        BY <1>4, <1>5, <2>1, <2>3 DEF PutGiveUp, PutLock, PutCommitFails, Phases
    <2>4. CASE PutCommit(w) \/ PutFailed(w)
        BY <1>4, <2>1, <2>4 DEF PutCommit, PutFailed, Phases
    <2>5. CASE PutCleanup(w)
        <3>1. PICK t \in TasksOf(w) : task' = [task EXCEPT ![t].new = FALSE]
            BY <2>5 DEF PutCleanup
        <3>2. t \in Tasks
            BY <2>1 DEF TasksOf, Tasks
        <3>3. \A u \in Tasks : task'[u].st = task[u].st
            BY <1>1, <3>1, <3>2 DEF GoodTasks
        <3>4. QED
            BY <2>5, <3>3 DEF PutCleanup, PhasePart
    <2>6. QED
        BY <1>6, <2>2, <2>3, <2>4, <2>5 DEF PutStep
<1>7. ASSUME NEW w \in Sessions, SessionStep(w) PROVE PhasePart'
    <2>1. w \in Writers
        BY DEF Writers
    <2>2. CASE SessionStart(w)
        BY <1>4, <1>5, <2>1, <2>2 DEF SessionStart, Phases
    <2>3. CASE SessionFile(w)
        BY <1>4, <2>1, <2>3 DEF SessionFile, Phases
    <2>4. CASE SessionUpsert(w) \/ SessionEnd(w)
        BY <1>4, <2>1, <2>4 DEF SessionUpsert, SessionEnd, Phases
    <2>5. CASE SessionDelete(w)
        BY <2>5, PhaseFrame DEF SessionDelete
    <2>6. QED
        BY <1>7, <2>2, <2>3, <2>4, <2>5 DEF SessionStep
<1>8. ASSUME Down PROVE PhasePart'
    BY <1>8 DEF Down, PhasePart, NoTask, Started
<1>9. QED
    BY <1>3, <1>6, <1>7, <1>8

-----------------------------------------------------------------------------
(* Promises and the backend.                                               *)

StorePart == NamesPart /\ StoredPart

\* Nothing new is promised when rows only go and the backups are the same.
LEMMA PromisesKept ==
    ASSUME RowsKept, SnapPairs' \subseteq SnapPairs
    PROVE  Promised' \subseteq Promised
<1>1. RowPairs' \subseteq RowPairs
    BY DEF RowPairs, RowsKept
<1>2. QED
    BY <1>1 DEF Promised

\* The snapshots that name blobs are the same as long as the backups are.
LEMMA BackupsKept == UNCHANGED <<bk, snaps>> => SnapPairs' = SnapPairs
BY DEF SnapPairs, Snapshots

\* A step that stores nothing, promises nothing and starts no upload.
LEMMA QuietStore ==
    ASSUME StorePart, UploadsKept, RowsKept, Promised' \subseteq Promised, UNCHANGED store
    PROVE  StorePart'
<1>1. NamesPart'
    <2>1. \A t \in Tasks : task'[t].st \in Uploading => task'[t].blob < nextBlob'
        BY DEF StorePart, NamesPart, UploadsKept, store
    <2>2. \A t, u \in Tasks :
            task'[t].st \in Uploading /\ task'[u].st \in Uploading /\ task'[t].blob = task'[u].blob
                => t = u
        BY DEF StorePart, NamesPart, UploadsKept
    <2>3. \A r \in Promised' : r[1] < nextBlob'
        BY DEF StorePart, NamesPart, store
    <2>4. \A r \in Promised' : \A t \in Tasks : task'[t].st \in Uploading => task'[t].blob # r[1]
        BY DEF StorePart, NamesPart, UploadsKept
    <2>5. \A c, d \in DOMAIN chunks' : chunks'[c].blob = chunks'[d].blob => c = d
        BY DEF StorePart, NamesPart, RowsKept
    <2>6. QED
        BY <2>1, <2>2, <2>3, <2>4, <2>5 DEF NamesPart
<1>2. StoredPart'
    <2>1. BlobPairs(blobs)' = BlobPairs(blobs)
        BY DEF store, BlobPairs
    <2>2. \A t \in Tasks : task'[t].st = "insert" =>
            <<task'[t].blob, task'[t].hash>> \in BlobPairs(blobs)
        BY DEF StorePart, StoredPart, UploadsKept, Uploading
    <2>3. QED
        BY <2>1, <2>2 DEF StorePart, StoredPart
<1>3. QED
    BY <1>1, <1>2 DEF StorePart

\* A blob may appear or go when nobody was promised it.
LEMMA PairsKept ==
    ASSUME NEW b, NEW h, NEW r \in BlobPairs(blobs), r[1] # b
    PROVE  /\ r \in BlobPairs(Without(blobs, {b}))
           /\ r \in BlobPairs([x \in DOMAIN blobs \union {b} |-> IF x = b THEN h ELSE blobs[x]])
BY DEF BlobPairs, Without

\* The backend changes in one blob, which is the one of an uploading task that
\* is settled or goes on to its INSERT.
LEMMA UploaderStore ==
    ASSUME StorePart, NEW t \in Tasks, task[t].st \in Uploading,
           UNCHANGED <<db, bk, snaps, nextBlob>>,
           blobs' \in {blobs, WithBlob(t), Without(blobs, {task[t].blob})},
           \A u \in Tasks : u # t /\ task'[u].st \in Uploading => task'[u] = task[u],
           task'[t].st \in Uploading => /\ task'[t].st = "insert"
                                        /\ task'[t].blob = task[t].blob
                                        /\ task'[t].hash = task[t].hash
                                        /\ blobs' = WithBlob(t)
    PROVE  StorePart'
<1> DEFINE b == task[t].blob
<1>1. RowsKept /\ Promised' = Promised
    BY NoStep, BackupsKept DEF db, Promised, RowPairs
<1>2. NamesPart'
    <2>1. UNCHANGED <<chunks, nextBlob>>
        BY DEF db
    <2>2. \A u \in Tasks : task'[u].st \in Uploading =>
                task[u].st \in Uploading /\ task'[u].blob = task[u].blob
        OBVIOUS
    <2>3. QED
        BY <1>1, <2>1, <2>2 DEF StorePart, NamesPart
<1>3. \A r \in BlobPairs(blobs) : r[1] # b => r \in BlobPairs(blobs')
    <2> SUFFICES ASSUME NEW r \in BlobPairs(blobs), r[1] # b PROVE r \in BlobPairs(blobs')
        OBVIOUS
    <2>1. CASE blobs' = blobs
        BY <2>1
    <2>2. CASE blobs' = WithBlob(t)
        <3>1. \A g : r \in BlobPairs([x \in DOMAIN blobs \union {b} |-> IF x = b THEN g ELSE blobs[x]])
            BY PairsKept
        <3>2. WithBlob(t) = [x \in DOMAIN blobs \union {b} |-> IF x = b THEN task[t].hash ELSE blobs[x]]
            BY DEF WithBlob
        <3>3. QED
            BY <2>2, <3>1, <3>2
    <2>3. CASE blobs' = Without(blobs, {b})
        BY <2>3, PairsKept
    <2>4. QED
        BY <2>1, <2>2, <2>3
<1>4. Promised' \subseteq BlobPairs(blobs')
    BY <1>1, <1>3 DEF StorePart, StoredPart, NamesPart
<1>5. ASSUME NEW u \in Tasks, task'[u].st = "insert"
      PROVE  <<task'[u].blob, task'[u].hash>> \in BlobPairs(blobs')
    <2>1. "insert" \in Uploading
        BY DEF Uploading
    <2>2. CASE u = t
        <3>1. blobs' = WithBlob(t) /\ task'[u].blob = b /\ task'[u].hash = task[t].hash
            BY <1>5, <2>1, <2>2
        <3>2. b \in DOMAIN WithBlob(t) /\ WithBlob(t)[b] = task[t].hash
            BY DEF WithBlob
        <3>3. QED
            BY <3>1, <3>2 DEF BlobPairs
    <2>3. CASE u # t
        <3>1. task'[u] = task[u]
            BY <1>5, <2>1, <2>3
        <3>2. <<task[u].blob, task[u].hash>> \in BlobPairs(blobs)
            BY <1>5, <3>1 DEF StorePart, StoredPart
        <3>3. task[u].blob # b
            BY <1>5, <2>1, <2>3, <3>1 DEF StorePart, NamesPart
        <3>4. <<task[u].blob, task[u].hash>>[1] # b
            BY <3>3
        <3>5. QED
            BY <1>3, <3>1, <3>2, <3>4
    <2>4. QED
        BY <2>2, <2>3
<1>6. BlobPairs(blobs)' = BlobPairs(blobs')
    BY DEF BlobPairs
<1>7. QED
    BY <1>2, <1>4, <1>5, <1>6 DEF StorePart, StoredPart

\* A block's INSERT promises its blob, which is stored and only its own.
LEMMA InsertStore ==
    ASSUME FilesInv, StorePart, NEW t \in Tasks, InsertRow(t)
    PROVE  StorePart'
<1> DEFINE b == task[t].blob
           h == task[t].hash
<1>1. task[t].st = "insert" /\ TaskPart /\ task[t] \in GoodTasks
    BY DEF InsertRow, FilesInv, Inv, TaskPart
<1>2. PICK id \in 1 .. MaxId :
        /\ IsNextRowid(chunks, id)
        /\ chunks' = InsertChunk(chunks, id, h, b)
        /\ Publish(t, [task[t] EXCEPT !.st = "ok", !.id = id, !.new = TRUE])
    BY DEF InsertRow
<1>3. /\ DOMAIN chunks' = DOMAIN chunks \union {id}
      /\ chunks'[id].blob = b /\ chunks'[id].hash = h
      /\ \A c \in DOMAIN chunks : c # id /\ chunks'[c] = chunks[c]
    BY <1>2 DEF InsertChunk, IsNextRowid
<1>4. SnapPairs' = SnapPairs
    BY BackupsKept DEF InsertRow, backup
<1>5. \A r : r \in Promised' => r \in Promised \/ r = <<b, h>>
    BY <1>3, <1>4 DEF Promised, RowPairs
<1>6. /\ <<b, h>> \in BlobPairs(blobs)
      /\ b < nextBlob
      /\ \A u \in Tasks : u # t /\ task[u].st \in Uploading => task[u].blob # b
      /\ \A c \in DOMAIN chunks : chunks[c].blob # b
    <2>1. task[t].st \in Uploading
        BY <1>1 DEF Uploading
    <2>2. \A c \in DOMAIN chunks : <<chunks[c].blob, chunks[c].hash>> \in Promised
        BY PromisedMember
    <2>3. \A c \in DOMAIN chunks : <<chunks[c].blob, chunks[c].hash>>[1] # b
        BY <2>1, <2>2 DEF StorePart, NamesPart
    <2>4. QED
        BY <1>1, <2>1, <2>3 DEF StorePart, StoredPart, NamesPart
<1>7. \A u \in Tasks : task'[u].st \in Uploading => u # t /\ task'[u] = task[u]
    <2> DEFINE res == [task[t] EXCEPT !.st = "ok", !.id = id, !.new = TRUE]
    <2>1. res.st = "ok" /\ Publish(t, res)
        BY <1>1, <1>2 DEF GoodTasks
    <2> HIDE DEF res
    <2>2. \A u \in Tasks : task'[u].st \in {"ok", "err"} \/ (u # t /\ task'[u] = task[u])
        BY <1>1, <2>1, PublishSettles
    <2>3. QED
        BY <2>2 DEF Uploading
<1>8. UNCHANGED <<blobs, nextBlob>>
    BY DEF InsertRow, store
<1>9. NamesPart'
    <2>1. /\ \A u \in Tasks : task'[u].st \in Uploading => task'[u].blob < nextBlob'
          /\ \A u, v \in Tasks :
                task'[u].st \in Uploading /\ task'[v].st \in Uploading /\ task'[u].blob = task'[v].blob
                    => u = v
        BY <1>7, <1>8 DEF StorePart, NamesPart
    <2>2. <<b, h>>[1] = b
        OBVIOUS
    <2>3. /\ \A r \in Promised' : r[1] < nextBlob'
          /\ \A r \in Promised' : \A u \in Tasks : task'[u].st \in Uploading => task'[u].blob # r[1]
        BY <1>5, <1>6, <1>7, <1>8, <2>2 DEF StorePart, NamesPart
    <2>4. \A c, d \in DOMAIN chunks' : chunks'[c].blob = chunks'[d].blob => c = d
        BY <1>3, <1>6 DEF StorePart, NamesPart
    <2>5. QED
        BY <2>1, <2>3, <2>4 DEF NamesPart
<1>10. StoredPart'
    <2>1. BlobPairs(blobs)' = BlobPairs(blobs)
        BY <1>8 DEF BlobPairs
    <2>2. \A u \in Tasks : task'[u].st = "insert" => task'[u] = task[u]
        BY <1>7 DEF Uploading
    <2>3. QED
        BY <1>5, <1>6, <2>1, <2>2 DEF StorePart, StoredPart
<1>11. QED
    BY <1>9, <1>10 DEF StorePart

\* An upload draws the next blob name.
LEMMA RegisterStore ==
    ASSUME FilesInv, StorePart, NEW t \in Tasks, Register(t)
    PROVE  StorePart'
<1>1. task[t].st = "miss" /\ TaskPart /\ task \in [Tasks -> GoodTasks]
    BY DEF Register, FilesInv, Inv, TaskPart
<1>2. RowsKept /\ Promised' = Promised /\ UNCHANGED <<chunks, blobs>>
    BY NoStep, BackupsKept DEF Register, db, backup, Promised, RowPairs
<1>3. ASSUME NEW q \in {"wait", "err"}, task' = [task EXCEPT ![t].st = q], UNCHANGED nextBlob
      PROVE  StorePart'
    <2>1. UploadsKept
        BY <1>1, <1>3, OneTaskMoves DEF UploadsKept, Uploading
    <2>2. QED
        BY <1>2, <1>3, <2>1, QuietStore DEF store
<1>4. ASSUME task' = [task EXCEPT ![t].st = "put", ![t].blob = nextBlob], nextBlob' = nextBlob + 1
      PROVE  StorePart'
    <2>1. nextBlob \in Int
        BY DEF FilesInv, Inv, TypeStore
    <2>2. /\ task'[t].st = "put" /\ task'[t].blob = nextBlob
          /\ \A u \in Tasks : u # t => task'[u] = task[u]
        BY <1>1, <1>4 DEF GoodTasks
    <2>3. \A u \in Tasks : task[u].st \in Uploading => task[u].blob \in Int /\ task[u].blob < nextBlob
        BY <1>1, BoundsAssumption DEF GoodTasks, StorePart, NamesPart
    <2>4. \A r \in Promised : r[1] < nextBlob /\ r[1] \in Int
        <3>1. Promised \subseteq BlobPairs(blobs)
            BY DEF StorePart, StoredPart
        <3>2. DOMAIN blobs \subseteq BlobNames
            BY DEF FilesInv, Inv, TypeStore, IsTable
        <3>3. \A r \in BlobPairs(blobs) : r[1] \in Int
            BY <3>2, BoundsAssumption DEF BlobPairs, BlobNames
        <3>4. QED
            BY <3>1, <3>3 DEF StorePart, NamesPart
    <2>5. NamesPart'
        <3>1. ASSUME NEW u \in Tasks, task'[u].st \in Uploading
              PROVE  task'[u].blob < nextBlob'
            <4>1. CASE u = t
                BY <1>4, <2>1, <2>2, <4>1
            <4>2. CASE u # t
                <5>1. task[u].st \in Uploading /\ task'[u].blob = task[u].blob
                    BY <2>2, <3>1, <4>2
                <5>2. task[u].blob \in Int /\ task[u].blob < nextBlob
                    BY <2>3, <5>1
                <5>3. QED
                    BY <1>4, <2>1, <5>1, <5>2
            <4>3. QED
                BY <4>1, <4>2
        <3>2. \A u, v \in Tasks :
                task'[u].st \in Uploading /\ task'[v].st \in Uploading /\ task'[u].blob = task'[v].blob
                    => u = v
            <4> SUFFICES ASSUME NEW u \in Tasks, NEW v \in Tasks,
                                task'[u].st \in Uploading, task'[v].st \in Uploading,
                                task'[u].blob = task'[v].blob
                         PROVE  u = v
                OBVIOUS
            <4>1. CASE u # t /\ v # t
                BY <2>2, <4>1 DEF StorePart, NamesPart
            <4>2. CASE u # t /\ v = t
                BY <2>1, <2>2, <2>3, <4>2
            <4>3. CASE u = t /\ v # t
                BY <2>1, <2>2, <2>3, <4>3
            <4>4. QED
                BY <4>1, <4>2, <4>3
        <3>3. /\ \A r \in Promised' : r[1] < nextBlob'
              /\ \A r \in Promised' : \A u \in Tasks :
                    task'[u].st \in Uploading => task'[u].blob # r[1]
            <4> SUFFICES ASSUME NEW r \in Promised
                         PROVE  /\ r[1] < nextBlob'
                                /\ \A u \in Tasks : task'[u].st \in Uploading => task'[u].blob # r[1]
                BY <1>2
            <4>1. r[1] \in Int /\ r[1] < nextBlob
                BY <2>4
            <4>2. \A u \in Tasks : u # t /\ task'[u].st \in Uploading => task'[u].blob # r[1]
                BY <2>2 DEF StorePart, NamesPart
            <4>3. r[1] < nextBlob' /\ r[1] # nextBlob
                BY <1>4, <2>1, <4>1
            <4>4. QED
                BY <2>2, <4>2, <4>3
        <3>4. QED
            BY <1>2, <3>1, <3>2, <3>3 DEF StorePart, NamesPart
    <2>6. StoredPart'
        <3>1. BlobPairs(blobs)' = BlobPairs(blobs)
            BY <1>2 DEF BlobPairs
        <3>2. \A u \in Tasks : task'[u].st = "insert" => task'[u] = task[u]
            BY <2>2
        <3>3. QED
            BY <1>2, <3>1, <3>2 DEF StorePart, StoredPart
    <2>7. QED
        BY <2>5, <2>6 DEF StorePart
<1>5. QED
    BY <1>3, <1>4 DEF Register

\* So every step of StoreChunk keeps what is promised and stored.
LEMMA StoreChunkStore ==
    ASSUME FilesInv, StorePart, NEW t \in Tasks, StoreChunk(t)
    PROVE  StorePart'
<1>1. TaskPart /\ task[t] \in GoodTasks
    BY DEF FilesInv, Inv, TaskPart
<1>2. ASSUME UNCHANGED <<db, backup>>
      PROVE  RowsKept /\ Promised' \subseteq Promised
    BY <1>2, NoStep, BackupsKept, PromisesKept DEF db, backup
<1>3. ASSUME UNCHANGED <<db, store, backup>>, UploadsKept
      PROVE  StorePart'
    BY <1>2, <1>3, QuietStore
<1>4. ASSUME NEW r, r.st \in {"ok", "err"}, Publish(t, r)
      PROVE  \A u \in Tasks : task'[u].st \in Uploading => u # t /\ task'[u] = task[u]
    BY <1>1, <1>4, PublishSettles DEF Uploading
<1>5. Failed(t).st = "err"
    BY <1>1 DEF Failed, GoodTasks
<1>6. CASE FindChunk(t)
    <2>1. PICK q \in {"ok", "miss"} : \E c :
                \/ task' = [task EXCEPT ![t].st = q]
                \/ task' = [task EXCEPT ![t].st = q, ![t].id = c]
        BY <1>6 DEF FindChunk
    <2>2. \A u \in Tasks : IF u = t THEN task'[u].st = q ELSE task'[u] = task[u]
        BY <1>1, <2>1 DEF TaskPart, GoodTasks
    <2>3. UploadsKept
        BY <2>2 DEF UploadsKept, Uploading
    <2>4. QED
        BY <1>3, <1>6, <2>3 DEF FindChunk
<1>7. CASE AbandonTask(t) \/ InsertFails(t)
    <2>1. PICK q \in {"err", "refind"} : /\ task' = [task EXCEPT ![t].st = q]
                                         /\ q = "refind" => task[t].st = "insert"
        BY <1>7 DEF AbandonTask, InsertFails
    <2>2. \A u \in Tasks : IF u = t THEN /\ task'[u].st = q
                                          /\ task'[u].blob = task[u].blob
                                          /\ task'[u].hash = task[u].hash
                            ELSE task'[u] = task[u]
        BY <1>1, <2>1, OneTaskMoves
    <2>3. UploadsKept
        BY <2>1, <2>2 DEF UploadsKept, Uploading
    <2>4. QED
        BY <1>3, <1>7, <2>3 DEF AbandonTask, InsertFails
<1>8. CASE Refind(t)
    <2>1. CASE \E c \in FindChunkByHash(chunks, task[t].hash) :
                    task' = [task EXCEPT ![t].st = "dup", ![t].id = c]
        <3>1. task[t].st \in Uploading
            BY <1>8 DEF Refind, Uploading
        <3>2. PICK c : task' = [task EXCEPT ![t].st = "dup", ![t].id = c]
            BY <2>1
        <3>3. \A u \in Tasks : IF u = t THEN /\ task'[u].st = "dup"
                                              /\ task'[u].blob = task[u].blob
                                              /\ task'[u].hash = task[u].hash
                                ELSE task'[u] = task[u]
            BY <1>1, <3>2 DEF TaskPart, GoodTasks
        <3>4. UploadsKept
            BY <3>1, <3>3 DEF UploadsKept, Uploading
        <3>5. QED
            BY <1>3, <1>8, <3>4 DEF Refind
    <2>2. CASE Publish(t, Failed(t))
        <3> DEFINE r == Failed(t)
        <3>a. r.st \in {"ok", "err"} /\ Publish(t, r)
            BY <1>5, <2>2
        <3> HIDE DEF r
        <3>b. \A u \in Tasks : task'[u].st \in Uploading => u # t /\ task'[u] = task[u]
            BY <1>4, <3>a
        <3>1. UploadsKept
            BY <3>b DEF UploadsKept, Uploading
        <3>2. QED
            BY <1>3, <1>8, <3>1 DEF Refind
    <2>3. QED
        BY <1>8, <2>1, <2>2 DEF Refind
<1>9. CASE PutBlob(t)
    <2>1. task[t].st \in Uploading
        BY <1>9 DEF PutBlob, Uploading
    <2>2. \A u \in Tasks : IF u = t THEN /\ task'[u].st = "insert"
                                          /\ task'[u].blob = task[u].blob
                                          /\ task'[u].hash = task[u].hash
                            ELSE task'[u] = task[u]
        BY <1>1, <1>9, OneTaskMoves DEF PutBlob
    <2>3. blobs' = WithBlob(t) /\ UNCHANGED <<db, bk, snaps, nextBlob>>
        BY <1>9 DEF PutBlob, backup
    <2>4. QED
        BY <2>1, <2>2, <2>3, UploaderStore
<1>10. ASSUME NEW r, r.st \in {"ok", "err"}, Publish(t, r), task[t].st \in Uploading,
              blobs' \in {blobs, WithBlob(t), Without(blobs, {task[t].blob})},
              UNCHANGED <<db, nextBlob, backup>>
       PROVE  StorePart'
    <2>1. \A u \in Tasks : task'[u].st \in Uploading => u # t /\ task'[u] = task[u]
        BY <1>4, <1>10
    <2>2. UNCHANGED <<db, bk, snaps, nextBlob>>
        BY <1>10 DEF backup
    <2>3. QED
        BY <1>10, <2>1, <2>2, UploaderStore
<1>11. CASE PutBlobFails(t)
    BY <1>5, <1>10, <1>11 DEF PutBlobFails, Uploading
<1>12. CASE DropDuplicate(t)
    <2> DEFINE r == [task[t] EXCEPT !.st = "ok"]
    <2>1. r.st \in {"ok", "err"}
        BY <1>1 DEF GoodTasks
    <2>2. Publish(t, r)
        BY <1>12 DEF DropDuplicate
    <2> HIDE DEF r
    <2>3. /\ task[t].st \in Uploading
          /\ blobs' \in {blobs, WithBlob(t), Without(blobs, {task[t].blob})}
          /\ UNCHANGED <<db, nextBlob, backup>>
        BY <1>12 DEF DropDuplicate, Uploading
    <2>4. QED
        BY <1>10, <2>1, <2>2, <2>3
<1>13. QED
    BY <1>6, <1>7, <1>8, <1>9, <1>11, <1>12, InsertStore, RegisterStore DEF StoreChunk

\* The other steps of writers store nothing.
LEMMA WriterStore ==
    ASSUME FilesInv, StorePart, NEW w \in Writers, RowsKept,
           UNCHANGED <<store, backup>>,
           \/ UNCHANGED task
           \/ \E body \in Bodies : StartTasks(w, body)
           \/ ClearTasks(w)
           \/ \E t \in Tasks : task' = [task EXCEPT ![t].new = FALSE]
    PROVE  StorePart'
<1>1. task \in [Tasks -> GoodTasks]
    BY DEF FilesInv, Inv, TaskPart
<1>2. Promised' \subseteq Promised
    BY BackupsKept, PromisesKept DEF backup
<1>3. UploadsKept
    <2>1. CASE UNCHANGED task
        BY <2>1 DEF UploadsKept
    <2>2. CASE (\E body \in Bodies : StartTasks(w, body)) \/ ClearTasks(w)
        <3>1. \A u \in Tasks : task'[u].st \in {"none", "todo"} \/ task'[u] = task[u]
            BY <2>2, StartClearMoves
        <3>2. QED
            BY <3>1 DEF UploadsKept, Uploading
    <2>3. CASE \E t \in Tasks : task' = [task EXCEPT ![t].new = FALSE]
        <3>1. \A u \in Tasks : /\ task'[u].st = task[u].st /\ task'[u].blob = task[u].blob
                               /\ task'[u].hash = task[u].hash
            BY <1>1, <2>3 DEF GoodTasks
        <3>2. QED
            BY <3>1 DEF UploadsKept
    <2>4. QED
        BY <2>1, <2>2, <2>3
<1>4. QED
    BY <1>2, <1>3, QuietStore

\* Nor do those of DELETE and MOVE, of a backup, or the end of the process.
LEMMA OtherStore ==
    ASSUME FilesInv, StorePart, RowsKept, UNCHANGED store, Promised' \subseteq Promised,
           UNCHANGED task \/ Down
    PROVE  StorePart'
<1>1. UploadsKept
    <2>1. CASE UNCHANGED task
        BY <2>1 DEF UploadsKept
    <2>2. CASE Down
        <3>1. \A u \in Tasks : task'[u].st = "none"
            BY <2>2 DEF Down, NoTask
        <3>2. QED
            BY <3>1 DEF UploadsKept, Uploading
    <2>3. QED
        BY <2>1, <2>2
<1>2. QED
    BY <1>1, QuietStore

-----------------------------------------------------------------------------
(* GC.                                                                     *)

\* While GC holds its locks nobody writes: neither uploads nor sessions nor
\* DELETE and MOVE, and no block is being stored.
LEMMA GCAlone ==
    ASSUME FilesInv, PhasePart, gc.pc \in GCHolds
    PROVE  /\ \A t \in Tasks : task[t].st \notin Started /\ ~StoreChunk(t)
           /\ \A w \in Puts : ~PutStep(w)
           /\ \A w \in Sessions : ~SessionStep(w)
           /\ ~TreeStep
<1>1. LockPart /\ wlock = GC
    BY DEF FilesInv, LockPart
<1>2. \A w \in Puts : pc[w] = "idle"
    BY <1>1 DEF LockPart, GCHolds
<1>3. \A w \in Sessions : pc[w] = "idle"
    BY <1>1, ActorsAssumption DEF LockPart, Writers
<1>4. op.pc = "idle" /\ GC # None
    BY <1>1, ActorsAssumption DEF LockPart
<1>5. \A t \in Tasks : task[t].st \notin Started
    BY <1>2, <1>3 DEF PhasePart, Tasks, Writers
<1>6. \A t \in Tasks : ~StoreChunk(t)
    BY <1>5 DEF StoreChunk, FindChunk, AbandonTask, Register, PutBlob, PutBlobFails,
       InsertRow, InsertFails, Refind, DropDuplicate, Started, TaskStates, Uploading
<1>7. \A w \in Puts : ~PutStep(w)
    BY <1>2 DEF PutStep, PutStart, PutGiveUp, PutLock, PutCommit, PutCommitFails, PutCleanup,
       PutFailed, GCHolds
<1>8. \A w \in Sessions : ~SessionStep(w)
    BY <1>1, <1>3, <1>4 DEF SessionStep, SessionStart, SessionFile, SessionUpsert, SessionDelete,
       SessionEnd
<1>9. ~TreeStep
    BY <1>1, <1>4 DEF TreeStep, DeletePathStart, MovePathStart, TreeDeleteRow, MoveUpsert, TreeOpEnd
<1>10. QED
    BY <1>5, <1>6, <1>7, <1>8, <1>9

\* GC's parts matter while it holds its locks only.
GCPart == GarbagePart /\ OrphanPart

\* Outside of its locks there is nothing to show about GC.
LEMMA NoGarbage ==
    /\ gc.pc \notin GCHolds => GCPart
    /\ gc'.pc \notin GCHolds => GCPart'
BY DEF GCPart, GarbagePart, OrphanPart, GCHolds

\* GC deletes no promised blob.
LEMMA GCStore ==
    ASSUME FilesInv, PhasePart, StorePart, GarbagePart, GCStep
    PROVE  StorePart'
<1>1. RowsKept
    BY GCRows
<1>2. Promised' \subseteq Promised /\ UNCHANGED <<bk, snaps, task, nextBlob>>
    <2>1. UNCHANGED <<bk, snaps, task, nextBlob>>
        BY DEF GCStep, GCRequest, GCLockMaintenance, GCLockWrite, GCList, GCScan, GCProtect,
           GCDeleteRow, GCRowsDone, GCDeleteBlob, GCFinish, GCAbort, backup, upl, store
    <2>2. QED
        BY <1>1, <2>1, BackupsKept, PromisesKept
<1>3. CASE UNCHANGED store
    BY <1>1, <1>2, <1>3, OtherStore
<1>4. CASE GCDeleteBlob
    <2>1. gc.pc = "blobs" /\ UNCHANGED chunks
        BY <1>4 DEF GCDeleteBlob, db
    <2>2. PICK b \in gc.garbage : blobs' \in {blobs, Without(blobs, {b})}
        BY <1>4 DEF GCDeleteBlob
    <2>3. \A u \in Tasks : task[u].st \notin Uploading /\ task[u].st # "insert"
        BY <2>1, GCAlone DEF GCHolds, Started, TaskStates, Uploading
    <2>4. ASSUME NEW r \in Promised PROVE r[1] # b
        <3>1. CASE r \in SnapPairs
            BY <2>1, <3>1 DEF GarbagePart
        <3>2. CASE \E c \in DOMAIN chunks : r = <<chunks[c].blob, chunks[c].hash>>
            <4>1. \A c \in DOMAIN chunks : chunks[c].blob \notin gc.garbage
                BY <2>1 DEF GarbagePart
            <4>2. QED
                BY <3>2, <4>1
        <3>3. QED
            BY <3>1, <3>2, PromisedMember
    <2>5. \A r \in Promised : r \in BlobPairs(blobs)'
        <3> SUFFICES ASSUME NEW r \in Promised PROVE r \in BlobPairs(blobs)'
            OBVIOUS
        <3>1. r \in BlobPairs(blobs) /\ r[1] # b
            BY <2>4 DEF StorePart, StoredPart
        <3>2. r \in BlobPairs(Without(blobs, {b}))
            BY <3>1, PairsKept
        <3>3. BlobPairs(blobs)' = BlobPairs(blobs')
            BY DEF BlobPairs
        <3>4. QED
            BY <2>2, <3>1, <3>2, <3>3
    <2>6. StoredPart'
        BY <1>2, <2>3, <2>5 DEF StoredPart
    <2>7. NamesPart'
        BY <1>2, <2>1, <2>3 DEF StorePart, NamesPart
    <2>8. QED
        BY <2>6, <2>7 DEF StorePart
<1>5. QED
    BY <1>3, <1>4 DEF GCStep, GCRequest, GCLockMaintenance, GCLockWrite, GCList, GCScan, GCProtect,
       GCDeleteRow, GCRowsDone, GCFinish, GCAbort, store

\* What a scan finds is garbage, what the backups reference is taken out of it,
\* and then it only shrinks.
LEMMA GCGarbage ==
    ASSUME FilesInv, StorePart, GCPart, NewestPart, GCStep
    PROVE  GCPart'
<1>1. /\ gc \in [pc : {"idle", "maintenance", "write", "list", "scan", "protect", "rows", "blobs"},
                 listed : SUBSET BlobNames, dead : SUBSET Ids,
                 garbage : SUBSET BlobNames, failed : BOOLEAN]
      /\ GarbagePart /\ OrphanPart
    BY DEF FilesInv, Inv, TypeGC, GCPart
<1>2. UNCHANGED <<bk, snaps>>
    BY DEF GCStep, GCRequest, GCLockMaintenance, GCLockWrite, GCList, GCScan, GCProtect,
       GCDeleteRow, GCRowsDone, GCDeleteBlob, GCFinish, GCAbort, backup
<1>3. SnapPairs' = SnapPairs /\ Unsettled' = Unsettled
    BY <1>2, BackupsKept DEF Unsettled
<1>4. UNCHANGED <<files, chunks>> => ReferencedBlobs' = ReferencedBlobs
    BY DEF ReferencedBlobs
<1>5. CASE GCRequest \/ GCLockMaintenance \/ GCFinish \/ GCAbort
    <2>1. gc'.pc \in {"idle", "maintenance", "write"}
        BY <1>1, <1>5 DEF GCRequest, GCLockMaintenance, GCFinish, GCAbort, GCReturn, NoGC
    <2>2. QED
        BY <2>1, NoGarbage DEF GCHolds
<1>6. CASE GCLockWrite \/ GCList
    <2>1. gc'.pc \in {"list", "idle"} \/ (gc'.pc = "scan" /\ gc'.listed = DOMAIN blobs')
        <3>1. CASE GCLockWrite
            BY <1>1, <3>1 DEF GCLockWrite
        <3>2. CASE GCList /\ DOMAIN blobs = {}
            BY <3>2 DEF GCList, GCReturn, NoGC
        <3>3. CASE GCList /\ DOMAIN blobs # {}
            <4>1. gc' = [gc EXCEPT !.pc = "scan", !.listed = DOMAIN blobs] /\ UNCHANGED blobs
                BY <3>3 DEF GCList, store
            <4>2. gc'.pc = "scan" /\ gc'.listed = DOMAIN blobs
                BY <1>1, <4>1
            <4>3. QED
                BY <4>1, <4>2
        <3>4. QED
            BY <1>6, <3>1, <3>2, <3>3
    <2>2. QED
        BY <2>1 DEF GCPart, GarbagePart, OrphanPart
<1>7. CASE GCScan
    <2> DEFINE dead  == DOMAIN chunks \ Referenced(files)
               owned == {chunks[c].blob : c \in DOMAIN chunks}
    <2>1. /\ gc.pc = "scan" /\ gc'.pc = "protect" /\ gc'.dead = dead
          /\ gc'.garbage = {chunks[c].blob : c \in dead} \union (gc.listed \ owned)
          /\ UNCHANGED <<files, chunks, blobs>>
        BY <1>1, <1>7 DEF GCScan, db, store
    <2>2. ASSUME NEW c \in DOMAIN chunks, chunks[c].blob \in gc'.garbage
          PROVE  c \in dead
        <3>1. PICK d \in dead : chunks[c].blob = chunks[d].blob
            BY <2>1, <2>2
        <3>2. QED
            BY <3>1 DEF StorePart, NamesPart
    <2>3. gc.listed = DOMAIN blobs
        BY <1>1, <2>1 DEF OrphanPart
    <2>4. DOMAIN blobs \subseteq ReferencedBlobs \union gc'.garbage
        BY <2>1, <2>3 DEF ReferencedBlobs
    <2>5. QED
        BY <1>4, <2>1, <2>2, <2>4 DEF GCPart, GarbagePart, OrphanPart
<1>8. CASE GCProtect
    <2> DEFINE kept == {r[1] : r \in UNION {SnapRefs(snaps[n]) : n \in DOMAIN snaps}}
    <2>1. /\ gc.pc = "protect" /\ gc'.pc = "rows" /\ gc'.dead = gc.dead /\ gc'.failed = gc.failed
          /\ gc'.garbage = gc.garbage \ kept /\ bk.pc = "idle"
          /\ UNCHANGED <<files, chunks, blobs>>
        BY <1>1, <1>8 DEF GCProtect, db, store
    <2>2. ASSUME NEW r \in SnapPairs PROVE r[1] \notin gc'.garbage
        <3>1. SnapRefs(bk.snap) = {}
            BY <2>1 DEF NewestPart, SnapRefs
        <3>2. \E n \in DOMAIN snaps : r \in SnapRefs(snaps[n])
            BY <3>1, SnapPairsMember
        <3>3. QED
            BY <2>1, <3>2
    <2>3. ASSUME DOMAIN snaps \subseteq Unsettled
          PROVE  DOMAIN blobs \subseteq ReferencedBlobs \union gc'.garbage
        <3>1. DOMAIN snaps = {}
            BY <2>1, <2>3 DEF Unsettled
        <3>2. kept = {}
            BY <3>1
        <3>3. QED
            BY <1>1, <2>1, <3>2 DEF OrphanPart
    <2>4. GarbagePart'
        BY <1>1, <1>3, <2>1, <2>2 DEF GarbagePart
    <2>5. OrphanPart'
        BY <1>2, <1>3, <1>4, <2>1, <2>3 DEF OrphanPart
    <2>6. QED
        BY <2>4, <2>5 DEF GCPart
<1>9. CASE GCDeleteRow
    <2>1. PICK c \in gc.dead : /\ RemoveChunks(DeleteChunkIds(chunks, c))
                               /\ gc' = [gc EXCEPT !.dead = @ \ {c}]
        BY <1>9 DEF GCDeleteRow
    <2>2. /\ gc.pc = "rows" /\ gc'.pc = "rows" /\ gc'.dead = gc.dead \ {c}
          /\ gc'.garbage = gc.garbage /\ gc'.failed = gc.failed /\ UNCHANGED blobs
        BY <1>1, <1>9, <2>1 DEF GCDeleteRow, store
    <2>3. RowsKept /\ SameFiles
        BY GCRows
    <2>4. DOMAIN chunks' = DOMAIN chunks \ {c}
        BY <2>1 DEF RemoveChunks, DeleteChunkIds, Without
    <2>5. Unreferenced(files, c)
        BY <2>2 DEF FilesInv, DeadPart
    <2>6. Referenced(files') = Referenced(files)
        BY <2>3 DEF SameFiles, Referenced
    <2>7. c \notin Referenced(files)
        BY <2>5 DEF Unreferenced, Referenced, IdsOf, RefsTo
    <2>8. ReferencedBlobs \subseteq ReferencedBlobs'
        BY <2>3, <2>4, <2>6, <2>7 DEF ReferencedBlobs, RowsKept
    <2>9. GarbagePart'
        BY <1>1, <1>3, <2>2, <2>3, <2>4 DEF GarbagePart, RowsKept
    <2>10. OrphanPart'
        BY <1>1, <1>2, <1>3, <2>2, <2>8 DEF OrphanPart
    <2>11. QED
        BY <2>9, <2>10 DEF GCPart
<1>10. CASE GCRowsDone
    <2>1. /\ gc.pc = "rows" /\ gc'.pc = "blobs" /\ gc.dead = {} /\ gc'.dead = {}
          /\ gc'.garbage = gc.garbage /\ gc'.failed = gc.failed /\ UNCHANGED <<files, chunks, blobs>>
        BY <1>1, <1>10 DEF GCRowsDone, db, store
    <2>2. QED
        BY <1>1, <1>2, <1>3, <1>4, <2>1 DEF GCPart, GarbagePart, OrphanPart
<1>11. CASE GCDeleteBlob
    <2>1. PICK b \in gc.garbage :
            \/ blobs' = Without(blobs, {b}) /\ gc' = [gc EXCEPT !.garbage = @ \ {b}]
            \/ gc' = [gc EXCEPT !.garbage = @ \ {b}, !.failed = TRUE]
        BY <1>11 DEF GCDeleteBlob
    <2>2. /\ gc.pc = "blobs" /\ gc'.pc = "blobs" /\ gc'.dead = gc.dead
          /\ gc'.garbage = gc.garbage \ {b} /\ UNCHANGED <<files, chunks>>
          /\ gc'.failed \/ (gc'.failed = gc.failed /\ DOMAIN blobs' = DOMAIN blobs \ {b})
        <3>1. gc.pc = "blobs" /\ UNCHANGED <<files, chunks>>
            BY <1>11 DEF GCDeleteBlob, db
        <3>2. QED
            BY <1>1, <2>1, <3>1 DEF Without
    <2>3. QED
        BY <1>1, <1>2, <1>3, <1>4, <2>2 DEF GCPart, GarbagePart, OrphanPart
<1>12. QED
    BY <1>5, <1>6, <1>7, <1>8, <1>9, <1>10, <1>11 DEF GCStep

-----------------------------------------------------------------------------
(* Backups.                                                                *)

\* A backup promises what rows or other backups promise, and never a blob that
\* GC holds for garbage: the rows it names are referenced.
LEMMA BackupPromises ==
    ASSUME FilesInv, BackupStep \/ Down, UNCHANGED chunks
    PROVE  /\ SnapPairs' \subseteq SnapPairs \union SnapshotBlobs(files, chunks)
           /\ Promised' \subseteq Promised
<1>1. SnapRefs(NoSnap) = {}
    BY DEF SnapRefs, NoSnap
<1>2. /\ bk \in [pc : {"idle", "snapshot", "upload", "verify", "drop", "prune"},
                 snap : {bk.snap}, name : 0 .. MaxSnaps]
    BY DEF FilesInv, Inv, BackupPart, BkOk
<1>3. \/ bk'.snap \in {bk.snap, NoSnap}
      \/ SnapRefs(bk'.snap) = SnapshotBlobs(files, chunks)
    <2>1. CASE BackupSnapshot
        <3>1. CASE ValidateSnapshot(files, chunks)
            <4>1. bk'.snap = [ok |-> TRUE, files |-> files, chunks |-> chunks]
                BY <1>2, <2>1, <3>1 DEF BackupSnapshot
            <4>2. bk'.snap.ok /\ bk'.snap.files = files /\ bk'.snap.chunks = chunks
                BY <4>1
            <4>3. QED
                BY <4>2 DEF SnapRefs
        <3>2. CASE ~ValidateSnapshot(files, chunks)
            BY <1>2, <2>1, <3>2 DEF BackupSnapshot, BackupReturn
        <3>3. QED
            BY <3>1, <3>2
    <2>2. CASE BackupStart
        <3>1. bk'.snap = NoSnap
            BY <2>2 DEF BackupStart
        <3>2. QED
            BY <3>1
    <2>3. CASE BackupUpload \/ BackupVerify \/ BackupDrop \/ BackupPrune \/ BackupEnd \/ Down
        BY <1>2, <2>3 DEF BackupUpload, BackupVerify, BackupDrop, BackupPrune, BackupEnd, Down,
           BackupReturn
    <2>4. QED
        BY <2>1, <2>2, <2>3 DEF BackupStep
<1>4. \A n \in DOMAIN snaps' : \/ n \in DOMAIN snaps /\ snaps'[n] = snaps[n]
                               \/ snaps'[n] \in {NoSnap, bk.snap}
    <2>1. CASE UNCHANGED snaps
        BY <2>1
    <2>2. CASE BackupUpload
        <3>1. PICK s \in {NoSnap, bk.snap} : UNCHANGED snaps \/ snaps' = PutSnap(s)
            BY <2>2 DEF BackupUpload
        <3>2. QED
            BY <2>1, <3>1 DEF PutSnap
    <2>3. CASE BackupDrop \/ BackupPrune
        BY <2>1, <2>3 DEF BackupDrop, BackupPrune, Without
    <2>4. QED
        BY <2>1, <2>2, <2>3 DEF BackupStep, BackupStart, BackupSnapshot, BackupVerify, BackupEnd, Down
<1>5. SnapPairs' \subseteq SnapPairs \union SnapshotBlobs(files, chunks)
    <2> SUFFICES ASSUME NEW r \in SnapPairs'
                 PROVE  r \in SnapPairs \/ r \in SnapshotBlobs(files, chunks)
        OBVIOUS
    <2>1. \/ \E n \in DOMAIN snaps' : r \in SnapRefs(snaps'[n])
          \/ r \in SnapRefs(bk'.snap)
        BY DEF SnapPairs, Snapshots, SnapRefs
    <2>2. CASE r \in SnapRefs(bk'.snap)
        BY <1>1, <1>3, <2>2, SnapPairsMember
    <2>3. CASE \E n \in DOMAIN snaps' : r \in SnapRefs(snaps'[n])
        BY <1>1, <1>4, <2>3, SnapPairsMember
    <2>4. QED
        BY <2>1, <2>2, <2>3
<1>6. SnapshotBlobs(files, chunks) \subseteq RowPairs
    BY DEF SnapshotBlobs, RowPairs
<1>7. RowPairs' = RowPairs
    BY DEF RowPairs
<1>8. QED
    BY <1>5, <1>6, <1>7 DEF Promised

\* The verified backup stays, and if some backup had been asked one still is.
LEMMA BackupNewest ==
    ASSUME FilesInv, NewestPart, BackupStep
    PROVE  /\ NewestPart'
           /\ DOMAIN snaps' \subseteq Unsettled' => DOMAIN snaps \subseteq Unsettled
<1>1. /\ bk \in [pc : {"idle", "snapshot", "upload", "verify", "drop", "prune"},
                 snap : {bk.snap}, name : 0 .. MaxSnaps]
      /\ bk.name \in Int /\ verified \in Nat /\ DOMAIN snaps \subseteq 1 .. bk.name
    BY BoundsAssumption DEF FilesInv, Inv, BackupPart, BkOk, NewestPart
<1>2. CASE BackupStart
    <2>1. bk.pc = "idle" /\ bk'.pc = "snapshot" /\ bk'.name = bk.name + 1 /\ ~bk'.snap.ok
          /\ UNCHANGED <<snaps, verified>>
        BY <1>2 DEF BackupStart, NoSnap
    <2>2. NewestPart'
        BY <1>1, <2>1 DEF NewestPart
    <2>3. QED
        BY <1>1, <2>1, <2>2 DEF Unsettled
<1>3. CASE BackupSnapshot
    <2>1. /\ bk.pc = "snapshot" /\ bk'.name = bk.name /\ UNCHANGED <<snaps, verified>>
          /\ \/ bk'.pc = "upload" /\ bk'.snap.ok
             \/ bk'.pc = "idle" /\ ~bk'.snap.ok
        <3>1. bk.pc = "snapshot" /\ UNCHANGED <<snaps, verified>>
            BY <1>3 DEF BackupSnapshot
        <3>2. CASE ValidateSnapshot(files, chunks)
            <4>1. bk' = [bk EXCEPT !.pc = "upload",
                                   !.snap = [ok |-> TRUE, files |-> files, chunks |-> chunks]]
                BY <1>3, <3>2 DEF BackupSnapshot
            <4>2. bk'.pc = "upload" /\ bk'.name = bk.name
                  /\ bk'.snap = [ok |-> TRUE, files |-> files, chunks |-> chunks]
                BY <1>1, <4>1
            <4>3. bk'.snap.ok
                BY <4>2
            <4>4. QED
                BY <3>1, <4>2, <4>3
        <3>3. CASE ~ValidateSnapshot(files, chunks)
            <4>1. bk' = [bk EXCEPT !.pc = "idle", !.snap = NoSnap]
                BY <1>3, <3>3 DEF BackupSnapshot, BackupReturn
            <4>2. bk'.pc = "idle" /\ bk'.name = bk.name /\ bk'.snap = NoSnap
                BY <1>1, <4>1
            <4>3. ~bk'.snap.ok
                BY <4>2 DEF NoSnap
            <4>4. QED
                BY <3>1, <4>2, <4>3
        <3>4. QED
            BY <3>2, <3>3
    <2>2. NewestPart'
        BY <1>1, <2>1 DEF NewestPart
    <2>3. QED
        BY <2>1, <2>2 DEF Unsettled
<1>4. CASE BackupUpload
    <2>1. /\ bk.pc = "upload" /\ bk'.pc \in {"verify", "drop"} /\ bk'.name = bk.name
          /\ bk'.snap = bk.snap /\ UNCHANGED verified
        BY <1>1, <1>4 DEF BackupUpload
    <2>2. /\ DOMAIN snaps' \in {DOMAIN snaps, DOMAIN snaps \union {bk.name}}
          /\ \A n \in DOMAIN snaps : n # bk.name => n \in DOMAIN snaps' /\ snaps'[n] = snaps[n]
        BY <1>4 DEF BackupUpload, PutSnap
    <2>3. bk.name \in 1 .. bk.name /\ verified # bk.name
        BY <1>1, <2>1 DEF NewestPart
    <2>4. DOMAIN snaps' \subseteq 1 .. bk'.name
        BY <1>1, <2>1, <2>2, <2>3
    <2>5. verified' # 0 => verified' \in DOMAIN snaps' /\ snaps'[verified'].ok
        BY <2>1, <2>2, <2>3 DEF NewestPart
    <2>6. NewestPart'
        BY <2>1, <2>4, <2>5 DEF NewestPart
    <2>7. QED
        BY <2>1, <2>2, <2>6 DEF Unsettled
<1>5. CASE BackupVerify
    <2>1. /\ bk.pc = "verify" /\ bk'.name = bk.name /\ bk'.snap = bk.snap /\ UNCHANGED snaps
          /\ \/ /\ bk'.pc = "prune" /\ verified' = bk.name
                /\ bk.name \in DOMAIN snaps /\ snaps[bk.name] = bk.snap
             \/ bk'.pc = "drop" /\ UNCHANGED verified
        BY <1>1, <1>5 DEF BackupVerify
    <2>2. NewestPart'
        BY <1>1, <2>1 DEF NewestPart
    <2>3. QED
        BY <2>1, <2>2 DEF Unsettled
<1>6. CASE BackupDrop
    <2>1. /\ bk.pc = "drop" /\ bk'.pc = "idle" /\ bk'.name = bk.name /\ ~bk'.snap.ok
          /\ UNCHANGED verified
          /\ DOMAIN snaps' \in {DOMAIN snaps, DOMAIN snaps \ {bk.name}}
          /\ \A n \in DOMAIN snaps : n # bk.name => n \in DOMAIN snaps' /\ snaps'[n] = snaps[n]
        BY <1>1, <1>6 DEF BackupDrop, BackupReturn, NoSnap, Without
    <2>2. NewestPart'
        BY <1>1, <2>1 DEF NewestPart
    <2>3. QED
        BY <2>1, <2>2 DEF Unsettled
<1>7. CASE BackupPrune
    <2>1. PICK n \in DOMAIN snaps : /\ \A m \in DOMAIN snaps : n <= m
                                    /\ snaps' = Without(snaps, {n})
        BY <1>7 DEF BackupPrune
    <2>2. bk.pc = "prune" /\ Cardinality(DOMAIN snaps) > Retain /\ UNCHANGED <<bk, verified>>
        BY <1>7 DEF BackupPrune
    <2>3. verified = bk.name
        BY <2>2 DEF NewestPart
    <2>4. n # verified
        <3> SUFFICES ASSUME n = verified PROVE FALSE
            OBVIOUS
        <3>1. \A m \in DOMAIN snaps : m = n
            BY <1>1, <2>1, <2>3
        <3>2. DOMAIN snaps = {n}
            BY <3>1
        <3>3. Cardinality(DOMAIN snaps) = 1
            BY <3>2, FS_Singleton
        <3>4. QED
            BY <2>2, <3>3, BoundsAssumption
    <2>5. n \in 1 .. bk.name
        BY <1>1
    <2>6. verified # 0
        BY <1>1, <2>3, <2>5
    <2>7. DOMAIN snaps' = DOMAIN snaps \ {n} /\ snaps'[verified] = snaps[verified]
          /\ verified \in DOMAIN snaps'
        BY <2>1, <2>4, <2>6 DEF Without, NewestPart
    <2>8. NewestPart'
        BY <2>2, <2>7 DEF NewestPart
    <2>9. QED
        BY <2>2, <2>7, <2>8 DEF Unsettled
<1>8. CASE BackupEnd
    <2>1. /\ bk.pc \in {"snapshot", "upload", "prune"} /\ bk'.pc = "idle" /\ bk'.name = bk.name
          /\ ~bk'.snap.ok /\ UNCHANGED <<snaps, verified>>
        BY <1>1, <1>8 DEF BackupEnd, BackupReturn, NoSnap
    <2>2. NewestPart'
        BY <1>1, <2>1 DEF NewestPart
    <2>3. QED
        BY <2>1, <2>2 DEF Unsettled
<1>9. QED
    BY <1>2, <1>3, <1>4, <1>5, <1>6, <1>7, <1>8 DEF BackupStep

\* NewestPart reads the backup only.
LEMMA NewestFrame == NewestPart /\ UNCHANGED backup => NewestPart'
BY DEF NewestPart, backup

\* A step of a backup does not change what GC takes for garbage.
LEMMA BackupGarbage ==
    ASSUME FilesInv, StorePart, GCPart, NewestPart, BackupStep
    PROVE  GCPart'
<1>1. UNCHANGED <<files, chunks, blobs, gc>>
    BY DEF BackupStep, BackupStart, BackupSnapshot, BackupUpload, BackupVerify, BackupDrop,
       BackupPrune, BackupEnd, db, store
<1>2. ReferencedBlobs' = ReferencedBlobs
    BY <1>1 DEF ReferencedBlobs
<1>3. OrphanPart'
    BY <1>1, <1>2, BackupNewest DEF GCPart, OrphanPart
<1>4. ASSUME gc.pc \in {"rows", "blobs"}, NEW r \in SnapPairs'
      PROVE  r[1] \notin gc.garbage
    <2>1. CASE r \in SnapPairs
        BY <1>4, <2>1 DEF GCPart, GarbagePart
    <2>2. CASE r \in SnapshotBlobs(files, chunks)
        <3>1. PICK c \in Referenced(files) \intersect DOMAIN chunks :
                    r = <<chunks[c].blob, chunks[c].hash>>
            BY <2>2 DEF SnapshotBlobs
        <3>2. ~Unreferenced(files, c)
            BY <3>1 DEF Unreferenced, Referenced, IdsOf, RefsTo
        <3>3. chunks[c].blob \in gc.garbage => c \in gc.dead
            BY <1>4 DEF GCPart, GarbagePart
        <3>4. gc.pc = "rows" => c \notin gc.dead
            BY <3>2 DEF FilesInv, DeadPart
        <3>5. gc.pc = "blobs" => gc.dead = {}
            BY DEF GCPart, GarbagePart
        <3>6. QED
            BY <1>4, <3>1, <3>3, <3>4, <3>5
    <2>3. QED
        BY <1>1, <1>4, <2>1, <2>2, BackupPromises
<1>5. GarbagePart'
    BY <1>1, <1>4 DEF GCPart, GarbagePart
<1>6. QED
    BY <1>3, <1>5 DEF GCPart

-----------------------------------------------------------------------------
(* All together.                                                           *)

BlobParts == PhasePart /\ StorePart /\ GCPart /\ NewestPart

\* No step of an upload, of a session, or of DELETE and MOVE runs while GC
\* holds its locks, and none of them gives them to it.
LEMMA WriterParts ==
    ASSUME FilesInv, BlobParts, PhasePart', StorePart', UNCHANGED <<gc, backup>>,
           gc.pc \notin GCHolds
    PROVE  BlobParts'
BY NoGarbage, NewestFrame DEF BlobParts

\* Every step of the repository keeps the invariant.
LEMMA NextBlobs == BlobsInv /\ [Next]_vars => BlobsInv'
<1> SUFFICES ASSUME BlobsInv, [Next]_vars PROVE BlobsInv'
    OBVIOUS
<1>1. FilesInv /\ BlobParts /\ ~CanLoseMeta
    BY DEF BlobsInv, BlobParts, StorePart, GCPart
<1>2. FilesInv'
    BY <1>1, NextFiles
<1>3. PhasePart /\ StorePart /\ GCPart /\ NewestPart
    BY <1>1 DEF BlobParts
<1>4. ASSUME NEW t \in Tasks, StoreChunk(t) PROVE BlobParts'
    <2>1. gc.pc \notin GCHolds
        BY <1>1, <1>3, <1>4, GCAlone
    <2>2. UNCHANGED <<gc, backup>>
        BY <1>4 DEF StoreChunk, FindChunk, AbandonTask, Register, PutBlob, PutBlobFails,
           InsertRow, InsertFails, Refind, DropDuplicate
    <2>3. QED
        BY <1>1, <1>3, <1>4, <2>1, <2>2, PhaseKept, StoreChunkStore, WriterParts
<1>5. ASSUME NEW w \in Puts, PutStep(w) PROVE BlobParts'
    <2>1. gc.pc \notin GCHolds
        BY <1>1, <1>3, <1>5, GCAlone
    <2>2. UNCHANGED <<store, gc, backup>>
        BY <1>5 DEF PutStep, PutStart, PutGiveUp, PutLock, PutCommit, PutCommitFails, PutCleanup,
           PutFailed
    <2>3. w \in Writers
        BY DEF Writers
    <2>4. \/ UNCHANGED task
          \/ \E body \in Bodies : StartTasks(w, body)
          \/ ClearTasks(w)
          \/ \E t \in Tasks : task' = [task EXCEPT ![t].new = FALSE]
        <3>1. TasksOf(w) \subseteq Tasks
            BY <2>3 DEF TasksOf, Tasks
        <3>2. QED
            BY <1>5, <3>1 DEF PutStep, PutStart, PutGiveUp, PutLock, PutCommit, PutCommitFails,
               PutCleanup, PutFailed
    <2>5. StorePart'
        BY <1>1, <1>3, <1>5, <2>2, <2>3, <2>4, PutRows, WriterStore
    <2>6. QED
        BY <1>1, <1>3, <1>5, <2>1, <2>2, <2>5, PhaseKept, WriterParts
<1>6. ASSUME NEW w \in Sessions, SessionStep(w) PROVE BlobParts'
    <2>1. gc.pc \notin GCHolds
        BY <1>1, <1>3, <1>6, GCAlone
    <2>2. UNCHANGED <<store, gc, backup>>
        BY <1>6 DEF SessionStep, SessionStart, SessionFile, SessionUpsert, SessionDelete, SessionEnd
    <2>3. w \in Writers
        BY DEF Writers
    <2>4. \/ UNCHANGED task
          \/ \E body \in Bodies : StartTasks(w, body)
          \/ ClearTasks(w)
        BY <1>6 DEF SessionStep, SessionStart, SessionFile, SessionUpsert, SessionDelete,
           SessionEnd, upl
    <2>5. StorePart'
        BY <1>1, <1>3, <1>6, <2>2, <2>3, <2>4, SessionRows, WriterStore
    <2>6. QED
        BY <1>1, <1>3, <1>6, <2>1, <2>2, <2>5, PhaseKept, WriterParts
<1>7. ASSUME TreeStep PROVE BlobParts'
    <2>1. gc.pc \notin GCHolds
        BY <1>1, <1>3, <1>7, GCAlone
    <2>2. UNCHANGED <<store, upl, gc, backup>>
        BY <1>7 DEF TreeStep, DeletePathStart, MovePathStart, TreeDeleteRow, MoveUpsert, TreeOpEnd
    <2>3. RowsKept /\ Promised' \subseteq Promised
        BY <1>1, <1>7, <2>2, TreeRows, BackupsKept, PromisesKept DEF backup
    <2>4. StorePart'
        BY <1>1, <1>3, <2>2, <2>3, OtherStore DEF upl
    <2>5. QED
        BY <1>1, <1>3, <2>1, <2>2, <2>4, PhaseFrame, WriterParts
<1>8. ASSUME GCStep PROVE BlobParts'
    <2>1. UNCHANGED <<upl, backup>>
        BY <1>8 DEF GCStep, GCRequest, GCLockMaintenance, GCLockWrite, GCList, GCScan, GCProtect,
           GCDeleteRow, GCRowsDone, GCDeleteBlob, GCFinish, GCAbort
    <2>2. StorePart'
        BY <1>1, <1>3, <1>8, GCStore DEF GCPart
    <2>3. QED
        BY <1>1, <1>3, <1>8, <2>1, <2>2, GCGarbage, PhaseFrame, NewestFrame DEF BlobParts
<1>9. ASSUME BackupStep PROVE BlobParts'
    <2>1. UNCHANGED <<files, chunks, store, upl>>
        BY <1>9 DEF BackupStep, BackupStart, BackupSnapshot, BackupUpload, BackupVerify, BackupDrop,
           BackupPrune, BackupEnd, db
    <2>2. RowsKept /\ Promised' \subseteq Promised
        BY <1>1, <1>9, <2>1, NoStep, BackupPromises
    <2>3. StorePart'
        BY <1>1, <1>3, <2>1, <2>2, OtherStore DEF upl
    <2>4. QED
        BY <1>1, <1>3, <1>9, <2>1, <2>3, PhaseFrame, BackupNewest, BackupGarbage DEF BlobParts
<1>10. ASSUME Crash \/ RestoreMeta PROVE BlobParts'
    <2>1. Down /\ UNCHANGED <<files, chunks>>
        BY <1>1, <1>10 DEF Crash, RestoreMeta, db
    <2>2. RowsKept /\ Promised' \subseteq Promised
        BY <1>1, <2>1, NoStep, BackupPromises
    <2>3. UNCHANGED <<store, snaps, verified>> /\ gc' = NoGC
          /\ bk' = [bk EXCEPT !.pc = "idle", !.snap = NoSnap]
        BY <2>1 DEF Down, BackupReturn
    <2>4. StorePart'
        BY <1>1, <1>3, <2>1, <2>2, <2>3, OtherStore
    <2>5. NewestPart'
        <3>1. bk \in [pc : {"idle", "snapshot", "upload", "verify", "drop", "prune"},
                      snap : {bk.snap}, name : 0 .. MaxSnaps]
            BY <1>1 DEF FilesInv, Inv, BackupPart, BkOk
        <3>2. bk'.pc = "idle" /\ bk'.snap = NoSnap /\ bk'.name = bk.name
            BY <2>3, <3>1
        <3>3. ~bk'.snap.ok
            BY <3>2 DEF NoSnap
        <3>4. QED
            BY <1>3, <2>3, <3>2, <3>3 DEF NewestPart
    <2>6. GCPart'
        BY <2>3, NoGarbage DEF NoGC, GCHolds
    <2>7. QED
        BY <1>1, <1>3, <2>1, <2>4, <2>5, <2>6, PhaseKept DEF BlobParts
<1>11. ASSUME UNCHANGED vars PROVE BlobParts'
    <2>1. UNCHANGED <<files, chunks, store, upl, backup, gc, task>>
        BY <1>11 DEF vars, store, upl, backup
    <2>2. RowsKept /\ Promised' \subseteq Promised /\ ReferencedBlobs' = ReferencedBlobs
          /\ SnapPairs' = SnapPairs /\ Unsettled' = Unsettled
        BY <2>1, NoStep, BackupsKept, PromisesKept DEF backup, ReferencedBlobs, Unsettled
    <2>3. StorePart'
        BY <1>1, <1>3, <2>1, <2>2, OtherStore
    <2>4. GarbagePart' /\ OrphanPart'
        BY <1>3, <2>1, <2>2 DEF GCPart, GarbagePart, OrphanPart, store, backup
    <2>5. QED
        BY <1>3, <2>1, <2>3, <2>4, PhaseFrame, NewestFrame DEF BlobParts, GCPart
<1>12. BlobParts'
    BY <1>4, <1>5, <1>6, <1>7, <1>8, <1>9, <1>10, <1>11 DEF Next
<1>13. QED
    BY <1>1, <1>2, <1>12 DEF BlobsInv, BlobParts, StorePart, GCPart

\* BlobsInv holds in every state of every instance that does not lose its Meta.
LEMMA BlobsInvariant == ~CanLoseMeta /\ Spec => []BlobsInv
<1>1. ~CanLoseMeta /\ Init => BlobsInv
    BY InitBlobs
<1>2. BlobsInv /\ [Next]_vars => BlobsInv'
    BY NextBlobs
<1>3. QED
    BY <1>1, <1>2, PTL DEF Spec

\* "Blob first, then the row": the blob of every chunk row is in the backend and
\* holds its content, whatever uploads, GC, failed calls and crashes do.
THEOREM RepoRowsHaveBlobs == ~CanLoseMeta /\ Spec => []RowsHaveBlobs
BY BlobsInvariant, BlobsInvImplies, PTL

\* Every intact Meta backup in the backend can be restored: GC and uploads never
\* delete a blob that one of them references.
THEOREM RepoSnapshotsRestorable == ~CanLoseMeta /\ Spec => []SnapshotsRestorable
BY BlobsInvariant, BlobsInvImplies, PTL

\* The last backup whose read-back agreed is still there and restorable: no
\* later upload, failed upload or pruning took it.
THEOREM RepoVerifiedBackup == ~CanLoseMeta /\ Spec => []VerifiedBackupRestorable
BY BlobsInvariant, BlobsInvImplies, PTL

\* A GC that ends without a failure, with no backups to protect, leaves exactly
\* the blobs of the rows that files reference.
THEOREM RepoNoOrphans == ~CanLoseMeta /\ Spec => []GCLeavesNoOrphans
BY BlobsInvariant, BlobsInvImplies, PTL

-----------------------------------------------------------------------------
(* What readers see is a file store.                                       *)

\* What the manifest alone says about the contents of the files.
Hashed(fs, cs) == [p \in DOMAIN fs |-> [i \in DOMAIN fs[p] |-> cs[fs[p][i]].hash]]
Content == [p \in DOMAIN files |-> Assembled(p)]

ReadBack    == Content = Hashed(files, chunks)
WholeBodies == \A p \in DOMAIN files : Hashed(files, chunks)[p] \in Bodies

\* The blobs that a reader fetches hold what the rows say.
LEMMA BlobsReadBack == BlobsInv => ReadBack
<1> SUFFICES ASSUME BlobsInv PROVE Content = Hashed(files, chunks)
    BY DEF ReadBack
<1>1. RowsHaveBlobs
    BY BlobsInvImplies
<1>2. ASSUME NEW p \in DOMAIN files, NEW i \in DOMAIN files[p]
      PROVE  blobs[chunks[files[p][i]].blob] = chunks[files[p][i]].hash
    <2>1. files[p][i] \in IdsOf(files[p])
        BY DEF IdsOf
    <2>2. files[p][i] \in DOMAIN chunks
        BY <2>1 DEF BlobsInv, FilesInv, Inv, DBPart, DBOk, DBInv, NoDangling
    <2>3. <<chunks[files[p][i]].blob, chunks[files[p][i]].hash>> \in BlobPairs(blobs)
        BY <1>1, <2>2 DEF RowsHaveBlobs
    <2>4. QED
        BY <2>3, PairStored
<1>3. QED
    BY <1>2 DEF Content, Hashed, Assembled

\* The contents of every file are one of the bodies a writer can send.
LEMMA HashedBodies == FilesInv => WholeBodies
<1> SUFFICES ASSUME FilesInv, NEW p \in DOMAIN files
             PROVE  Hashed(files, chunks)[p] \in Bodies
    BY DEF WholeBodies
<1>1. /\ Contiguous(files[p]) /\ IsTable(files[p], Idx, Ids) /\ IsTable(chunks, Ids, Row)
      /\ \A i \in DOMAIN files[p] : files[p][i] \in DOMAIN chunks
    BY DEF FilesInv, WholePart, Whole, Inv, DBPart, DBOk, DBInv, NoDangling, IsManifest, IdsOf
<1>2. 1 \in Int /\ MaxBody \in Int /\ MaxBody \in Nat
    BY BoundsAssumption
<1> DEFINE n == Cardinality(DOMAIN files[p])
<1>3. n \in Nat
    BY <1>1, <1>2, FS_Interval, FS_Subset, FS_CardinalityType DEF IsTable, Idx
<1>4. DOMAIN files[p] = 1 .. n
    BY <1>1 DEF Contiguous
<1> HIDE DEF n
<1>5. n \in 0 .. MaxBody
    <2>1. n # 0 => n \in 1 .. n
        BY <1>3
    <2>2. n # 0 => n \in 1 .. MaxBody
        BY <1>1, <1>4, <2>1 DEF IsTable, Idx
    <2>3. QED
        BY <1>2, <1>3, <2>2
<1>6. \A i \in DOMAIN files[p] : chunks[files[p][i]].hash \in Hashes
    BY <1>1 DEF IsTable, Row
<1>7. Hashed(files, chunks)[p] \in [1 .. n -> Hashes]
    BY <1>4, <1>6 DEF Hashed
<1>8. QED
    BY <1>5, <1>7 DEF Bodies

\* A row that stays keeps its hash, also when another row is inserted.
HashesKept == \A c \in DOMAIN chunks \intersect DOMAIN chunks' : chunks'[c].hash = chunks[c].hash

\* A kept row keeps its hash.
LEMMA RowsHashes == RowsKept => HashesKept
BY DEF RowsKept, HashesKept

\* Every step of the repository changes at most one path.
LEMMA NextFileStep ==
    ASSUME FilesInv, ~CanLoseMeta, [Next]_vars
    PROVE  FileStep /\ HashesKept
<1>1. ASSUME NEW t \in Tasks, StoreChunk(t) PROVE FileStep /\ HashesKept
    <2>1. CASE InsertRow(t)
        <3>1. UNCHANGED files /\ HashesKept
            BY <2>1 DEF InsertRow, InsertChunk, IsNextRowid, HashesKept
        <3>2. QED
            BY <3>1 DEF FileStep, SameFiles
    <2>2. CASE UNCHANGED db
        BY <2>2, NoStep, RowsHashes DEF db, FileStep
    <2>3. QED
        BY <1>1, <2>1, <2>2 DEF StoreChunk, FindChunk, AbandonTask, Register, PutBlob,
           PutBlobFails, InsertFails, Refind, DropDuplicate
<1>2. CASE BackupStep \/ Crash \/ RestoreMeta \/ UNCHANGED vars
    <2>1. UNCHANGED <<files, chunks>>
        BY <1>2 DEF BackupStep, BackupStart, BackupSnapshot, BackupUpload, BackupVerify, BackupDrop,
           BackupPrune, BackupEnd, Crash, RestoreMeta, db, vars
    <2>2. QED
        BY <2>1, NoStep, RowsHashes DEF FileStep
<1>3. CASE GCStep
    BY <1>3, GCRows, RowsHashes DEF FileStep
<1>4. CASE TreeStep
    BY <1>4, TreeRows, RowsHashes
<1>5. ASSUME NEW w \in Puts, PutStep(w) PROVE FileStep /\ HashesKept
    BY <1>5, PutRows, RowsHashes
<1>6. ASSUME NEW w \in Sessions, SessionStep(w) PROVE FileStep /\ HashesKept
    BY <1>6, SessionRows, RowsHashes
<1>7. QED
    BY <1>1, <1>2, <1>3, <1>4, <1>5, <1>6 DEF Next

\* It writes one path, removes one, or stutters in the file store.
LEMMA ContentStep ==
    ASSUME FilesInv, FilesInv', ReadBack, ReadBack', WholeBodies', FileStep, HashesKept
    PROVE  [Abs!Next]_Content
<1> DEFINE old == Hashed(files, chunks)
           new == Hashed(files', chunks')
<1>1. Content = old /\ Content' = new
    BY DEF ReadBack, Content, Hashed
<1>2. DOMAIN old = DOMAIN files /\ DOMAIN new = DOMAIN files'
    BY DEF Hashed
<1>3. ASSUME NEW q \in DOMAIN files, q \in DOMAIN files', files'[q] = files[q]
      PROVE  new[q] = old[q]
    <2>1. \A i \in DOMAIN files[q] : files[q][i] \in DOMAIN chunks
        BY <1>3 DEF FilesInv, Inv, DBPart, DBOk, DBInv, NoDangling, IdsOf
    <2>2. \A i \in DOMAIN files'[q] : files'[q][i] \in DOMAIN chunks'
        BY <1>3 DEF FilesInv, Inv, DBPart, DBOk, DBInv, NoDangling, IdsOf
    <2>3. QED
        BY <1>3, <2>1, <2>2 DEF Hashed, HashesKept
<1>4. new = [q \in DOMAIN new |-> new[q]] /\ old = [q \in DOMAIN old |-> old[q]]
    BY DEF Hashed
<1> HIDE DEF old, new
<1>5. CASE SameFiles
    <2>1. new = old
        BY <1>2, <1>3, <1>4, <1>5 DEF SameFiles
    <2>2. QED
        BY <1>1, <2>1
<1>6. ASSUME NEW p \in Paths, Writes(p)
      PROVE  Abs!Next
    <2>1. new[p] \in Bodies
        <3>1. p \in DOMAIN files'
            BY <1>6 DEF Writes
        <3>2. QED
            BY <3>1 DEF WholeBodies, new, Hashed
    <2>2. \A q \in DOMAIN files' : q # p => new[q] = old[q]
        BY <1>3, <1>6 DEF Writes, OthersKept
    <2>3. new = [q \in DOMAIN old \union {p} |-> IF q = p THEN new[p] ELSE old[q]]
        BY <1>2, <1>4, <1>6, <2>2 DEF Writes
    <2>4. Abs!Write(p, new[p])
        BY <1>1, <2>3 DEF Abs!Write, Content
    <2>5. QED
        BY <1>6, <2>1, <2>4 DEF Abs!Next
<1>7. ASSUME NEW p \in DOMAIN files, Removes(p)
      PROVE  Abs!Next
    <2>1. p \in Paths
        BY DEF FilesInv, Inv, DBPart, DBOk, IsManifest
    <2>2. \A q \in DOMAIN files' : new[q] = old[q]
        BY <1>3, <1>7 DEF Removes, OthersKept
    <2>3. new = [q \in DOMAIN old \ {p} |-> old[q]]
        BY <1>2, <1>4, <1>7, <2>2 DEF Removes
    <2>4. Abs!Remove(p)
        BY <1>1, <1>2, <2>3 DEF Abs!Remove, Content
    <2>5. QED
        BY <2>1, <2>4 DEF Abs!Next
<1>8. QED
    BY <1>5, <1>6, <1>7 DEF FileStep

\* The abstract file store starts as the repository does.
LEMMA InitContent == Init => Abs!Init
BY DEF Init, Abs!Init

\* Manifest, chunk rows and blobs together are a file store: a reader sees one
\* path change at a time, as a whole, and nothing of deduplication, uploads in
\* flight, failed calls, GC, backups or crashes.
THEOREM RepoImplementsFileStore == ~CanLoseMeta /\ Spec => ImplementsFileStore
<1>1. BlobsInv => FilesInv /\ ReadBack /\ WholeBodies /\ ~CanLoseMeta
    BY BlobsReadBack, HashedBodies DEF BlobsInv
<1>2. BlobsInv /\ BlobsInv' /\ [Next]_vars => [Abs!Next]_Content
    <2> SUFFICES ASSUME BlobsInv, BlobsInv', [Next]_vars PROVE [Abs!Next]_Content
        OBVIOUS
    <2>1. FilesInv' /\ ReadBack' /\ WholeBodies'
        BY <1>1, PTL
    <2>2. FilesInv /\ ReadBack /\ FileStep /\ HashesKept
        BY <1>1, NextFileStep
    <2>3. QED
        BY <2>1, <2>2, ContentStep
<1>3. Init => Abs!Init
    BY InitContent
<1>4. ~CanLoseMeta /\ Spec => Abs!Init /\ [][Abs!Next]_Content
    BY <1>2, <1>3, BlobsInvariant, PTL DEF Spec
<1>5. QED
    BY <1>4, PTL DEF ImplementsFileStore, Abs!Spec, Content

-----------------------------------------------------------------------------
(* Files hold what their writers asked for, as long as only rsync sessions *)
(* write.  A writer remembers row ids; they name the contents it stored    *)
(* for as long as nobody deletes rows, because an id is handed out again   *)
(* only after its row is gone.  A session keeps the module write lock from *)
(* its first row to its last commit, so nobody does.  (A PUT stores its    *)
(* blocks without that lock: run repo_id_reuse.)                           *)

\* A writer's blocks are there only while it stores a file.
BusyPart == \A t \in Tasks : task[t].st # "none" => pc[t[1]] = "store"

\* The row id kept for a stored block is that of a row with its content.
NamesRow(r, cs) == r.id \in DOMAIN cs /\ cs[r.id].hash = r.hash
NamedPart == \A t \in Tasks : task[t].st \in {"ok", "dup"} => NamesRow(task[t], chunks)

\* The source of a MOVE stays until it was copied.
MovePart == op.pc = "move" => op.src \in DOMAIN files \ op.del

WrittenPart == DOMAIN written = DOMAIN files /\ ContentAsWritten

WrittenInv == Puts = {} /\ FilesInv /\ BusyPart /\ NamedPart /\ MovePart /\ WrittenPart

\* Initially nothing is stored or asked for.
LEMMA InitWritten == Puts = {} /\ Init => WrittenInv
<1> SUFFICES ASSUME Puts = {}, Init PROVE WrittenInv
    OBVIOUS
<1>1. FilesInv
    BY InitFiles
<1>2. \A t \in Tasks : task[t].st = "none"
    BY DEF Init, NoTask
<1>3. DOMAIN << >> = {}
    OBVIOUS
<1>4. DOMAIN written = {} /\ DOMAIN files = {}
    BY <1>3 DEF Init
<1>5. op.pc = "idle"
    BY DEF Init, NoOp
<1>6. QED
    BY <1>1, <1>2, <1>4, <1>5 DEF WrittenInv, BusyPart, NamedPart, MovePart, WrittenPart, ContentAsWritten

\* A file that a step leaves alone keeps its contents.
LEMMA KeptContent ==
    ASSUME FilesInv, FilesInv', HashesKept, NEW q \in DOMAIN files, q \in DOMAIN files',
           files'[q] = files[q]
    PROVE  [i \in DOMAIN files'[q] |-> chunks'[files'[q][i]].hash]
             = [i \in DOMAIN files[q] |-> chunks[files[q][i]].hash]
<1>1. \A i \in DOMAIN files[q] : files[q][i] \in DOMAIN chunks \intersect DOMAIN chunks'
    BY DEF FilesInv, Inv, DBPart, DBOk, DBInv, NoDangling, IdsOf
<1>2. QED
    BY <1>1 DEF HashesKept

\* A step that changes neither the files nor what was asked for keeps the two equal.
LEMMA WrittenFrame ==
    ASSUME FilesInv, FilesInv', WrittenPart, HashesKept, SameFiles, UNCHANGED written
    PROVE  WrittenPart'
<1>1. DOMAIN files' = DOMAIN files /\ \A q \in DOMAIN files : files'[q] = files[q]
    BY DEF SameFiles
<1>2. ASSUME NEW q \in DOMAIN files'
      PROVE  [i \in DOMAIN files'[q] |-> chunks'[files'[q][i]].hash] = written'[q]
    BY <1>1, KeptContent DEF WrittenPart, ContentAsWritten
<1>3. QED
    BY <1>1, <1>2 DEF WrittenPart, ContentAsWritten

\* UpsertFile with ids of rows that hold the contents asked for.
LEMMA WriteAsked ==
    ASSUME FilesInv, FilesInv', WrittenPart, NEW p \in Paths, NEW refs, NEW body,
           IsTable(refs, Idx, Int), UpsertAllowed(files, chunks, p, refs),
           WriteFile(p, refs, body),
           \A i \in DOMAIN refs : refs[i] \in DOMAIN chunks,
           body = [i \in DOMAIN refs |-> chunks[refs[i]].hash]
    PROVE  WrittenPart'
<1>1. DBOk(files, chunks)
    BY DEF FilesInv, Inv, DBPart
<1>2. Rows(chunks) /\ DBInv(files, chunks) /\ IsBlockList(refs)
    BY <1>1, ManifestRows, ListTyped DEF DBOk
<1>3. Keeps(files, chunks, p, UpsertFiles(files, chunks, p, refs), UpsertChunks(files, chunks, p, refs))
    BY <1>2, UpsertFileCorrect
<1>4. /\ HashesKept
      /\ \A q \in DOMAIN files \ {p} : files'[q] = files[q]
    BY <1>3 DEF WriteFile, Keeps, HashesKept
<1>5. /\ DOMAIN files' = DOMAIN files \union {p}
      /\ files'[p] = refs
    BY DEF WriteFile, UpsertFiles
<1>6. /\ DOMAIN written' = DOMAIN written \union {p}
      /\ written'[p] = body
      /\ \A q \in DOMAIN written \ {p} : written'[q] = written[q]
    BY DEF WriteFile
<1>7. [i \in DOMAIN files'[p] |-> chunks'[files'[p][i]].hash] = written'[p]
    <2>1. \A i \in DOMAIN refs : refs[i] \in DOMAIN chunks'
        BY <1>5 DEF FilesInv, Inv, DBPart, DBOk, DBInv, NoDangling, IdsOf
    <2>2. QED
        BY <1>4, <1>5, <1>6, <2>1 DEF HashesKept
<1>8. ASSUME NEW q \in DOMAIN files', q # p
      PROVE  [i \in DOMAIN files'[q] |-> chunks'[files'[q][i]].hash] = written'[q]
    BY <1>4, <1>5, <1>6, <1>8, KeptContent DEF WrittenPart, ContentAsWritten
<1>9. QED
    BY <1>5, <1>6, <1>7, <1>8 DEF WrittenPart, ContentAsWritten

\* DeleteFile.
LEMMA RemoveAsked ==
    ASSUME FilesInv, FilesInv', WrittenPart, NEW p, RemoveFile(p)
    PROVE  WrittenPart'
<1>1. DBOk(files, chunks)
    BY DEF FilesInv, Inv, DBPart
<1>2. Rows(chunks) /\ DBInv(files, chunks)
    BY <1>1, ManifestRows DEF DBOk
<1>3. /\ Keeps(files, chunks, p, files', chunks')
      /\ DOMAIN files' = DOMAIN files \ {p}
    BY <1>2, DeleteFileCorrect DEF RemoveFile
<1>4. HashesKept /\ \A q \in DOMAIN files \ {p} : files'[q] = files[q]
    BY <1>3 DEF Keeps, HashesKept
<1>5. DOMAIN written' = DOMAIN written \ {p} /\ \A q \in DOMAIN written \ {p} : written'[q] = written[q]
    BY DEF RemoveFile, Without
<1>6. ASSUME NEW q \in DOMAIN files'
      PROVE  [i \in DOMAIN files'[q] |-> chunks'[files'[q][i]].hash] = written'[q]
    BY <1>3, <1>4, <1>5, KeptContent DEF WrittenPart, ContentAsWritten
<1>7. QED
    BY <1>3, <1>5, <1>6 DEF WrittenPart, ContentAsWritten

-----------------------------------------------------------------------------
(* The ids that a session keeps.                                           *)

\* Rows are added, none goes.
RowsStay == \A c \in DOMAIN chunks : c \in DOMAIN chunks' /\ chunks'[c].hash = chunks[c].hash

\* Ids stay good while no row goes and no task settles.
LEMMA NamedStay ==
    ASSUME NamedPart, RowsStay,
           \A u \in Tasks : task'[u].st \in {"ok", "dup"} =>
                                task'[u] = task[u] \/ NamesRow(task'[u], chunks')
    PROVE  NamedPart'
BY DEF NamedPart, RowsStay, NamesRow

\* An uploader tells its waiters, who have the same content, the right id.
LEMMA PublishNamed ==
    ASSUME TaskPart, NamedPart, RowsStay, NEW t \in Tasks, NEW r \in GoodTasks, Publish(t, r),
           r.hash = task[t].hash, r.st \in {"ok", "err"}, r.st = "ok" => NamesRow(r, chunks')
    PROVE  NamedPart'
<1>1. ASSUME NEW u \in Tasks, task'[u].st \in {"ok", "dup"}
      PROVE  task'[u] = task[u] \/ NamesRow(task'[u], chunks')
    <2>1. CASE u = t
        BY <1>1, <2>1 DEF Publish
    <2>2. CASE u # t /\ u \in Waiters(t)
        <3>1. task'[u] = [task[u] EXCEPT !.st = r.st, !.id = r.id]
            BY <2>2 DEF Publish
        <3>2. task[u] \in GoodTasks /\ task[u].hash = r.hash
            BY <2>2 DEF TaskPart, Waiters
        <3>3. task'[u].st = r.st /\ task'[u].id = r.id /\ task'[u].hash = r.hash
            BY <3>1, <3>2 DEF GoodTasks
        <3>4. QED
            BY <1>1, <3>3 DEF NamesRow
    <2>3. CASE u # t /\ u \notin Waiters(t)
        BY <2>3 DEF Publish
    <2>4. QED
        BY <2>1, <2>2, <2>3
<1>2. QED
    BY <1>1, NamedStay

\* One task takes another state; a settled one names a row of its content.
LEMMA OneTaskNamed ==
    ASSUME TaskPart, NamedPart, RowsStay, NEW t \in Tasks, NEW q, NEW c, q \in {"ok", "dup"} =>
               c \in DOMAIN chunks' /\ chunks'[c].hash = task[t].hash
    PROVE  /\ task' = [task EXCEPT ![t].st = q, ![t].id = c] => NamedPart'
           /\ \A p \in TaskStates \ {"ok", "dup"} : task' = [task EXCEPT ![t].st = p] => NamedPart'
<1>1. task \in [Tasks -> GoodTasks] /\ task[t] \in GoodTasks
    BY DEF TaskPart
<1>2. ASSUME task' = [task EXCEPT ![t].st = q, ![t].id = c]
      PROVE  NamedPart'
    <2>1. /\ task'[t].st = q /\ task'[t].id = c /\ task'[t].hash = task[t].hash
          /\ \A u \in Tasks : u # t => task'[u] = task[u]
        BY <1>1, <1>2 DEF GoodTasks
    <2>2. QED
        BY <2>1, NamedStay DEF NamesRow
<1>3. ASSUME NEW p \in TaskStates \ {"ok", "dup"}, task' = [task EXCEPT ![t].st = p]
      PROVE  NamedPart'
    <2>1. task'[t].st = p /\ \A u \in Tasks : u # t => task'[u] = task[u]
        BY <1>1, <1>3 DEF GoodTasks
    <2>2. QED
        BY <1>3, <2>1, NamedStay
<1>4. QED
    BY <1>2, <1>3

\* storeChunk: the id comes from a row that was just read or inserted.
LEMMA StoreChunkNamed ==
    ASSUME Inv, NamedPart, NEW t \in Tasks, StoreChunk(t)
    PROVE  NamedPart' /\ RowsStay /\ HashesKept
<1>1. /\ TaskPart /\ task[t] \in GoodTasks
      /\ \A id \in 1 .. MaxId : id \in 0 .. MaxId
    BY BoundsAssumption DEF Inv, TaskPart
<1>2. RowsStay /\ HashesKept
    <2>1. CASE InsertRow(t)
        BY <2>1 DEF InsertRow, InsertChunk, IsNextRowid, HashesKept, RowsStay
    <2>2. CASE UNCHANGED db
        BY <2>2 DEF db, HashesKept, RowsStay
    <2>3. QED
        BY <2>1, <2>2 DEF StoreChunk, FindChunk, AbandonTask, Register, PutBlob,
           PutBlobFails, InsertFails, Refind, DropDuplicate
<1> SUFFICES NamedPart'
    BY <1>2
<1>3. /\ task[t].st # "none"
      /\ Failed(t) \in GoodTasks /\ Failed(t).st = "err" /\ Failed(t).hash = task[t].hash
      /\ [task[t] EXCEPT !.st = "ok"].st = "ok"
      /\ [task[t] EXCEPT !.st = "ok"].hash = task[t].hash
      /\ [task[t] EXCEPT !.st = "ok"].id = task[t].id
    <2>1. task[t].st # "none"
        BY DEF StoreChunk, FindChunk, AbandonTask, Register, PutBlob, PutBlobFails,
           InsertRow, InsertFails, Refind, DropDuplicate
    <2>2. QED
        BY <1>1, <2>1, Results DEF Failed, GoodTasks
<1>4. ASSUME NEW q \in {"miss", "wait", "err", "insert", "refind"}, task' = [task EXCEPT ![t].st = q]
      PROVE  NamedPart'
    <2>1. q \in TaskStates \ {"ok", "dup"}
        BY DEF TaskStates, Uploading
    <2>2. q \notin {"ok", "dup"}
        OBVIOUS
    <2>3. QED
        BY <1>1, <1>2, <1>4, <2>1, <2>2, OneTaskNamed
<1>5. \A q, c : c \in FindChunkByHash(chunks, task[t].hash) /\ task' = [task EXCEPT ![t].st = q, ![t].id = c]
                => NamedPart'
    <2> SUFFICES ASSUME NEW q, NEW c \in FindChunkByHash(chunks, task[t].hash),
                        task' = [task EXCEPT ![t].st = q, ![t].id = c]
                 PROVE  NamedPart'
        OBVIOUS
    <2>1. c \in DOMAIN chunks' /\ chunks'[c].hash = task[t].hash
        BY <1>2 DEF FindChunkByHash, RowsStay
    <2>2. QED
        BY <1>1, <1>2, <2>1, OneTaskNamed
<1>6. CASE FindChunk(t)
    BY <1>4, <1>5, <1>6 DEF FindChunk
<1>7. CASE AbandonTask(t) \/ PutBlob(t) \/ InsertFails(t)
    BY <1>4, <1>7 DEF AbandonTask, PutBlob, InsertFails
<1>8. CASE Register(t)
    <2>1. CASE task' = [task EXCEPT ![t].st = "put", ![t].blob = nextBlob]
        <3>1. task'[t].st = "put" /\ \A u \in Tasks : u # t => task'[u] = task[u]
            BY <1>1, <2>1 DEF TaskPart, GoodTasks
        <3>2. QED
            BY <1>2, <3>1, NamedStay
    <2>2. QED
        BY <1>4, <1>8, <2>1 DEF Register
<1>9. CASE PutBlobFails(t)
    BY <1>1, <1>2, <1>3, <1>9, PublishNamed DEF PutBlobFails
<1>10. CASE InsertRow(t)
    <2>1. PICK id \in 1 .. MaxId :
            /\ chunks' = InsertChunk(chunks, id, task[t].hash, task[t].blob)
            /\ Publish(t, [task[t] EXCEPT !.st = "ok", !.id = id, !.new = TRUE])
        BY <1>10 DEF InsertRow
    <2> DEFINE r == [task[t] EXCEPT !.st = "ok", !.id = id, !.new = TRUE]
    <2>2. r \in GoodTasks /\ r.st = "ok" /\ r.hash = task[t].hash /\ r.id = id
        BY <1>1, <1>10 DEF GoodTasks, InsertRow, TaskStates, Uploading
    <2>3. id \in DOMAIN chunks' /\ chunks'[id].hash = task[t].hash
        BY <2>1 DEF InsertChunk
    <2>4. NamesRow(r, chunks')
        BY <2>2, <2>3 DEF NamesRow
    <2> HIDE DEF r
    <2>5. QED
        BY <1>1, <1>2, <2>1, <2>2, <2>4, PublishNamed DEF r
<1>11. CASE Refind(t)
    <2>1. CASE Publish(t, Failed(t))
        BY <1>1, <1>2, <1>3, <2>1, PublishNamed
    <2>2. QED
        BY <1>5, <1>11, <2>1 DEF Refind
<1>12. CASE DropDuplicate(t)
    <2> DEFINE r == [task[t] EXCEPT !.st = "ok"]
    <2>1. r \in GoodTasks
        BY <1>1, <1>12 DEF GoodTasks, DropDuplicate, TaskStates, Uploading
    <2>2. NamesRow(task[t], chunks)
        BY <1>12 DEF DropDuplicate, NamedPart
    <2>3. NamesRow(r, chunks')
        BY <1>2, <1>3, <2>2 DEF NamesRow, RowsStay
    <2>4. Publish(t, r)
        BY <1>12 DEF DropDuplicate
    <2> HIDE DEF r
    <2>5. r.st = "ok" /\ r.hash = task[t].hash
        BY <1>3 DEF r
    <2>6. QED
        BY <1>1, <1>2, <2>1, <2>3, <2>4, <2>5, PublishNamed
<1>13. QED
    BY <1>6, <1>7, <1>8, <1>9, <1>10, <1>11, <1>12 DEF StoreChunk

-----------------------------------------------------------------------------
(* The steps of the others.                                                *)

\* Without uploads the tasks are those of sessions; a session with blocks in
\* hand holds the write lock, so there is one of them at most.
LEMMA OneBusy ==
    ASSUME Puts = {}, Inv, LockPart, BusyPart, NEW t \in Tasks, task[t].st # "none"
    PROVE  t[1] \in Sessions /\ wlock = t[1] /\ pc[t[1]] = "store"
<1>1. pc[t[1]] = "store"
    BY DEF BusyPart
<1>2. t[1] \in Sessions
    BY DEF Tasks, Writers
<1>3. QED
    BY <1>1, <1>2 DEF LockPart

\* Blocks that are not there name no row.
LEMMA NoTasks ==
    ASSUME \A t \in Tasks : task'[t].st = "none"
    PROVE  BusyPart' /\ NamedPart'
BY DEF BusyPart, NamedPart

\* storeChunk needs no lock: it only adds rows.
LEMMA StoreChunkWritten ==
    ASSUME WrittenInv, FilesInv', NEW t \in Tasks, StoreChunk(t)
    PROVE  WrittenInv'
<1>1. Inv
    BY DEF WrittenInv, FilesInv
<1>2. NamedPart' /\ HashesKept
    BY <1>1, StoreChunkNamed DEF WrittenInv
<1>3. UNCHANGED <<files, written, pc, op>>
    BY DEF StoreChunk, FindChunk, AbandonTask, Register, PutBlob, PutBlobFails,
       InsertRow, InsertFails, Refind, DropDuplicate, db
<1>4. BusyPart'
    BY <1>1, <1>3, TasksStay DEF WrittenInv, BusyPart
<1>5. MovePart'
    BY <1>3 DEF WrittenInv, MovePart
<1>6. WrittenPart'
    BY <1>2, <1>3, WrittenFrame DEF WrittenInv, SameFiles
<1>7. QED
    BY <1>2, <1>4, <1>5, <1>6 DEF WrittenInv

\* A session commits blocks that its own ids name, and deletes rows only when
\* it has no block in hand.
LEMMA SessionWritten ==
    ASSUME WrittenInv, FilesInv', NEW w \in Sessions, SessionStep(w)
    PROVE  WrittenInv'
<1>1. /\ Puts = {} /\ FilesInv /\ Inv /\ LockPart /\ BusyPart /\ NamedPart /\ WrittenPart
      /\ w \in Writers /\ pc \in [Writers -> Phases] /\ TaskPart
    BY DEF WrittenInv, FilesInv, Inv, PathPart, Writers
<1>2. MovePart'
    <2>1. wlock = None \/ wlock = w
        BY <1>1 DEF SessionStep, SessionStart, SessionFile, SessionUpsert, SessionDelete, SessionEnd,
           LockPart
    <2>2. op.pc # "move" /\ UNCHANGED op
        BY <1>1, <2>1, ActorsAssumption DEF SessionStep, SessionStart, SessionFile, SessionUpsert,
           SessionDelete, SessionEnd, LockPart
    <2>3. QED
        BY <2>2 DEF MovePart
<1>3. \A t \in Tasks : task[t].st # "none" /\ pc[w] # "idle" => t[1] = w
    BY <1>1, OneBusy DEF LockPart
<1>4. pc[w] # "store" => \A t \in Tasks : task[t].st # "none" => t[1] # w
    BY <1>1 DEF BusyPart
<1>5. CASE SessionStart(w)
    <2>1. UNCHANGED <<files, chunks, written, task>> /\ pc[w] = "idle"
          /\ pc' = [pc EXCEPT ![w] = "session"]
        BY <1>5 DEF SessionStart, db
    <2>2. BusyPart' /\ NamedPart'
        BY <1>1, <1>4, <2>1 DEF BusyPart, NamedPart, Tasks
    <2>3. WrittenPart'
        BY <1>1, <2>1, WrittenFrame DEF SameFiles, HashesKept
    <2>4. QED
        BY <1>1, <1>2, <2>2, <2>3 DEF WrittenInv
<1>6. CASE SessionFile(w)
    <2>1. UNCHANGED <<files, chunks, written>> /\ pc[w] = "session"
          /\ pc' = [pc EXCEPT ![w] = "store"]
        BY <1>6 DEF SessionFile, db
    <2>2. \A t \in Tasks : IF t[1] = w THEN task'[t].st \in {"none", "todo"} ELSE task'[t] = task[t]
        BY <1>1, <1>6, StartClearMoves DEF SessionFile
    <2>3. BusyPart' /\ NamedPart'
        BY <1>1, <2>1, <2>2 DEF BusyPart, NamedPart, Tasks
    <2>4. WrittenPart'
        BY <1>1, <2>1, WrittenFrame DEF SameFiles, HashesKept
    <2>5. QED
        BY <1>1, <1>2, <2>3, <2>4 DEF WrittenInv
<1>7. CASE SessionUpsert(w)
    <2>1. \A t \in Tasks : task'[t].st = "none"
        BY <1>1, <1>3, <1>7, StartClearMoves DEF SessionUpsert
    <2>2. path[w] \in Paths /\ IsTable(ChunkRefs(w), Idx, Int)
        BY <1>1, <1>7, CommitTyped DEF SessionUpsert
    <2>3. ASSUME NEW i \in Blocks(w)
          PROVE  NamesRow(task[<<w, i>>], chunks)
        BY <1>1, <1>7, <2>3 DEF SessionUpsert, AllOk, TasksOf, Blocks, Tasks, NamedPart
    <2>4. /\ DOMAIN ChunkRefs(w) = Blocks(w)
          /\ \A i \in Blocks(w) : ChunkRefs(w)[i] = task[<<w, i>>].id
        BY DEF ChunkRefs
    <2>5. /\ \A i \in DOMAIN ChunkRefs(w) : ChunkRefs(w)[i] \in DOMAIN chunks
          /\ BodyOf(w) = [i \in DOMAIN ChunkRefs(w) |-> chunks[ChunkRefs(w)[i]].hash]
        BY <2>3, <2>4 DEF BodyOf, NamesRow
    <2>6. WrittenPart'
        BY <1>1, <1>7, <2>2, <2>5, WriteAsked DEF SessionUpsert
    <2>7. QED
        BY <1>1, <1>2, <2>1, <2>6, NoTasks DEF WrittenInv
<1>8. CASE SessionDelete(w)
    <2>1. \A t \in Tasks : task'[t].st = "none"
        BY <1>3, <1>4, <1>8 DEF SessionDelete, upl
    <2>2. WrittenPart'
        BY <1>1, <1>8, RemoveAsked DEF SessionDelete
    <2>3. QED
        BY <1>1, <1>2, <2>1, <2>2, NoTasks DEF WrittenInv
<1>9. CASE SessionEnd(w)
    <2>1. UNCHANGED <<files, chunks, written>> /\ pc[w] # "idle"
        BY <1>9 DEF SessionEnd, db
    <2>2. \A t \in Tasks : task'[t].st = "none"
        BY <1>1, <1>3, <1>9, <2>1, StartClearMoves DEF SessionEnd
    <2>3. WrittenPart'
        BY <1>1, <2>1, WrittenFrame DEF SameFiles, HashesKept
    <2>4. QED
        BY <1>1, <1>2, <2>2, <2>3, NoTasks DEF WrittenInv
<1>10. QED
    BY <1>5, <1>6, <1>7, <1>8, <1>9 DEF SessionStep

\* DELETE and MOVE hold the write lock: no session has a block in hand.
LEMMA TreeWritten ==
    ASSUME WrittenInv, FilesInv', TreeStep
    PROVE  WrittenInv'
<1>1. /\ Puts = {} /\ FilesInv /\ Inv /\ LockPart /\ BusyPart /\ NamedPart /\ MovePart /\ WrittenPart
      /\ op \in [pc : {"idle", "delete", "move"}, del : SUBSET Paths,
                 src : Paths \union {None}, dst : Paths \union {None}]
    BY DEF WrittenInv, FilesInv, Inv, OpPart
<1>2. UNCHANGED <<pc, task>>
    BY DEF TreeStep, DeletePathStart, MovePathStart, TreeDeleteRow, MoveUpsert, TreeOpEnd, upl
<1>3. op.pc # "idle" => \A t \in Tasks : task[t].st = "none"
    <2> SUFFICES ASSUME op.pc # "idle", NEW t \in Tasks, task[t].st # "none" PROVE FALSE
        OBVIOUS
    <2>1. wlock = TreeOp /\ wlock = t[1] /\ t[1] \in Sessions
        BY <1>1, OneBusy DEF LockPart
    <2>2. QED
        BY <2>1, ActorsAssumption DEF Writers
<1>4. BusyPart'
    BY <1>1, <1>2 DEF BusyPart
<1>5. CASE DeletePathStart \/ MovePathStart \/ TreeOpEnd
    <2>1. UNCHANGED <<files, chunks, written>>
        BY <1>5 DEF DeletePathStart, MovePathStart, TreeOpEnd, db
    <2>2. NamedPart'
        BY <1>1, <1>2, <2>1 DEF NamedPart
    <2>3. WrittenPart'
        BY <1>1, <2>1, WrittenFrame DEF SameFiles, HashesKept
    <2>4. MovePart'
        <3>1. CASE DeletePathStart \/ TreeOpEnd
            <4>1. NoOp.pc = "idle" /\ \A S : [NoOp EXCEPT !.pc = "delete", !.del = S].pc = "delete"
                BY DEF NoOp
            <4>2. op' = NoOp \/ \E S : op' = [NoOp EXCEPT !.pc = "delete", !.del = S]
                BY <3>1 DEF DeletePathStart, TreeOpEnd
            <4>3. op'.pc # "move"
                BY <4>1, <4>2
            <4>4. QED
                BY <4>3 DEF MovePart
        <3>2. CASE MovePathStart
            <4>1. PICK s \in DOMAIN files, d \in Paths :
                    /\ s # d
                    /\ op' = [pc |-> "move", del |-> {d} \intersect DOMAIN files, src |-> s, dst |-> d]
                BY <3>2 DEF MovePathStart
            <4>2. op'.src = s /\ op'.del = {d} \intersect DOMAIN files
                BY <4>1
            <4>3. op'.src \in DOMAIN files' \ op'.del
                BY <2>1, <4>1, <4>2
            <4>4. QED
                BY <4>3 DEF MovePart
        <3>3. QED
            BY <1>5, <3>1, <3>2
    <2>5. QED
        BY <1>1, <1>4, <2>2, <2>3, <2>4 DEF WrittenInv
<1>6. CASE TreeDeleteRow
    <2>1. PICK p \in op.del : RemoveFile(p) /\ op' = [op EXCEPT !.del = @ \ {p}]
        BY <1>6 DEF TreeDeleteRow
    <2>2. NamedPart'
        BY <1>2, <1>3, <1>6 DEF TreeDeleteRow, NamedPart
    <2>3. WrittenPart'
        BY <1>1, <2>1, RemoveAsked
    <2>4. DOMAIN files' = DOMAIN files \ {p}
        BY <2>1 DEF RemoveFile, DeleteFiles, Without, Cascade
    <2>5. op'.pc = op.pc /\ op'.src = op.src /\ op'.del = op.del \ {p}
        BY <1>1, <2>1
    <2>6. MovePart'
        BY <1>1, <2>4, <2>5 DEF MovePart
    <2>7. QED
        BY <1>1, <1>4, <2>2, <2>3, <2>6 DEF WrittenInv
<1>7. CASE MoveUpsert
    <2>1. /\ op.src \in DOMAIN files /\ op.dst \in Paths
          /\ IsManifest(files, chunks)
        BY <1>1, <1>7 DEF MoveUpsert, MovePart, Inv, OpPart, DBPart, DBOk
    <2> DEFINE refs == GetFileChunks(files, op.src)
    <2>2. refs = files[op.src] /\ IsTable(refs, Idx, Int)
        BY <2>1, GetFileChunksTyped DEF GetFileChunks
    <2>3. \A i \in DOMAIN refs : refs[i] \in DOMAIN chunks
        BY <1>1, <2>1, <2>2 DEF Inv, DBPart, DBOk, DBInv, NoDangling, IdsOf
    <2>4. written[op.src] = [i \in DOMAIN refs |-> chunks[refs[i]].hash]
        BY <1>1, <2>1, <2>2 DEF WrittenPart, ContentAsWritten
    <2>5. UpsertAllowed(files, chunks, op.dst, refs) /\ WriteFile(op.dst, refs, written[op.src])
        BY <1>7 DEF MoveUpsert
    <2> HIDE DEF refs
    <2>6. WrittenPart'
        BY <1>1, <2>1, <2>2, <2>3, <2>4, <2>5, WriteAsked
    <2>7. NamedPart'
        BY <1>2, <1>3, <1>7 DEF MoveUpsert, NamedPart
    <2>8. MovePart'
        BY <1>1, <1>7 DEF MoveUpsert, MovePart
    <2>9. QED
        BY <1>1, <1>4, <2>6, <2>7, <2>8 DEF WrittenInv
<1>8. QED
    BY <1>5, <1>6, <1>7 DEF TreeStep

\* GC deletes rows under the write lock, and none that a file references.
LEMMA GCWritten ==
    ASSUME WrittenInv, FilesInv', GCStep
    PROVE  WrittenInv'
<1>1. /\ Puts = {} /\ FilesInv /\ Inv /\ LockPart /\ BusyPart /\ NamedPart /\ MovePart /\ WrittenPart
    BY DEF WrittenInv, FilesInv
<1>2. UNCHANGED <<pc, task, op, written>>
    BY DEF GCStep, GCRequest, GCLockMaintenance, GCLockWrite, GCList, GCScan, GCProtect,
       GCDeleteRow, GCRowsDone, GCDeleteBlob, GCFinish, GCAbort, upl, db, RemoveChunks
<1>3. RowsKept /\ SameFiles /\ HashesKept
    BY <1>1, GCRows, RowsHashes
<1>4. WrittenPart'
    BY <1>1, <1>2, <1>3, WrittenFrame
<1>5. BusyPart' /\ MovePart'
    BY <1>1, <1>2, <1>3 DEF BusyPart, MovePart, SameFiles
<1>6. NamedPart'
    <2>1. CASE GCDeleteRow
        <3>1. \A t \in Tasks : task[t].st = "none"
            <4> SUFFICES ASSUME NEW t \in Tasks, task[t].st # "none" PROVE FALSE
                OBVIOUS
            <4>1. wlock = GC /\ wlock = t[1] /\ t[1] \in Sessions
                BY <1>1, <2>1, OneBusy DEF LockPart, GCDeleteRow, GCHolds
            <4>2. QED
                BY <4>1, ActorsAssumption DEF Writers
        <3>2. QED
            BY <1>2, <3>1 DEF NamedPart
    <2>2. CASE UNCHANGED db
        BY <1>1, <1>2, <2>2 DEF db, NamedPart
    <2>3. QED
        BY <2>1, <2>2 DEF GCStep, GCRequest, GCLockMaintenance, GCLockWrite, GCList, GCScan, GCProtect,
           GCRowsDone, GCDeleteBlob, GCFinish, GCAbort
<1>7. QED
    BY <1>1, <1>4, <1>5, <1>6 DEF WrittenInv

\* After a crash nobody has a block in hand; a restore brings files and rows of
\* one snapshot, and from then on its contents are those asked for.
LEMMA DownWritten ==
    ASSUME WrittenInv, FilesInv', Crash \/ RestoreMeta
    PROVE  WrittenInv'
<1>1. Puts = {} /\ FilesInv /\ WrittenPart
    BY DEF WrittenInv
<1>2. (\A t \in Tasks : task'[t].st = "none") /\ op'.pc = "idle"
    BY DEF Crash, RestoreMeta, Down, NoTask, NoOp
<1>3. BusyPart' /\ NamedPart' /\ MovePart'
    BY <1>2, NoTasks DEF MovePart
<1>4. CASE Crash
    <2>1. UNCHANGED <<files, chunks, written>>
        BY <1>4 DEF Crash, db
    <2>2. QED
        BY <1>1, <1>3, <2>1, WrittenFrame DEF WrittenInv, SameFiles, HashesKept
<1>5. CASE RestoreMeta
    <2>1. written' = [p \in DOMAIN files' |-> [i \in DOMAIN files'[p] |-> chunks'[files'[p][i]].hash]]
        BY <1>5 DEF RestoreMeta
    <2>2. WrittenPart'
        BY <2>1 DEF WrittenPart, ContentAsWritten
    <2>3. QED
        BY <1>1, <1>3, <2>2 DEF WrittenInv
<1>6. QED
    BY <1>4, <1>5

\* Every step keeps WrittenInv.
LEMMA NextWritten == WrittenInv /\ [Next]_vars => WrittenInv'
<1> SUFFICES ASSUME WrittenInv, [Next]_vars PROVE WrittenInv'
    OBVIOUS
<1>1. FilesInv'
    BY NextFiles DEF WrittenInv
<1>2. ASSUME NEW t \in Tasks, StoreChunk(t) PROVE WrittenInv'
    BY <1>1, <1>2, StoreChunkWritten
<1>3. ASSUME NEW w \in Sessions, SessionStep(w) PROVE WrittenInv'
    BY <1>1, <1>3, SessionWritten
<1>4. CASE TreeStep
    BY <1>1, <1>4, TreeWritten
<1>5. CASE GCStep
    BY <1>1, <1>5, GCWritten
<1>6. CASE Crash \/ RestoreMeta
    BY <1>1, <1>6, DownWritten
<1>7. CASE BackupStep \/ UNCHANGED vars
    <2>1. UNCHANGED <<files, chunks, written, pc, task, op>>
        BY <1>7 DEF BackupStep, BackupStart, BackupSnapshot, BackupUpload, BackupVerify, BackupDrop,
           BackupPrune, BackupEnd, db, upl, vars
    <2>2. QED
        BY <1>1, <2>1 DEF WrittenInv, BusyPart, NamedPart, MovePart, WrittenPart, ContentAsWritten
<1>8. QED
    BY <1>2, <1>3, <1>4, <1>5, <1>6, <1>7 DEF Next, WrittenInv

\* A module that only rsync sessions write never gives a file the contents of
\* another: whatever DELETE, MOVE, GC, backups, crashes and restores go on, the
\* row ids a session commits are still those of the blocks it stored, although
\* SQLite hands out the ids of deleted rows again.
THEOREM RepoSessionsKeepContent == Puts = {} /\ Spec => []ContentAsWritten
<1>1. Puts = {} /\ Init => WrittenInv
    BY InitWritten
<1>2. WrittenInv /\ [Next]_vars => WrittenInv'
    BY NextWritten
<1>3. WrittenInv => ContentAsWritten
    BY DEF WrittenInv, WrittenPart
<1>4. QED
    BY <1>1, <1>2, <1>3, PTL DEF Spec
=============================================================================
