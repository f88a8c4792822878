-------------------------------- MODULE Repo --------------------------------
(***************************************************************************)
(* The repository engine of one module (internal/core/repo): concurrent    *)
(* WebDAV uploads, rsync write sessions, DELETE/MOVE, garbage collection   *)
(* and remote Meta backups over one SQLite manifest (module MetaDB) and    *)
(* one blob backend, inside one daemon process that may crash.             *)
(*                                                                         *)
(* Locks.  moduleWriteLocks is the variable wlock.  The other two are      *)
(* functions of the program counters: a WebDAV upload holds the shared     *)
(* maintenance lock while pc[w] # "idle", GC waits for or holds its        *)
(* exclusive side while gc.pc # "idle" (a waiting writer of a Go RWMutex   *)
(* already blocks new readers), and the Meta lock is held by a backup      *)
(* while bk.pc # "idle".                                                   *)
(***************************************************************************)
EXTENDS MetaDB

CONSTANTS
    Puts,         \* WebDAV PUT requests (one shared Repo instance)
    Sessions,     \* rsync write sessions (a Repo instance each)
    Paths,        \* file paths
    Hashes,       \* contents of a block, identified with its SHA-256
    None,         \* nobody holds the write lock, no path, no hash
    TreeOp, GC,   \* the other holders of the write lock
    MaxBody,      \* bound: blocks per file
    MaxId,        \* bound: largest chunk row id
    MaxBlobs,     \* bound: blob names handed out
    MaxSnaps,     \* bound: Meta backup names handed out
    Retain,       \* meta_backup.retain
    GCEnabled,    \* gc.interval # 0
    TreeOps,      \* do WebDAV clients send DELETE and MOVE?
    CanCrash,     \* may the process die and restart?
    CanLoseMeta   \* may the local Meta be lost and restored from a backup?

Writers == Puts \union Sessions
Idx     == 1 .. MaxBody
Tasks   == Writers \X Idx
Bodies  == UNION { [1 .. n -> Hashes] : n \in 0 .. MaxBody }

ASSUME BoundsAssumption ==
    /\ MaxBody \in Nat /\ MaxId \in Nat /\ MaxBlobs \in Nat /\ MaxSnaps \in Nat
    /\ Retain \in Nat \ {0}
    /\ {GCEnabled, TreeOps, CanCrash, CanLoseMeta} \subseteq BOOLEAN

ASSUME ActorsAssumption ==
    /\ Puts \intersect Sessions = {}
    /\ TreeOp # GC /\ TreeOp # None /\ GC # None
    /\ {TreeOp, GC, None} \intersect Writers = {}
    /\ None \notin Paths \union Hashes

VARIABLES
    files, chunks,  \* the manifest, see MetaDB
    blobs,          \* backend: blob name -> hash of the plaintext
    nextBlob,       \* blob names below this one have been handed out
    pc, path, task, \* per writer: phase, target path; per block: its store state
    wlock,          \* holder of the module write lock
    op,             \* DELETE/MOVE in progress
    gc,             \* GC in progress
    bk,             \* Meta backup in progress
    snaps,          \* backend meta/: backup name -> snapshot
    verified,       \* ghost: name of the last backup that passed read-back, or 0
    written         \* ghost: path -> block contents its writer asked for

db     == <<files, chunks, written>>
upl    == <<pc, path, task>>
store  == <<blobs, nextBlob>>
backup == <<bk, snaps, verified>>
vars   == <<files, chunks, written, blobs, nextBlob, pc, path, task, wlock, op, gc,
            bk, snaps, verified>>

Phases     == {"idle", "session", "store", "commit", "cleanup"}
Uploading  == {"put", "insert", "refind", "dup"}
TaskStates == {"none", "todo", "miss", "wait", "ok", "err"} \union Uploading

NoTask == [st |-> "none", hash |-> None, id |-> 0, new |-> FALSE, blob |-> 0]
NoOp   == [pc |-> "idle", del |-> {}, src |-> None, dst |-> None]
NoGC   == [pc |-> "idle", listed |-> {}, dead |-> {}, garbage |-> {}, failed |-> FALSE]
NoSnap == [ok |-> FALSE, files |-> << >>, chunks |-> << >>]
NoBk   == [pc |-> "idle", snap |-> NoSnap, name |-> 0]

\* Tasks of one writer, and writers that share an in-flight table with it.
TasksOf(w)      == {w} \X Idx
SameInstance(w) == IF w \in Puts THEN Puts ELSE {w}

\* Tasks that wait on the in-flight registration held by task t.
Waiters(t) == {u \in Tasks : /\ task[u].st = "wait" /\ task[u].hash = task[t].hash
                             /\ u[1] \in SameInstance(t[1])}

\* Another task of the same instance is registered for this hash.
Registered(t) == \E u \in Tasks : /\ task[u].st \in Uploading
                                  /\ task[u].hash = task[t].hash
                                  /\ u[1] \in SameInstance(t[1])

SnapRefs(s)   == IF s.ok THEN SnapshotBlobs(s.files, s.chunks) ELSE {}
BlobPairs(bs) == { <<b, bs[b]>> : b \in DOMAIN bs }

-----------------------------------------------------------------------------
Init ==
    /\ files = << >> /\ chunks = << >> /\ written = << >>
    /\ blobs = << >> /\ nextBlob = 1
    /\ pc = [w \in Writers |-> "idle"]
    /\ path = [w \in Writers |-> None]
    /\ task = [t \in Tasks |-> NoTask]
    /\ wlock = None
    /\ op = NoOp /\ gc = NoGC /\ bk = NoBk
    /\ snaps = << >> /\ verified = 0

-----------------------------------------------------------------------------
(* The manifest transactions, as assignments to its variables.             *)

WriteFile(p, refs, body) ==
    /\ files' = UpsertFiles(files, chunks, p, refs)
    /\ chunks' = UpsertChunks(files, chunks, p, refs)
    /\ written' = [q \in DOMAIN written \union {p} |-> IF q = p THEN body ELSE written[q]]

RemoveFile(p) ==
    /\ files' = DeleteFiles(files, chunks, p)
    /\ chunks' = DeleteChunks(files, chunks, p)
    /\ written' = Without(written, {p})

RemoveChunks(dead) ==
    /\ chunks' = Without(chunks, dead)
    /\ files' = Cascade(files, dead)
    /\ UNCHANGED written

-----------------------------------------------------------------------------
(* storeChunkContext, one action per database or backend call.             *)

\* Rsync stores the blocks of a file one after the other; the workers of a
\* PUT take them in any order.
MayRun(t) == /\ pc[t[1]] = "store"
             /\ t[1] \in Sessions =>
                    \A i \in Idx : i < t[2] => task[<<t[1], i>>].st = "ok"

\* End of the deferred function of an uploader: its registration disappears
\* (it leaves Uploading) and every waiter receives its id or its error.
PublishSuccessOnly(t, result) ==   \* mutant: an error leaves the waiters waiting
    task' = [u \in Tasks |->
                IF u = t THEN result
                ELSE IF u \in Waiters(t) /\ result.st = "ok"
                     THEN [task[u] EXCEPT !.st = result.st, !.id = result.id]
                     ELSE task[u]]

Publish(t, result) ==
    task' = [u \in Tasks |->
                IF u = t THEN result
                ELSE IF u \in Waiters(t)
                     THEN [task[u] EXCEPT !.st = result.st, !.id = result.id]
                     ELSE task[u]]

Failed(t) == [task[t] EXCEPT !.st = "err"]

FindChunk(t) ==
    /\ MayRun(t) /\ task[t].st = "todo"
    /\ \/ \E c \in FindChunkByHash(chunks, task[t].hash) :
            task' = [task EXCEPT ![t].st = "ok", ![t].id = c]
       \/ /\ FindChunkByHash(chunks, task[t].hash) = {}
          /\ task' = [task EXCEPT ![t].st = "miss"]
    /\ UNCHANGED <<db, store, pc, path, wlock, op, gc, backup>>

\* The context is done, or the query fails; a waiter gives up on its context.
AbandonTask(t) ==
    /\ MayRun(t) /\ task[t].st \in {"todo", "wait"}
    /\ task' = [task EXCEPT ![t].st = "err"]
    /\ UNCHANGED <<db, store, pc, path, wlock, op, gc, backup>>

\* Mutant: the drawn blob name is not kept with the block.
RegisterNoName(t) ==
    /\ task[t].st = "miss"
    /\ \/ /\ Registered(t)
          /\ task' = [task EXCEPT ![t].st = "wait"]
          /\ UNCHANGED nextBlob
       \/ /\ ~Registered(t)
          /\ task' = [task EXCEPT ![t].st = "err"]
          /\ UNCHANGED nextBlob
       \/ /\ ~Registered(t)
          /\ nextBlob <= MaxBlobs
          /\ task' = [task EXCEPT ![t].st = "put"]
          /\ nextBlob' = nextBlob + 1
    /\ UNCHANGED <<db, blobs, pc, path, wlock, op, gc, backup>>

\* The inflightMu section: wait on a registration or make one and draw a
\* random blob name (names never repeat: a counter); drawing or encrypting
\* may fail.
Register(t) ==
    /\ task[t].st = "miss"
    /\ \/ /\ Registered(t)
          /\ task' = [task EXCEPT ![t].st = "wait"]
          /\ UNCHANGED nextBlob
       \/ /\ ~Registered(t)
          /\ task' = [task EXCEPT ![t].st = "err"]
          /\ UNCHANGED nextBlob
       \/ /\ ~Registered(t)
          /\ nextBlob <= MaxBlobs
          /\ task' = [task EXCEPT ![t].st = "put", ![t].blob = nextBlob]
          /\ nextBlob' = nextBlob + 1
    /\ UNCHANGED <<db, blobs, pc, path, wlock, op, gc, backup>>

\* The backend with task t's blob added.
WithBlob(t) == [b \in DOMAIN blobs \union {task[t].blob} |->
                    IF b = task[t].blob THEN task[t].hash ELSE blobs[b]]

PutBlob(t) ==
    /\ task[t].st = "put"
    /\ blobs' = WithBlob(t)
    /\ task' = [task EXCEPT ![t].st = "insert"]
    /\ UNCHANGED <<db, nextBlob, pc, path, wlock, op, gc, backup>>

\* An error answer, a cancelled context or a lost reply: the blob may be there.
PutBlobFails(t) ==
    /\ task[t].st = "put"
    /\ blobs' \in {blobs, WithBlob(t)}
    /\ Publish(t, Failed(t))
    /\ UNCHANGED <<db, nextBlob, pc, path, wlock, op, gc, backup>>

InsertRow(t) ==
    /\ task[t].st = "insert"
    /\ FindChunkByHash(chunks, task[t].hash) = {}
    /\ \E id \in 1 .. MaxId :
        /\ IsNextRowid(chunks, id)
        /\ chunks' = InsertChunk(chunks, id, task[t].hash, task[t].blob)
        /\ Publish(t, [task[t] EXCEPT !.st = "ok", !.id = id, !.new = TRUE])
    /\ UNCHANGED <<files, written, store, pc, path, wlock, op, gc, backup>>

\* UNIQUE conflict with another writer of the same content, or any other
\* failure of the INSERT.
InsertFails(t) ==
    /\ task[t].st = "insert"
    /\ task' = [task EXCEPT ![t].st = "refind"]
    /\ UNCHANGED <<db, store, pc, path, wlock, op, gc, backup>>

Refind(t) ==
    /\ task[t].st = "refind"
    /\ \/ \E c \in FindChunkByHash(chunks, task[t].hash) :
            task' = [task EXCEPT ![t].st = "dup", ![t].id = c]
       \/ /\ FindChunkByHash(chunks, task[t].hash) = {}
          /\ Publish(t, Failed(t))
    /\ UNCHANGED <<db, store, pc, path, wlock, op, gc, backup>>

\* Delete the duplicate blob just written (a failure is ignored) and reuse.
DropDuplicate(t) ==
    /\ task[t].st = "dup"
    /\ blobs' \in {blobs, Without(blobs, {task[t].blob})}
    /\ Publish(t, [task[t] EXCEPT !.st = "ok"])
    /\ UNCHANGED <<db, nextBlob, pc, path, wlock, op, gc, backup>>

StoreChunk(t) ==
    \/ FindChunk(t) \/ AbandonTask(t) \/ Register(t) \/ PutBlob(t) \/ PutBlobFails(t)
    \/ InsertRow(t) \/ InsertFails(t) \/ Refind(t) \/ DropDuplicate(t)

\* The blocks of a file being written: settled tasks, their ids, contents.
Settled(w)  == \A t \in TasksOf(w) : task[t].st \in {"none", "ok", "err"}
AllOk(w)    == \A t \in TasksOf(w) : task[t].st \in {"none", "ok"}
Blocks(w)   == {i \in Idx : task[<<w, i>>].st # "none"}
ChunkRefs(w) == [i \in Blocks(w) |-> task[<<w, i>>].id]
BodyOf(w)    == [i \in Blocks(w) |-> task[<<w, i>>].hash]

StartTasks(w, body) ==
    task' = [t \in Tasks |->
                IF t[1] # w THEN task[t]
                ELSE IF t[2] \in DOMAIN body
                     THEN [NoTask EXCEPT !.st = "todo", !.hash = body[t[2]]]
                     ELSE NoTask]
ClearTasks(w) == task' = [t \in Tasks |-> IF t[1] = w THEN NoTask ELSE task[t]]

-----------------------------------------------------------------------------
(* PutFileContext.                                                         *)

\* Mutant: an upload that does not take the maintenance lock.
PutStartUnlocked(w) ==
    /\ pc[w] = "idle"
    /\ \E p \in Paths, body \in Bodies :
        /\ path' = [path EXCEPT ![w] = p]
        /\ StartTasks(w, body)
    /\ pc' = [pc EXCEPT ![w] = "store"]
    /\ UNCHANGED <<db, store, wlock, op, gc, backup>>

\* Take the shared maintenance lock and start on the request body.
PutStart(w) ==
    /\ pc[w] = "idle"
    /\ gc.pc = "idle"
    /\ \E p \in Paths, body \in Bodies :
        /\ path' = [path EXCEPT ![w] = p]
        /\ StartTasks(w, body)
    /\ pc' = [pc EXCEPT ![w] = "store"]
    /\ UNCHANGED <<db, store, wlock, op, gc, backup>>

\* A block failed, the body could not be read to its end, or the request was
\* cancelled: clean up without the write lock.
PutGiveUp(w) ==
    /\ pc[w] = "store" /\ Settled(w)
    /\ pc' = [pc EXCEPT ![w] = "cleanup"]
    /\ UNCHANGED <<db, store, path, task, wlock, op, gc, backup>>

PutLock(w) ==
    /\ pc[w] = "store" /\ AllOk(w)
    /\ wlock = None
    /\ wlock' = w
    /\ pc' = [pc EXCEPT ![w] = "commit"]
    /\ UNCHANGED <<db, store, path, task, op, gc, backup>>

PutCommit(w) ==
    /\ pc[w] = "commit"
    /\ UpsertAllowed(files, chunks, path[w], ChunkRefs(w))
    /\ WriteFile(path[w], ChunkRefs(w), BodyOf(w))
    /\ pc' = [pc EXCEPT ![w] = "idle"]
    /\ path' = [path EXCEPT ![w] = None]
    /\ ClearTasks(w)
    /\ wlock' = None
    /\ UNCHANGED <<store, op, gc, backup>>

\* Cancelled after all, parent directory missing, or UpsertFile rolled back
\* (always so when a referenced chunk row is gone).
PutCommitFails(w) ==
    /\ pc[w] = "commit"
    /\ pc' = [pc EXCEPT ![w] = "cleanup"]
    /\ UNCHANGED <<db, store, path, task, wlock, op, gc, backup>>

\* cleanupNewChunks, one DeleteChunkIfZero per new chunk (errors ignored).
PutCleanup(w) ==
    /\ pc[w] = "cleanup"
    /\ \E t \in TasksOf(w) :
        /\ task[t].new
        /\ task' = [task EXCEPT ![t].new = FALSE]
        /\ \/ RemoveChunks(DeleteChunkIfZeroIds(chunks, task[t].id))
           \/ UNCHANGED db
    /\ UNCHANGED <<store, pc, path, wlock, op, gc, backup>>

\* Mutant: the write lock is not released on the error path.
PutFailedKeepsLock(w) ==
    /\ pc[w] = "cleanup"
    /\ \A t \in TasksOf(w) : ~task[t].new
    /\ pc' = [pc EXCEPT ![w] = "idle"]
    /\ path' = [path EXCEPT ![w] = None]
    /\ ClearTasks(w)
    /\ UNCHANGED <<db, store, wlock, op, gc, backup>>

\* Return the error: the deferred unlocks run.
PutFailed(w) ==
    /\ pc[w] = "cleanup"
    /\ \A t \in TasksOf(w) : ~task[t].new
    /\ pc' = [pc EXCEPT ![w] = "idle"]
    /\ path' = [path EXCEPT ![w] = None]
    /\ ClearTasks(w)
    /\ wlock' = IF wlock = w THEN None ELSE wlock
    /\ UNCHANGED <<db, store, op, gc, backup>>

-----------------------------------------------------------------------------
(* An rsync write session: the write lock is held from the end of the file *)
(* list to the end of the session.                                         *)

SessionStart(w) ==
    /\ pc[w] = "idle"
    /\ wlock = None
    /\ wlock' = w
    /\ pc' = [pc EXCEPT ![w] = "session"]
    /\ UNCHANGED <<db, store, path, task, op, gc, backup>>

\* The sender transfers one file.
SessionFile(w) ==
    /\ pc[w] = "session"
    /\ \E p \in Paths, body \in Bodies :
        /\ path' = [path EXCEPT ![w] = p]
        /\ StartTasks(w, body)
    /\ pc' = [pc EXCEPT ![w] = "store"]
    /\ UNCHANGED <<db, store, wlock, op, gc, backup>>

SessionUpsert(w) ==
    /\ pc[w] = "store" /\ AllOk(w)
    /\ UpsertAllowed(files, chunks, path[w], ChunkRefs(w))
    /\ WriteFile(path[w], ChunkRefs(w), BodyOf(w))
    /\ pc' = [pc EXCEPT ![w] = "session"]
    /\ path' = [path EXCEPT ![w] = None]
    /\ ClearTasks(w)
    /\ UNCHANGED <<store, wlock, op, gc, backup>>

\* --delete: a path that is not in the file list.
SessionDelete(w) ==
    /\ pc[w] = "session"
    /\ \E p \in DOMAIN files : RemoveFile(p)
    /\ UNCHANGED <<store, upl, wlock, op, gc, backup>>

\* End of the session, or an error between two calls; rows of blocks that
\* were stored for an unfinished file stay behind with refcount 0.
SessionEnd(w) ==
    /\ pc[w] \in {"session", "store"}
    /\ \A t \in TasksOf(w) : task[t].st \notin Uploading \union {"miss", "wait"}
    /\ pc' = [pc EXCEPT ![w] = "idle"]
    /\ path' = [path EXCEPT ![w] = None]
    /\ ClearTasks(w)
    /\ wlock' = None
    /\ UNCHANGED <<db, store, op, gc, backup>>

-----------------------------------------------------------------------------
(* DeletePath and MovePath: row by row under the write lock.               *)

\* DELETE of a subtree whose file rows are S.
DeletePathStart ==
    /\ TreeOps /\ op.pc = "idle" /\ wlock = None
    /\ \E S \in (SUBSET DOMAIN files) \ {{}} : op' = [NoOp EXCEPT !.pc = "delete", !.del = S]
    /\ wlock' = TreeOp
    /\ UNCHANGED <<db, store, upl, gc, backup>>

\* MOVE of one file row: the rows at the target go first.
MovePathStart ==
    /\ TreeOps /\ op.pc = "idle" /\ wlock = None
    /\ \E s \in DOMAIN files, d \in Paths :
        /\ s # d
        /\ op' = [pc |-> "move", del |-> {d} \intersect DOMAIN files, src |-> s, dst |-> d]
    /\ wlock' = TreeOp
    /\ UNCHANGED <<db, store, upl, gc, backup>>

TreeDeleteRow ==
    /\ op.pc \in {"delete", "move"}
    /\ \E p \in op.del :
        /\ RemoveFile(p)
        /\ op' = [op EXCEPT !.del = @ \ {p}]
    /\ UNCHANGED <<store, upl, wlock, gc, backup>>

MoveUpsert ==
    /\ op.pc = "move" /\ op.del = {}
    /\ UpsertAllowed(files, chunks, op.dst, GetFileChunks(files, op.src))
    /\ WriteFile(op.dst, GetFileChunks(files, op.src), written[op.src])
    /\ op' = [op EXCEPT !.pc = "delete", !.del = {op.src}]
    /\ UNCHANGED <<store, upl, wlock, gc, backup>>

\* All rows done, or an error in between: whatever was done stays done.
TreeOpEnd ==
    /\ op.pc # "idle"
    /\ op' = NoOp
    /\ wlock' = None
    /\ UNCHANGED <<db, store, upl, gc, backup>>

-----------------------------------------------------------------------------
(* GC.                                                                     *)

GCRequest ==
    /\ GCEnabled /\ gc.pc = "idle"
    /\ gc' = [NoGC EXCEPT !.pc = "maintenance"]
    /\ UNCHANGED <<db, store, upl, wlock, op, backup>>

GCLockMaintenance ==
    /\ gc.pc = "maintenance"
    /\ \A w \in Puts : pc[w] = "idle"
    /\ gc' = [gc EXCEPT !.pc = "write"]
    /\ UNCHANGED <<db, store, upl, wlock, op, backup>>

GCLockWrite ==
    /\ gc.pc = "write"
    /\ wlock = None
    /\ wlock' = GC
    /\ gc' = [gc EXCEPT !.pc = "list"]
    /\ UNCHANGED <<db, store, upl, op, backup>>

\* Every return of GC: both locks are released.
GCReturn == gc' = NoGC /\ wlock' = None

GCList ==
    /\ gc.pc = "list"
    /\ IF DOMAIN blobs = {}
       THEN GCReturn
       ELSE gc' = [gc EXCEPT !.pc = "scan", !.listed = DOMAIN blobs] /\ UNCHANGED wlock
    /\ UNCHANGED <<db, store, upl, op, backup>>

\* Mutant: take the chunks table for the truth about references.
GCScanTrustsRows ==
    /\ gc.pc = "scan"
    /\ gc' = [gc EXCEPT !.pc = "protect",
                        !.garbage = gc.listed \ {chunks[c].blob : c \in DOMAIN chunks}]
    /\ UNCHANGED <<db, store, upl, wlock, op, backup>>

\* Rows no file references, with their blobs, and listed blobs with no row.
GCScan ==
    /\ gc.pc = "scan"
    /\ LET dead == DOMAIN chunks \ Referenced(files)
           owned == {chunks[c].blob : c \in DOMAIN chunks}
       IN  gc' = [gc EXCEPT !.pc = "protect", !.dead = dead,
                            !.garbage = {chunks[c].blob : c \in dead} \union (gc.listed \ owned)]
    /\ UNCHANGED <<db, store, upl, wlock, op, backup>>

\* Mutant: read the backups without the Meta lock.
GCProtectUnlocked ==
    /\ gc.pc = "protect"
    /\ \A n \in DOMAIN snaps : snaps[n].ok
    /\ gc' = [gc EXCEPT !.pc = "rows",
                        !.garbage = @ \ {r[1] : r \in UNION {SnapRefs(snaps[n]) : n \in DOMAIN snaps}}]
    /\ UNCHANGED <<db, store, upl, wlock, op, backup>>

\* ProtectedMetaBlobs under the Meta lock: every backup must be readable.
GCProtect ==
    /\ gc.pc = "protect"
    /\ bk.pc = "idle"
    /\ \A n \in DOMAIN snaps : snaps[n].ok
    /\ gc' = [gc EXCEPT !.pc = "rows",
                        !.garbage = @ \ {r[1] : r \in UNION {SnapRefs(snaps[n]) : n \in DOMAIN snaps}}]
    /\ UNCHANGED <<db, store, upl, wlock, op, backup>>

GCDeleteRow ==
    /\ gc.pc = "rows"
    /\ \E c \in gc.dead :
        /\ RemoveChunks(DeleteChunkIds(chunks, c))
        /\ gc' = [gc EXCEPT !.dead = @ \ {c}]
    /\ UNCHANGED <<store, upl, wlock, op, backup>>

GCRowsDone ==
    /\ gc.pc = "rows" /\ gc.dead = {}
    /\ gc' = [gc EXCEPT !.pc = "blobs"]
    /\ UNCHANGED <<db, store, upl, wlock, op, backup>>

\* backend.Delete of one garbage blob; a failure is recorded and skipped.
GCDeleteBlob ==
    /\ gc.pc = "blobs"
    /\ \E b \in gc.garbage :
        \/ /\ blobs' = Without(blobs, {b})
           /\ gc' = [gc EXCEPT !.garbage = @ \ {b}]
        \/ /\ UNCHANGED blobs
           /\ gc' = [gc EXCEPT !.garbage = @ \ {b}, !.failed = TRUE]
    /\ UNCHANGED <<db, nextBlob, upl, wlock, op, backup>>

GCFinish ==
    /\ gc.pc = "blobs" /\ gc.garbage = {}
    /\ GCReturn
    /\ UNCHANGED <<db, store, upl, op, backup>>

\* A query, the backup listing, a backup that cannot be read or a row delete
\* fails: GC stops before it deletes any blob.
GCAbort ==
    /\ gc.pc \in {"list", "scan", "protect", "rows"}
    /\ gc.pc = "protect" => bk.pc = "idle"
    /\ GCReturn
    /\ UNCHANGED <<db, store, upl, op, backup>>

-----------------------------------------------------------------------------
(* CreateMetaBackup and pruneMetaBackups, under the Meta lock throughout.  *)

BackupStart ==
    /\ bk.pc = "idle" /\ bk.name < MaxSnaps
    /\ bk' = [pc |-> "snapshot", snap |-> NoSnap, name |-> bk.name + 1]
    /\ UNCHANGED <<db, store, upl, wlock, op, gc, snaps, verified>>

BackupReturn == bk' = [bk EXCEPT !.pc = "idle", !.snap = NoSnap]

\* BackupTo is one consistent read of the manifest; an invalid one is refused.
BackupSnapshot ==
    /\ bk.pc = "snapshot"
    /\ IF ValidateSnapshot(files, chunks)
       THEN bk' = [bk EXCEPT !.pc = "upload",
                             !.snap = [ok |-> TRUE, files |-> files, chunks |-> chunks]]
       ELSE BackupReturn
    /\ UNCHANGED <<db, store, upl, wlock, op, gc, snaps, verified>>

PutSnap(s) == [n \in DOMAIN snaps \union {bk.name} |-> IF n = bk.name THEN s ELSE snaps[n]]

\* PutMetaContext: the object may be missing, damaged or intact afterwards,
\* whatever the answer.
BackupUpload ==
    /\ bk.pc = "upload"
    /\ snaps' \in {snaps, PutSnap(NoSnap), PutSnap(bk.snap)}
    /\ bk' \in {[bk EXCEPT !.pc = "verify"], [bk EXCEPT !.pc = "drop"]}
    /\ UNCHANGED <<db, store, upl, wlock, op, gc, verified>>

\* The read-back digest agrees only with an intact object.
BackupVerify ==
    /\ bk.pc = "verify"
    /\ \/ /\ bk.name \in DOMAIN snaps /\ snaps[bk.name] = bk.snap
          /\ bk' = [bk EXCEPT !.pc = "prune"]
          /\ verified' = bk.name
       \/ /\ bk' = [bk EXCEPT !.pc = "drop"]
          /\ UNCHANGED verified
    /\ UNCHANGED <<db, store, upl, wlock, op, gc, snaps>>

\* Upload or read-back failed: best-effort DeleteMeta of the new object.
BackupDrop ==
    /\ bk.pc = "drop"
    /\ snaps' \in {snaps, Without(snaps, {bk.name})}
    /\ BackupReturn
    /\ UNCHANGED <<db, store, upl, wlock, op, gc, verified>>

\* Mutant: the names sorted the other way round.
BackupPruneNewest ==
    /\ bk.pc = "prune"
    /\ Cardinality(DOMAIN snaps) > Retain
    /\ \E n \in DOMAIN snaps :
        /\ \A m \in DOMAIN snaps : m <= n
        /\ snaps' = Without(snaps, {n})
    /\ UNCHANGED <<db, store, upl, wlock, op, gc, bk, verified>>

\* Delete the oldest names until Retain are left.
BackupPrune ==
    /\ bk.pc = "prune"
    /\ Cardinality(DOMAIN snaps) > Retain
    /\ \E n \in DOMAIN snaps :
        /\ \A m \in DOMAIN snaps : n <= m
        /\ snaps' = Without(snaps, {n})
    /\ UNCHANGED <<db, store, upl, wlock, op, gc, bk, verified>>

\* Nothing left to prune, or ListMeta/DeleteMeta failed.
BackupEnd ==
    /\ bk.pc \in {"snapshot", "upload", "prune"}
    /\ BackupReturn
    /\ UNCHANGED <<db, store, upl, wlock, op, gc, snaps, verified>>

-----------------------------------------------------------------------------
(* The process dies: every goroutine and lock is gone, manifest, blobs and *)
(* backups stay.  With the Meta file lost too, start-up restores the       *)
(* newest backup that is valid and whose referenced blobs all verify.      *)

Down ==
    /\ pc' = [w \in Writers |-> "idle"]
    /\ path' = [w \in Writers |-> None]
    /\ task' = [t \in Tasks |-> NoTask]
    /\ wlock' = None
    /\ op' = NoOp /\ gc' = NoGC /\ BackupReturn
    /\ UNCHANGED <<store, snaps, verified>>

Crash == CanCrash /\ Down /\ UNCHANGED db

Restorable(n) == snaps[n].ok /\ SnapRefs(snaps[n]) \subseteq BlobPairs(blobs)

RestoreMeta ==
    /\ CanLoseMeta
    /\ Down
    /\ \E n \in DOMAIN snaps :
        /\ Restorable(n) /\ \A m \in DOMAIN snaps : m > n => ~Restorable(m)
        /\ files' = snaps[n].files
        /\ chunks' = snaps[n].chunks
        /\ written' = [p \in DOMAIN snaps[n].files |->
                        [i \in DOMAIN snaps[n].files[p] |->
                            snaps[n].chunks[snaps[n].files[p][i]].hash]]

-----------------------------------------------------------------------------
PutStep(w) ==
    \/ PutStart(w) \/ PutGiveUp(w) \/ PutLock(w) \/ PutCommit(w) \/ PutCommitFails(w)
    \/ PutCleanup(w) \/ PutFailed(w)
SessionStep(w) ==
    \/ SessionStart(w) \/ SessionFile(w) \/ SessionUpsert(w) \/ SessionDelete(w) \/ SessionEnd(w)
TreeStep == DeletePathStart \/ MovePathStart \/ TreeDeleteRow \/ MoveUpsert \/ TreeOpEnd
GCStep ==
    \/ GCRequest \/ GCLockMaintenance \/ GCLockWrite \/ GCList \/ GCScan \/ GCProtect
    \/ GCDeleteRow \/ GCRowsDone \/ GCDeleteBlob \/ GCFinish \/ GCAbort
BackupStep ==
    \/ BackupStart \/ BackupSnapshot \/ BackupUpload \/ BackupVerify \/ BackupDrop
    \/ BackupPrune \/ BackupEnd

Next ==
    \/ \E t \in Tasks : StoreChunk(t)
    \/ \E w \in Puts : PutStep(w)
    \/ \E w \in Sessions : SessionStep(w)
    \/ TreeStep \/ GCStep \/ BackupStep \/ Crash \/ RestoreMeta

Spec == Init /\ [][Next]_vars

\* Goroutines keep running; a sync.Mutex hands itself over (starvation mode),
\* so a goroutine queued on the write lock or the Meta lock gets it.  Nothing
\* is assumed of clients: no fairness on starting, cancelling or abandoning.
Fairness ==
    /\ \A t \in Tasks : /\ WF_vars(FindChunk(t) \/ Register(t))
                         /\ WF_vars(PutBlob(t) \/ PutBlobFails(t))
                         /\ WF_vars(InsertRow(t) \/ InsertFails(t))
                         /\ WF_vars(Refind(t) \/ DropDuplicate(t))
    /\ \A w \in Puts : /\ WF_vars(PutGiveUp(w) /\ ~AllOk(w))
                        /\ SF_vars(PutLock(w))
                        /\ WF_vars(PutCommit(w) \/ PutCommitFails(w))
                        /\ WF_vars(PutCleanup(w) \/ PutFailed(w))
    /\ WF_vars(TreeDeleteRow \/ MoveUpsert \/ TreeOpEnd)
    /\ WF_vars(GCLockMaintenance) /\ SF_vars(GCLockWrite)
    /\ SF_vars(GCProtect \/ (gc.pc = "protect" /\ GCAbort))
    /\ WF_vars(GCList \/ GCScan \/ GCDeleteRow \/ GCRowsDone \/ GCDeleteBlob \/ GCFinish)
    /\ WF_vars(BackupSnapshot \/ BackupUpload \/ BackupVerify \/ BackupDrop
                \/ BackupPrune \/ BackupEnd)

FairSpec == Spec /\ Fairness

-----------------------------------------------------------------------------
(* Properties.                                                             *)

Row       == [hash : Hashes, refcount : Nat, blob : 1 .. MaxBlobs]
Ids       == 1 .. MaxId
BlobNames == 1 .. MaxBlobs

IsManifest(fs, cs) ==
    /\ DOMAIN fs \subseteq Paths
    /\ \A p \in DOMAIN fs : IsTable(fs[p], Idx, Ids)
    /\ IsTable(cs, Ids, Row)

TypeWriters ==
    /\ pc \in [Writers -> Phases]
    /\ path \in [Writers -> Paths \union {None}]
    /\ task \in [Tasks -> [st : TaskStates, hash : Hashes \union {None}, id : 0 .. MaxId,
                           new : BOOLEAN, blob : 0 .. MaxBlobs]]
    /\ wlock \in Writers \union {TreeOp, GC, None}
    /\ op \in [pc : {"idle", "delete", "move"}, del : SUBSET Paths,
               src : Paths \union {None}, dst : Paths \union {None}]
TypeGC ==
    gc \in [pc : {"idle", "maintenance", "write", "list", "scan", "protect", "rows", "blobs"},
            listed : SUBSET BlobNames, dead : SUBSET Ids,
            garbage : SUBSET BlobNames, failed : BOOLEAN]
TypeBackup ==
    /\ bk \in [pc : {"idle", "snapshot", "upload", "verify", "drop", "prune"},
               snap : {bk.snap}, name : 0 .. MaxSnaps]
    /\ IsManifest(bk.snap.files, bk.snap.chunks)
    /\ DOMAIN snaps \subseteq 1 .. MaxSnaps
    /\ \A n \in DOMAIN snaps : IsManifest(snaps[n].files, snaps[n].chunks)
    /\ verified \in 0 .. MaxSnaps
TypeStore ==
    /\ IsTable(blobs, BlobNames, Hashes)
    /\ nextBlob \in 1 .. MaxBlobs + 1

\* The type invariant; the interesting part is that no refcount is negative.
TypeOK ==
    /\ IsManifest(files, chunks)
    /\ TypeStore /\ TypeWriters /\ TypeGC /\ TypeBackup

\* refcount of every chunk row is the number of file blocks that name it.
RefcountExact ==
    \A c \in DOMAIN chunks : chunks[c].refcount = Cardinality(RefsTo(files, c))

\* No file ever loses a block to ON DELETE CASCADE: its indices are 1..n and
\* every block still has its row.
FilesWhole ==
    \A p \in DOMAIN files : /\ Contiguous(files[p])
                            /\ IdsOf(files[p]) \subseteq DOMAIN chunks

\* "blob first, then the row": whatever GC, failed uploads and crashes do, the
\* blob of every chunk row is in the backend and holds the row's content.
RowsHaveBlobs ==
    \A c \in DOMAIN chunks : <<chunks[c].blob, chunks[c].hash>> \in BlobPairs(blobs)

\* Every block of every file can be read back.
FilesReadable ==
    \A p \in DOMAIN files : \A i \in DOMAIN files[p] :
        /\ files[p][i] \in DOMAIN chunks
        /\ chunks[files[p][i]].blob \in DOMAIN blobs

\* The last backup that passed read-back stays in the backend, intact and with
\* every blob it references, until a newer one has passed.
VerifiedBackupRestorable ==
    verified # 0 => verified \in DOMAIN snaps /\ Restorable(verified)

\* So does every intact backup object that is still listed.
SnapshotsRestorable == \A n \in DOMAIN snaps : snaps[n].ok => Restorable(n)

\* A GC that finishes without failures leaves only blobs of referenced rows
\* (no backups: nothing else is protected).
GCLeavesNoOrphans ==
    gc.pc = "blobs" /\ gc.garbage = {} /\ ~gc.failed /\ DOMAIN snaps = {} =>
        DOMAIN blobs = {chunks[c].blob : c \in Referenced(files)}

\* Refinement: what a reader assembles from manifest, rows and blobs changes
\* only as module FileStore allows: one path at a time, by a commit or a delete.
Assembled(p) == [i \in DOMAIN files[p] |-> blobs[chunks[files[p][i]].blob]]
Abs == INSTANCE FileStore WITH Contents <- Bodies,
                               content <- [p \in DOMAIN files |-> Assembled(p)]
ImplementsFileStore == Abs!Spec

\* Every upload that started returns, and every GC that was scheduled ends: no
\* waiter is forgotten by its uploader and the three locks cannot deadlock.
PutTerminates == \A w \in Puts : pc[w] # "idle" ~> pc[w] = "idle"
GCTerminates  == gc.pc # "idle" ~> gc.pc = "idle"

\* A file holds the contents its writer asked for.
ContentAsWritten ==
    \A p \in DOMAIN files :
        [i \in DOMAIN files[p] |-> chunks[files[p][i]].hash] = written[p]
=============================================================================
