------------------------------- MODULE MetaDB -------------------------------
(***************************************************************************)
(* The SQLite manifest of a module (internal/core/meta), one operator per  *)
(* transaction.  The tables are two functions:                             *)
(*                                                                         *)
(*   files   path -> (block index -> chunk id)   tables files, file_chunks *)
(*   chunks  chunk id -> [hash, refcount, blob]  table chunks              *)
(*                                                                         *)
(* A row exists exactly when it is in the DOMAIN.  SQLite admits one       *)
(* writing transaction at a time, over all connections to the file, so a   *)
(* transaction is one atomic step of its caller (module Repo).             *)
(***************************************************************************)
EXTENDS Integers, FiniteSets

\* file_chunks rows that hold chunk id, as <<path, index>> pairs.
RefsTo(files, id) ==
    UNION { { <<p, i>> : i \in {j \in DOMAIN files[p] : files[p][j] = id} }
            : p \in DOMAIN files }

\* How often the block list refs names chunk id.
Occurrences(refs, id) == Cardinality({i \in DOMAIN refs : refs[i] = id})

\* Chunk ids named by a block list, by one path, and by the whole manifest
\* (SELECT DISTINCT fc.chunk_id FROM file_chunks fc JOIN files f).
IdsOf(refs) == { refs[i] : i \in DOMAIN refs }
ChunksOfPath(files, p) == IF p \in DOMAIN files THEN IdsOf(files[p]) ELSE {}
Referenced(files) == UNION { IdsOf(files[p]) : p \in DOMAIN files }

\* The block list of a path; empty when the path has no row (GetFileChunks).
GetFileChunks(files, p) == IF p \in DOMAIN files THEN files[p] ELSE << >>

\* ON DELETE CASCADE: deleting chunk rows silently deletes their file_chunks
\* rows; the indices of the rows that stay do not move.
Cascade(files, dead) ==
    [p \in DOMAIN files |->
        [i \in {j \in DOMAIN files[p] : files[p][j] \notin dead} |-> files[p][i]]]

\* f is a table whose keys are in D and whose rows are in V.
IsTable(f, D, V) == DOMAIN f \subseteq D /\ f \in [DOMAIN f -> V]

\* A table with the rows of S deleted.
Without(f, S) == [x \in DOMAIN f \ S |-> f[x]]

\* Mutants: the increment left to a later transaction; one decrement per
\* referenced chunk instead of one per file_chunks row.
RecountNoIncrement(files, chunks, p, refs) ==
    [c \in DOMAIN chunks |->
        [chunks[c] EXCEPT !.refcount = @ - Occurrences(GetFileChunks(files, p), c)]]
RecountDistinct(files, chunks, p, refs) ==
    [c \in DOMAIN chunks |->
        [chunks[c] EXCEPT !.refcount =
            @ - (IF c \in ChunksOfPath(files, p) THEN 1 ELSE 0) + Occurrences(refs, c)]]

\* Steps 1 and 2 of UpsertFile, step 1 of DeleteFile (refs = << >>): drop the
\* references of path p, then add the ones of refs.
Recount(files, chunks, p, refs) ==
    [c \in DOMAIN chunks |->
        [chunks[c] EXCEPT !.refcount =
            @ - Occurrences(GetFileChunks(files, p), c) + Occurrences(refs, c)]]

\* Step 3: rows the old file referenced and that dropped to zero.
ZeroRows(files, chunks, p, refs) ==
    {c \in DOMAIN chunks : /\ Recount(files, chunks, p, refs)[c].refcount <= 0
                           /\ c \in ChunksOfPath(files, p)}

\* The chunks and files tables after UpsertFile(p, refs) commits.
UpsertChunks(files, chunks, p, refs) ==
    Without(Recount(files, chunks, p, refs), ZeroRows(files, chunks, p, refs))

UpsertFiles(files, chunks, p, refs) ==
    LET cascaded == Cascade(files, ZeroRows(files, chunks, p, refs))
    IN  [q \in DOMAIN files \union {p} |-> IF q = p THEN refs ELSE cascaded[q]]

\* Step 5 inserts file_chunks rows whose chunk_id is a foreign key: a
\* reference to a row that is gone fails and rolls everything back.
UpsertAllowed(files, chunks, p, refs) ==
    IdsOf(refs) \subseteq DOMAIN UpsertChunks(files, chunks, p, refs)

\* The two tables after DeleteFile(p).
DeleteChunks(files, chunks, p) ==
    Without(Recount(files, chunks, p, << >>), ZeroRows(files, chunks, p, << >>))

DeleteFiles(files, chunks, p) ==
    Without(Cascade(files, ZeroRows(files, chunks, p, << >>)), {p})

\* Rows with a given hash (at most one: hash is UNIQUE).
FindChunkByHash(chunks, h) == {c \in DOMAIN chunks : chunks[c].hash = h}

\* chunks.id is INTEGER PRIMARY KEY without AUTOINCREMENT: the next rowid is
\* one more than the largest PRESENT rowid, so the id of a deleted last row is
\* handed out again.
IsNextRowid(chunks, id) ==
    /\ \A c \in DOMAIN chunks : c < id
    /\ id = 1 \/ id - 1 \in DOMAIN chunks

\* INSERT INTO chunks ... refcount 0.
InsertChunk(chunks, id, h, blob) ==
    [c \in DOMAIN chunks \union {id} |->
        IF c = id THEN [hash |-> h, refcount |-> 0, blob |-> blob] ELSE chunks[c]]

\* DELETE FROM chunks WHERE id = ? [AND refcount <= 0]: the ids removed.
DeleteChunkIds(chunks, id) == {id} \intersect DOMAIN chunks
DeleteChunkAnyIds(chunks, id) == DeleteChunkIds(chunks, id)  \* mutant: refcount ignored
DeleteChunkIfZeroIds(chunks, id) ==
    {c \in DeleteChunkIds(chunks, id) : chunks[c].refcount <= 0}

\* ValidateSnapshot: refcounts equal the number of file_chunks rows, no dangling
\* chunk_id, and block indices 1..n (0..n-1 in the code) for every file.
Contiguous(refs) == DOMAIN refs = 1 .. Cardinality(DOMAIN refs)

ValidateSnapshot(files, chunks) ==
    /\ \A c \in DOMAIN chunks : chunks[c].refcount = Cardinality(RefsTo(files, c))
    /\ \A p \in DOMAIN files : Contiguous(files[p]) /\ IdsOf(files[p]) \subseteq DOMAIN chunks

\* The chunks it returns: rows that some file references.
SnapshotBlobs(files, chunks) ==
    { <<chunks[c].blob, chunks[c].hash>> : c \in Referenced(files) \intersect DOMAIN chunks }
=============================================================================
