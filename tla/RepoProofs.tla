----------------------------- MODULE RepoProofs -----------------------------
(***************************************************************************)
(* Proofs about the repository engine, for every set of uploads, sessions, *)
(* paths and hashes and all bounds.                                        *)
(*                                                                         *)
(* TypeOK and RefcountExact are not inductive.  A refcount stays a natural *)
(* number only because it is exact; it stays exact only if no file_chunks  *)
(* row dangles; and both must hold of the snapshots too, because a restore *)
(* brings one back.  Inv is their conjunction, in one part per group of    *)
(* variables; FilesInv, in the second half, adds what FilesWhole needs.    *)
(***************************************************************************)
EXTENDS Repo, FiniteSetTheorems, TLAPS

-----------------------------------------------------------------------------
(* The transactions of module MetaDB: each of them keeps every chunk's       *)
(* refcount equal to the number of file_chunks rows that name it, leaves no  *)
(* file block without its chunk row, and removes no block of a file other    *)
(* than the one it writes or deletes.                                        *)

\* A block list is a function with a finite domain; the files table is finite.
IsBlockList(refs) == IsFiniteSet(DOMAIN refs) /\ refs = [i \in DOMAIN refs |-> refs[i]]
FiniteTables(fs)  == IsFiniteSet(DOMAIN fs) /\ \A p \in DOMAIN fs : IsBlockList(fs[p])

\* The refcounts are exact, the foreign keys hold.
Exact(fs, cs)      == \A c \in DOMAIN cs : cs[c].refcount = Cardinality(RefsTo(fs, c))
NoDangling(fs, cs) == \A p \in DOMAIN fs : IdsOf(fs[p]) \subseteq DOMAIN cs
DBInv(fs, cs)      == FiniteTables(fs) /\ Exact(fs, cs) /\ NoDangling(fs, cs)

\* The file_chunks rows of path p with block list refs that hold chunk c.
Pairs(p, refs, c) == { <<p, i>> : i \in {j \in DOMAIN refs : refs[j] = c} }

-----------------------------------------------------------------------------
(* Counting references.                                                    *)

\* A path has as many file_chunks rows for a chunk as its block list names it.
LEMMA PairsCount ==
    ASSUME NEW p, NEW refs, NEW c, IsFiniteSet(DOMAIN refs)
    PROVE  /\ IsFiniteSet(Pairs(p, refs, c))
           /\ Cardinality(Pairs(p, refs, c)) = Occurrences(refs, c)
<1> DEFINE S == {j \in DOMAIN refs : refs[j] = c}
           f == [i \in S |-> <<p, i>>]
<1>1. IsFiniteSet(S)
    BY FS_Subset
<1>2. f \in Bijection(S, Pairs(p, refs, c))
    BY DEF Bijection, Injection, IsInjective, Surjection, Pairs
<1>3. ExistsBijection(S, Pairs(p, refs, c))
    BY <1>2 DEF ExistsBijection
<1>4. QED
    BY <1>1, <1>3, FS_Bijection DEF Occurrences

\* Membership in RefsTo and in Pairs without the set of sets.
LEMMA RefsMember ==
    ASSUME NEW fs, NEW c
    PROVE  \A x : x \in RefsTo(fs, c) <=>
                \E q \in DOMAIN fs : \E i \in DOMAIN fs[q] : fs[q][i] = c /\ x = <<q, i>>
BY DEF RefsTo

\* A row of path p for chunk c is an index at which the block list names c.
LEMMA PairsMember ==
    ASSUME NEW p, NEW refs, NEW c
    PROVE  \A x : x \in Pairs(p, refs, c) <=>
                \E i \in DOMAIN refs : refs[i] = c /\ x = <<p, i>>
BY DEF Pairs

\* What a cascade leaves of one file.
LEMMA CascadeAt ==
    ASSUME NEW fs, NEW dead, NEW q \in DOMAIN fs
    PROVE  /\ DOMAIN Cascade(fs, dead) = DOMAIN fs
           /\ DOMAIN Cascade(fs, dead)[q] = {j \in DOMAIN fs[q] : fs[q][j] \notin dead}
           /\ \A i \in DOMAIN fs[q] :
                fs[q][i] \notin dead => Cascade(fs, dead)[q][i] = fs[q][i]
BY DEF Cascade

\* The references to a chunk form a finite set.
LEMMA RefsFinite ==
    ASSUME NEW fs, NEW c, FiniteTables(fs)
    PROVE  IsFiniteSet(RefsTo(fs, c))
<1> DEFINE D == DOMAIN fs
           T == { Pairs(p, fs[p], c) : p \in D }
           f == [p \in D |-> Pairs(p, fs[p], c)]
<1>1. f \in Surjection(D, T)
    BY DEF Surjection
<1>2. IsFiniteSet(T)
    BY <1>1, FS_Surjection DEF FiniteTables
<1>3. \A X \in T : IsFiniteSet(X)
    BY PairsCount DEF FiniteTables, IsBlockList
<1>4. RefsTo(fs, c) = UNION T
    BY DEF RefsTo, Pairs
<1>5. QED
    BY <1>2, <1>3, <1>4, FS_UNION

\* Deleting a path and adding it again with block list refs changes the count
\* of a chunk by the difference of its occurrences.
LEMMA RefsAdd ==
    ASSUME NEW fs, NEW c, NEW p, NEW refs, NEW gs,
           FiniteTables(fs), IsFiniteSet(DOMAIN refs),
           RefsTo(gs, c) = RefsTo(Without(fs, {p}), c) \union Pairs(p, refs, c)
    PROVE  Cardinality(RefsTo(gs, c))
             = Cardinality(RefsTo(Without(fs, {p}), c)) + Occurrences(refs, c)
<1> DEFINE rest == Without(fs, {p})
<1>1. FiniteTables(rest)
    BY FS_Subset DEF FiniteTables, Without
<1>2. IsFiniteSet(RefsTo(rest, c))
    BY <1>1, RefsFinite
<1>3. RefsTo(rest, c) \intersect Pairs(p, refs, c) = {}
    BY DEF RefsTo, Pairs, Without
<1>4. Cardinality({}) = 0
    BY FS_EmptySet
<1>5. /\ IsFiniteSet(Pairs(p, refs, c))
      /\ Cardinality(Pairs(p, refs, c)) = Occurrences(refs, c)
    BY PairsCount
<1>6. /\ Cardinality(RefsTo(rest, c)) \in Nat
      /\ Cardinality(Pairs(p, refs, c)) \in Nat
    BY <1>2, <1>5, FS_CardinalityType
<1>7. Cardinality(RefsTo(rest, c) \union Pairs(p, refs, c))
        = Cardinality(RefsTo(rest, c)) + Cardinality(Pairs(p, refs, c)) - Cardinality({})
    BY <1>2, <1>3, <1>5, FS_Union
<1>8. QED
    BY <1>4, <1>5, <1>6, <1>7

\* The references of a whole table, split at one path.
LEMMA RefsSplit ==
    ASSUME NEW fs, NEW c, NEW p, FiniteTables(fs)
    PROVE  /\ Cardinality(RefsTo(fs, c))
                = Cardinality(RefsTo(Without(fs, {p}), c)) + Occurrences(GetFileChunks(fs, p), c)
           /\ Cardinality(RefsTo(Without(fs, {p}), c)) \in Nat
           /\ Occurrences(GetFileChunks(fs, p), c) \in Nat
<1> DEFINE old == GetFileChunks(fs, p)
<1>1. IsFiniteSet(DOMAIN old)
    <2>1. CASE p \in DOMAIN fs
        BY <2>1 DEF GetFileChunks, FiniteTables, IsBlockList
    <2>2. CASE p \notin DOMAIN fs
        <3>1. DOMAIN old = {}
            BY <2>2 DEF GetFileChunks
        <3>2. QED
            BY <3>1, FS_EmptySet
    <2>3. QED
        BY <2>1, <2>2
<1>2. RefsTo(fs, c) = RefsTo(Without(fs, {p}), c) \union Pairs(p, old, c)
    <2>1. CASE p \in DOMAIN fs
        BY <2>1 DEF RefsTo, Pairs, Without, GetFileChunks
    <2>2. CASE p \notin DOMAIN fs
        <3>1. Pairs(p, old, c) = {}
            BY <2>2 DEF GetFileChunks, Pairs
        <3>2. RefsTo(Without(fs, {p}), c) = RefsTo(fs, c)
            BY <2>2 DEF RefsTo, Without
        <3>3. QED
            BY <3>1, <3>2
    <2>3. QED
        BY <2>1, <2>2
<1>3. FiniteTables(Without(fs, {p}))
    BY FS_Subset DEF FiniteTables, Without
<1>4. Cardinality(RefsTo(Without(fs, {p}), c)) \in Nat
    BY <1>3, RefsFinite, FS_CardinalityType
<1>5. Occurrences(old, c) \in Nat
    BY <1>1, PairsCount, FS_CardinalityType
<1>6. QED
    BY <1>1, <1>2, <1>4, <1>5, RefsAdd

-----------------------------------------------------------------------------
(* The transactions.                                                       *)

\* Every chunk row is a record with the three columns.
Rows(cs) == \A c \in DOMAIN cs :
                cs[c] = [hash |-> cs[c].hash, refcount |-> cs[c].refcount, blob |-> cs[c].blob]

\* Recount changes nothing but the refcount, which becomes the number of
\* references the other files keep plus the occurrences in the new list.
LEMMA RecountRow ==
    ASSUME NEW fs, NEW cs, NEW p, NEW refs, NEW c \in DOMAIN cs,
           Rows(cs), FiniteTables(fs), Exact(fs, cs), IsFiniteSet(DOMAIN refs)
    PROVE  Recount(fs, cs, p, refs)[c] =
             [hash |-> cs[c].hash,
              refcount |-> Cardinality(RefsTo(Without(fs, {p}), c)) + Occurrences(refs, c),
              blob |-> cs[c].blob]
<1> DEFINE old == GetFileChunks(fs, p)
           rest == Cardinality(RefsTo(Without(fs, {p}), c))
<1>1. Recount(fs, cs, p, refs)[c]
        = [cs[c] EXCEPT !.refcount = @ - Occurrences(old, c) + Occurrences(refs, c)]
    BY DEF Recount
<1>2. cs[c] = [hash |-> cs[c].hash, refcount |-> cs[c].refcount, blob |-> cs[c].blob]
    BY DEF Rows
<1>3. cs[c].refcount = rest + Occurrences(old, c)
    BY RefsSplit DEF Exact
<1>4. rest \in Nat /\ Occurrences(old, c) \in Nat
    BY RefsSplit
<1>5. Occurrences(refs, c) \in Nat
    BY PairsCount, FS_CardinalityType
<1>6. cs[c].refcount - Occurrences(old, c) + Occurrences(refs, c) = rest + Occurrences(refs, c)
    BY <1>3, <1>4, <1>5
<1> HIDE DEF old, rest
<1>7. Recount(fs, cs, p, refs)[c] =
        [hash |-> cs[c].hash,
         refcount |-> cs[c].refcount - Occurrences(old, c) + Occurrences(refs, c),
         blob |-> cs[c].blob]
    BY <1>1, <1>2
<1>8. QED
    BY <1>6, <1>7 DEF rest

\* What UpsertFile(p, refs) and DeleteFile(p) leave of the other files: the
\* blocks whose rows stay.
Rest(fs, dead, p, gs) ==
    \A q \in DOMAIN fs \ {p} :
        /\ DOMAIN gs[q] = {j \in DOMAIN fs[q] : fs[q][j] \notin dead}
        /\ \A i \in DOMAIN gs[q] : gs[q][i] = fs[q][i]

Replaced(fs, p, refs, gs) ==
    \/ DOMAIN gs = DOMAIN fs \union {p} /\ gs[p] = refs
    \/ DOMAIN gs = DOMAIN fs \ {p} /\ DOMAIN refs = {}

\* The references to a row that stays, when p gets the block list refs (or is
\* deleted, with refs empty).
LEMMA RestRefs ==
    ASSUME NEW fs, NEW dead, NEW p, NEW refs, NEW gs,
           Rest(fs, dead, p, gs), Replaced(fs, p, refs, gs),
           NEW c, c \notin dead
    PROVE  RefsTo(gs, c) = RefsTo(Without(fs, {p}), c) \union Pairs(p, refs, c)
<1> DEFINE others == Without(fs, {p})
<1>1. /\ DOMAIN others = DOMAIN fs \ {p}
      /\ \A q \in DOMAIN others : others[q] = fs[q]
    BY DEF Without
<1> HIDE DEF others
<1>2. ASSUME NEW q \in DOMAIN fs \ {p}, NEW i
      PROVE  i \in DOMAIN gs[q] /\ gs[q][i] = c <=> i \in DOMAIN others[q] /\ others[q][i] = c
    <2>1. /\ DOMAIN gs[q] = {j \in DOMAIN fs[q] : fs[q][j] \notin dead}
          /\ \A j \in DOMAIN gs[q] : gs[q][j] = fs[q][j]
        BY DEF Rest
    <2>2. others[q] = fs[q]
        BY <1>1
    <2>3. CASE i \in DOMAIN gs[q]
        BY <2>1, <2>2, <2>3
    <2>4. CASE i \notin DOMAIN gs[q]
        <3>1. ~(i \in DOMAIN fs[q] /\ fs[q][i] = c)
            BY <2>1, <2>4
        <3>2. QED
            BY <2>2, <2>4, <3>1
    <2>5. QED
        BY <2>3, <2>4
<1>3. \A x : x \in RefsTo(gs, c) <=>
          \E q \in DOMAIN gs : \E i \in DOMAIN gs[q] : gs[q][i] = c /\ x = <<q, i>>
    BY RefsMember
<1>4. \A x : x \in RefsTo(others, c) <=>
          \E q \in DOMAIN others : \E i \in DOMAIN others[q] : others[q][i] = c /\ x = <<q, i>>
    BY RefsMember
<1>5. \A x : x \in Pairs(p, refs, c) <=> \E i \in DOMAIN refs : refs[i] = c /\ x = <<p, i>>
    BY PairsMember
<1>6. ASSUME NEW x
      PROVE  x \in RefsTo(gs, c) <=> x \in RefsTo(others, c) \/ x \in Pairs(p, refs, c)
    BY <1>1, <1>2, <1>3, <1>4, <1>5 DEF Replaced
<1>7. QED
    BY <1>6 DEF others

\* Rows that UpsertFile removes are in no other file.
LEMMA ZeroRowsUnused ==
    ASSUME NEW fs, NEW cs, NEW p, NEW refs, NEW q \in DOMAIN fs \ {p}, NEW i \in DOMAIN fs[q],
           Rows(cs), FiniteTables(fs), Exact(fs, cs), IsFiniteSet(DOMAIN refs)
    PROVE  fs[q][i] \notin ZeroRows(fs, cs, p, refs)
<1> DEFINE c == fs[q][i]
           others == Without(fs, {p})
<1> SUFFICES ASSUME c \in ZeroRows(fs, cs, p, refs)
             PROVE  FALSE
    OBVIOUS
<1>1. c \in DOMAIN cs /\ Recount(fs, cs, p, refs)[c].refcount <= 0
    BY DEF ZeroRows
<1> HIDE DEF c
<1>2. Recount(fs, cs, p, refs)[c].refcount
        = Cardinality(RefsTo(others, c)) + Occurrences(refs, c)
    <2>1. Recount(fs, cs, p, refs)[c] =
             [hash |-> cs[c].hash,
              refcount |-> Cardinality(RefsTo(Without(fs, {p}), c)) + Occurrences(refs, c),
              blob |-> cs[c].blob]
        BY <1>1, RecountRow
    <2>2. QED
        BY <2>1
<1>3. FiniteTables(others)
    BY FS_Subset DEF FiniteTables, Without
<1>4. /\ IsFiniteSet(RefsTo(others, c))
      /\ Cardinality(RefsTo(others, c)) \in Nat
    BY <1>3, RefsFinite, FS_CardinalityType
<1>5. Occurrences(refs, c) \in Nat
    BY PairsCount, FS_CardinalityType
<1>6. Cardinality(RefsTo(others, c)) = 0
    BY <1>1, <1>2, <1>4, <1>5
<1>7. RefsTo(others, c) = {}
    BY <1>4, <1>6, FS_EmptySet
<1>8. q \in DOMAIN others /\ others[q] = fs[q]
    BY DEF Without
<1> HIDE DEF others
<1>9. <<q, i>> \in RefsTo(others, c)
    BY <1>8, RefsMember DEF c
<1>10. QED
    BY <1>7, <1>9

\* Both file transactions: the rows that stay keep hash and blob, the other
\* files are untouched, and the manifest stays consistent.
Keeps(fs, cs, p, gs, ds) ==
    /\ DBInv(gs, ds) /\ Rows(ds)
    /\ DOMAIN ds \subseteq DOMAIN cs
    /\ \A c \in DOMAIN ds : /\ ds[c].hash = cs[c].hash
                            /\ ds[c].blob = cs[c].blob
                            /\ ds[c].refcount \in Nat
    /\ \A q \in DOMAIN fs \ {p} : gs[q] = fs[q]

\* What UpsertFile and DeleteFile share: replacing the block list of one path,
\* with rows at refcount zero deleted, keeps the manifest consistent.
LEMMA ReplaceCorrect ==
    ASSUME NEW fs, NEW cs, NEW p, NEW refs, NEW gs,
           Rows(cs), DBInv(fs, cs), IsBlockList(refs),
           Replaced(fs, p, refs, gs),
           \A q \in DOMAIN fs \ {p} : gs[q] = Cascade(fs, ZeroRows(fs, cs, p, refs))[q],
           IdsOf(refs) \subseteq DOMAIN UpsertChunks(fs, cs, p, refs)
    PROVE  Keeps(fs, cs, p, gs, UpsertChunks(fs, cs, p, refs))
<1> DEFINE dead == ZeroRows(fs, cs, p, refs)
           ds == UpsertChunks(fs, cs, p, refs)
<1>1. /\ FiniteTables(fs) /\ Exact(fs, cs) /\ NoDangling(fs, cs)
      /\ IsFiniteSet(DOMAIN refs)
    BY DEF DBInv, IsBlockList
<1>2. \A q \in DOMAIN fs \ {p} : gs[q] = Cascade(fs, dead)[q]
    OBVIOUS
<1>3. Rest(fs, dead, p, gs)
    BY <1>2, CascadeAt DEF Rest
<1>4. \A q \in DOMAIN fs \ {p} : gs[q] = fs[q]
    <2> SUFFICES ASSUME NEW q \in DOMAIN fs \ {p}
                 PROVE  Cascade(fs, dead)[q] = fs[q]
        BY <1>2
    <2>1. \A i \in DOMAIN fs[q] : fs[q][i] \notin dead
        BY <1>1, ZeroRowsUnused
    <2>2. fs[q] = [i \in DOMAIN fs[q] |-> fs[q][i]]
        BY <1>1 DEF FiniteTables, IsBlockList
    <2>3. Cascade(fs, dead)[q] = [i \in DOMAIN fs[q] |-> fs[q][i]]
        BY <2>1 DEF Cascade
    <2>4. QED
        BY <2>2, <2>3
<1>5. /\ DOMAIN ds = DOMAIN cs \ dead
      /\ \A c \in DOMAIN ds : ds[c] = Recount(fs, cs, p, refs)[c]
    BY DEF UpsertChunks, Without, Recount
<1>6. IdsOf(refs) \subseteq DOMAIN ds
    OBVIOUS
<1> HIDE DEF dead, ds
<1>7. ASSUME NEW c \in DOMAIN ds
      PROVE  /\ ds[c] = [hash |-> cs[c].hash, refcount |-> Cardinality(RefsTo(gs, c)),
                         blob |-> cs[c].blob]
             /\ Cardinality(RefsTo(gs, c)) \in Nat
    <2>1. c \in DOMAIN cs /\ c \notin dead
        BY <1>5
    <2>2. RefsTo(gs, c) = RefsTo(Without(fs, {p}), c) \union Pairs(p, refs, c)
        BY <1>3, <2>1, RestRefs
    <2>3. Cardinality(RefsTo(gs, c))
            = Cardinality(RefsTo(Without(fs, {p}), c)) + Occurrences(refs, c)
        BY <1>1, <2>2, RefsAdd
    <2>4. Cardinality(RefsTo(gs, c)) \in Nat
        <3>1. Cardinality(RefsTo(Without(fs, {p}), c)) \in Nat
            BY <1>1, RefsSplit
        <3>2. Occurrences(refs, c) \in Nat
            BY <1>1, PairsCount, FS_CardinalityType
        <3>3. QED
            BY <2>3, <3>1, <3>2
    <2>5. Recount(fs, cs, p, refs)[c] =
             [hash |-> cs[c].hash,
              refcount |-> Cardinality(RefsTo(Without(fs, {p}), c)) + Occurrences(refs, c),
              blob |-> cs[c].blob]
        BY <1>1, <2>1, RecountRow
    <2>6. QED
        BY <1>5, <2>3, <2>4, <2>5
<1>8. FiniteTables(gs)
    <2>1. IsFiniteSet(DOMAIN gs)
        <3>1. IsFiniteSet(DOMAIN fs \union {p}) /\ IsFiniteSet(DOMAIN fs \ {p})
            BY <1>1, FS_AddElement, FS_RemoveElement DEF FiniteTables
        <3>2. QED
            BY <3>1 DEF Replaced
    <2>2. QED
        BY <1>1, <1>4, <2>1 DEF FiniteTables, Replaced
<1>9. Exact(gs, ds) /\ Rows(ds)
    BY <1>7 DEF Exact, Rows
<1>10. NoDangling(gs, ds)
    <2>1. \A q \in DOMAIN fs \ {p} : IdsOf(gs[q]) \subseteq DOMAIN ds
        BY <1>1, <1>3, <1>4, <1>5 DEF IdsOf, NoDangling, Rest
    <2>2. QED
        BY <1>6, <2>1 DEF NoDangling, Replaced
<1>11. QED
    BY <1>4, <1>5, <1>7, <1>8, <1>9, <1>10 DEF DBInv, ds, Keeps

\* UpsertFile keeps the manifest consistent, keeps hash and blob of the rows
\* that stay, and does not touch the other files.
LEMMA UpsertFileCorrect ==
    ASSUME NEW fs, NEW cs, NEW p, NEW refs, Rows(cs), DBInv(fs, cs), IsBlockList(refs),
           UpsertAllowed(fs, cs, p, refs)
    PROVE  /\ Keeps(fs, cs, p, UpsertFiles(fs, cs, p, refs), UpsertChunks(fs, cs, p, refs))
           /\ DOMAIN UpsertFiles(fs, cs, p, refs) = DOMAIN fs \union {p}
           /\ UpsertFiles(fs, cs, p, refs)[p] = refs
<1> DEFINE gs == UpsertFiles(fs, cs, p, refs)
<1>1. /\ DOMAIN gs = DOMAIN fs \union {p}
      /\ gs[p] = refs
      /\ \A q \in DOMAIN fs \ {p} : gs[q] = Cascade(fs, ZeroRows(fs, cs, p, refs))[q]
    BY DEF UpsertFiles
<1>2. IdsOf(refs) \subseteq DOMAIN UpsertChunks(fs, cs, p, refs)
    BY DEF UpsertAllowed
<1> HIDE DEF gs
<1>3. Replaced(fs, p, refs, gs)
    BY <1>1 DEF Replaced
<1>4. Keeps(fs, cs, p, gs, UpsertChunks(fs, cs, p, refs))
    BY <1>1, <1>2, <1>3, ReplaceCorrect
<1>5. QED
    BY <1>1, <1>4 DEF gs

\* So does DeleteFile.
LEMMA DeleteFileCorrect ==
    ASSUME NEW fs, NEW cs, NEW p, Rows(cs), DBInv(fs, cs)
    PROVE  /\ Keeps(fs, cs, p, DeleteFiles(fs, cs, p), DeleteChunks(fs, cs, p))
           /\ DOMAIN DeleteFiles(fs, cs, p) = DOMAIN fs \ {p}
<1> DEFINE gs == DeleteFiles(fs, cs, p)
           none == << >>
<1>1. /\ DOMAIN gs = DOMAIN fs \ {p}
      /\ \A q \in DOMAIN fs \ {p} : gs[q] = Cascade(fs, ZeroRows(fs, cs, p, none))[q]
    BY DEF DeleteFiles, Without, Cascade
<1>2. DOMAIN none = {}
    OBVIOUS
<1>3. IsBlockList(none)
    <2>1. IsFiniteSet(DOMAIN none)
        BY <1>2, FS_EmptySet
    <2>2. none = [i \in DOMAIN none |-> none[i]]
        OBVIOUS
    <2>3. QED
        BY <2>1, <2>2 DEF IsBlockList
<1>4. IdsOf(none) \subseteq DOMAIN UpsertChunks(fs, cs, p, none)
    BY <1>2 DEF IdsOf
<1>5. DeleteChunks(fs, cs, p) = UpsertChunks(fs, cs, p, none)
    BY DEF DeleteChunks, UpsertChunks
<1> HIDE DEF gs, none
<1>6. Replaced(fs, p, none, gs)
    BY <1>1, <1>2 DEF Replaced
<1>7. Keeps(fs, cs, p, gs, UpsertChunks(fs, cs, p, none))
    BY <1>1, <1>3, <1>4, <1>6, ReplaceCorrect
<1>8. QED
    BY <1>1, <1>5, <1>7 DEF gs

-----------------------------------------------------------------------------
(* Single rows.                                                            *)

\* A row that no file references: the condition under which deleting it is
\* invisible to every file.
Unreferenced(fs, c) == \A p \in DOMAIN fs : c \notin IdsOf(fs[p])

\* Deleting any set of rows keeps the manifest consistent; deleting
\* unreferenced ones leaves the files as they are.
LEMMA RemoveRowsCorrect ==
    ASSUME NEW fs, NEW cs, NEW dead, Rows(cs), DBInv(fs, cs)
    PROVE  /\ DBInv(Cascade(fs, dead), Without(cs, dead))
           /\ Rows(Without(cs, dead))
           /\ DOMAIN Cascade(fs, dead) = DOMAIN fs
           /\ (\A c \in dead : Unreferenced(fs, c)) =>
                \A p \in DOMAIN fs : Cascade(fs, dead)[p] = fs[p]
<1> DEFINE gs == Cascade(fs, dead)
           ds == Without(cs, dead)
<1>1. /\ FiniteTables(fs) /\ Exact(fs, cs) /\ NoDangling(fs, cs)
    BY DEF DBInv
<1>2. /\ DOMAIN gs = DOMAIN fs
      /\ \A q \in DOMAIN fs : /\ DOMAIN gs[q] = {j \in DOMAIN fs[q] : fs[q][j] \notin dead}
                              /\ gs[q] = [i \in DOMAIN gs[q] |-> gs[q][i]]
                              /\ \A i \in DOMAIN gs[q] : gs[q][i] = fs[q][i]
    BY DEF Cascade
<1>3. DOMAIN ds = DOMAIN cs \ dead /\ \A c \in DOMAIN ds : ds[c] = cs[c]
    BY DEF Without
<1>4. ASSUME \A c \in dead : Unreferenced(fs, c), NEW p \in DOMAIN fs
      PROVE  gs[p] = fs[p]
    <2>1. \A i \in DOMAIN fs[p] : fs[p][i] \notin dead
        BY <1>4 DEF Unreferenced, IdsOf
    <2>2. fs[p] = [i \in DOMAIN fs[p] |-> fs[p][i]]
        BY <1>1 DEF FiniteTables, IsBlockList
    <2>3. gs[p] = [i \in DOMAIN fs[p] |-> fs[p][i]]
        BY <2>1 DEF Cascade
    <2>4. QED
        BY <2>2, <2>3
<1> HIDE DEF gs, ds
<1>5. FiniteTables(gs)
    <2>1. \A q \in DOMAIN fs : IsFiniteSet(DOMAIN gs[q])
        <3>1. ASSUME NEW q \in DOMAIN fs
              PROVE  IsFiniteSet(DOMAIN gs[q])
            <4>1. IsFiniteSet(DOMAIN fs[q])
                BY <1>1 DEF FiniteTables, IsBlockList
            <4>2. DOMAIN gs[q] \in SUBSET DOMAIN fs[q]
                BY <1>2
            <4>3. QED
                BY <4>1, <4>2, FS_Subset
        <3>2. QED
            BY <3>1
    <2>2. QED
        BY <1>1, <1>2, <2>1 DEF FiniteTables, IsBlockList
<1>6. Exact(gs, ds)
    <2> SUFFICES ASSUME NEW c \in DOMAIN ds
                 PROVE  ds[c].refcount = Cardinality(RefsTo(gs, c))
        BY DEF Exact
    <2>1. \A x : x \in RefsTo(gs, c) <=>
              \E q \in DOMAIN gs : \E i \in DOMAIN gs[q] : gs[q][i] = c /\ x = <<q, i>>
        BY RefsMember
    <2>2. \A x : x \in RefsTo(fs, c) <=>
              \E q \in DOMAIN fs : \E i \in DOMAIN fs[q] : fs[q][i] = c /\ x = <<q, i>>
        BY RefsMember
    <2>3. ASSUME NEW q \in DOMAIN fs, NEW i
          PROVE  i \in DOMAIN gs[q] /\ gs[q][i] = c <=> i \in DOMAIN fs[q] /\ fs[q][i] = c
        <3>1. c \notin dead
            BY <1>3
        <3>2. CASE i \in DOMAIN gs[q]
            BY <1>2, <3>2
        <3>3. CASE i \notin DOMAIN gs[q]
            <4>1. ~(i \in DOMAIN fs[q] /\ fs[q][i] = c)
                BY <1>2, <3>1, <3>3
            <4>2. QED
                BY <3>3, <4>1
        <3>4. QED
            BY <3>2, <3>3
    <2>4. RefsTo(gs, c) = RefsTo(fs, c)
        BY <1>2, <2>1, <2>2, <2>3
    <2>5. QED
        BY <1>1, <1>3, <2>4 DEF Exact
<1>7. NoDangling(gs, ds)
    BY <1>1, <1>2, <1>3 DEF NoDangling, IdsOf
<1>8. Rows(ds)
    BY <1>3 DEF Rows
<1>9. QED
    BY <1>2, <1>4, <1>5, <1>6, <1>7, <1>8 DEF DBInv, gs, ds

\* A row with refcount zero is unreferenced: DeleteChunkIfZero is invisible.
LEMMA ZeroIsUnreferenced ==
    ASSUME NEW fs, NEW cs, NEW c \in DOMAIN cs, DBInv(fs, cs), cs[c].refcount <= 0
    PROVE  Unreferenced(fs, c)
<1>1. IsFiniteSet(RefsTo(fs, c)) /\ Cardinality(RefsTo(fs, c)) \in Nat
    BY RefsFinite, FS_CardinalityType DEF DBInv
<1>2. Cardinality(RefsTo(fs, c)) = 0
    BY <1>1 DEF DBInv, Exact
<1>3. RefsTo(fs, c) = {}
    BY <1>1, <1>2, FS_EmptySet
<1>4. \A p \in DOMAIN fs : \A i \in DOMAIN fs[p] : fs[p][i] = c => <<p, i>> \in RefsTo(fs, c)
    BY RefsMember
<1>5. QED
    BY <1>3, <1>4 DEF Unreferenced, IdsOf

\* InsertChunk under an id that is not in use.
LEMMA InsertChunkCorrect ==
    ASSUME NEW fs, NEW cs, NEW id, NEW h, NEW blob, Rows(cs), DBInv(fs, cs), id \notin DOMAIN cs
    PROVE  /\ DBInv(fs, InsertChunk(cs, id, h, blob))
           /\ Rows(InsertChunk(cs, id, h, blob))
<1> DEFINE ds == InsertChunk(cs, id, h, blob)
<1>1. /\ DOMAIN ds = DOMAIN cs \union {id}
      /\ ds[id] = [hash |-> h, refcount |-> 0, blob |-> blob]
      /\ \A c \in DOMAIN cs : ds[c] = cs[c]
    BY DEF InsertChunk
<1> HIDE DEF ds
<1>2. RefsTo(fs, id) = {}
    BY RefsMember DEF DBInv, NoDangling, IdsOf
<1>3. Cardinality(RefsTo(fs, id)) = 0
    BY <1>2, FS_EmptySet
<1>4. Exact(fs, ds)
    BY <1>1, <1>3 DEF Exact, DBInv
<1>5. NoDangling(fs, ds)
    BY <1>1 DEF NoDangling, DBInv
<1>6. Rows(ds)
    BY <1>1 DEF Rows
<1>7. QED
    BY <1>4, <1>5, <1>6 DEF DBInv, ds

-----------------------------------------------------------------------------
(* The repository engine.                                                    *)

\* The manifest, and every snapshot of it.
DBOk(fs, cs) == IsManifest(fs, cs) /\ DBInv(fs, cs)
DBPart == DBOk(files, chunks)
BkOk(b) ==
    /\ b \in [pc : {"idle", "snapshot", "upload", "verify", "drop", "prune"},
              snap : {b.snap}, name : 0 .. MaxSnaps]
    /\ b.pc # "idle" => b.name # 0
    /\ DBOk(b.snap.files, b.snap.chunks)
SnapsOk(ss) ==
    /\ DOMAIN ss \subseteq 1 .. MaxSnaps
    /\ \A n \in DOMAIN ss : DBOk(ss[n].files, ss[n].chunks)
BackupPart == BkOk(bk) /\ SnapsOk(snaps) /\ verified \in 0 .. MaxSnaps

\* A block that is started has a hash, one that is uploaded a blob name.
GoodTasks ==
    { r \in [st : TaskStates, hash : Hashes \union {None}, id : 0 .. MaxId,
             new : BOOLEAN, blob : 0 .. MaxBlobs] :
        /\ r.st # "none" => r.hash \in Hashes
        /\ r.st \in Uploading => r.blob \in BlobNames }
TaskPart == task \in [Tasks -> GoodTasks]

\* A writer past its start has a target path, a MOVE its two ends.
PathPart ==
    /\ pc \in [Writers -> Phases]
    /\ path \in [Writers -> Paths \union {None}]
    /\ \A w \in Writers : pc[w] \in {"store", "commit", "cleanup"} => path[w] \in Paths
OpPart ==
    /\ wlock \in Writers \union {TreeOp, GC, None}
    /\ op \in [pc : {"idle", "delete", "move"}, del : SUBSET Paths,
               src : Paths \union {None}, dst : Paths \union {None}]
    /\ op.pc = "move" => op.src \in Paths /\ op.dst \in Paths

Inv == DBPart /\ TypeStore /\ TaskPart /\ PathPart /\ OpPart /\ TypeGC /\ BackupPart

-----------------------------------------------------------------------------
\* The two properties are parts of Inv.
LEMMA InvImplies == Inv => TypeOK /\ RefcountExact
BY DEF Inv, DBPart, DBOk, TaskPart, GoodTasks, PathPart, OpPart, BackupPart, BkOk, SnapsOk,
       TypeOK, TypeWriters, TypeBackup, RefcountExact, DBInv, Exact

\* Every part speaks of its own variables only.
LEMMA Frame ==
    /\ DBPart /\ UNCHANGED <<files, chunks>> => DBPart'
    /\ TypeStore /\ UNCHANGED store => TypeStore'
    /\ TaskPart /\ UNCHANGED task => TaskPart'
    /\ PathPart /\ UNCHANGED <<pc, path>> => PathPart'
    /\ OpPart /\ UNCHANGED <<wlock, op>> => OpPart'
    /\ TypeGC /\ UNCHANGED gc => TypeGC'
    /\ BackupPart /\ UNCHANGED backup => BackupPart'
BY DEF DBPart, TypeStore, store, TaskPart, PathPart, OpPart, TypeGC, BackupPart, backup

\* The empty manifest is consistent.
LEMMA EmptyDB == DBOk(<< >>, << >>)
<1> DEFINE e == << >>
<1>1. DOMAIN e = {}
    OBVIOUS
<1>2. e \in [{} -> Row]
    OBVIOUS
<1>3. FiniteTables(e)
    BY <1>1, FS_EmptySet DEF FiniteTables
<1>4. Exact(e, e) /\ NoDangling(e, e)
    BY <1>1 DEF Exact, NoDangling
<1> HIDE DEF e
<1>5. IsManifest(e, e)
    BY <1>1, <1>2 DEF IsManifest, IsTable
<1>6. QED
    BY <1>3, <1>4, <1>5 DEF DBOk, DBInv, e

\* The rows of a typed manifest are records.
LEMMA ManifestRows ==
    ASSUME NEW fs, NEW cs, IsManifest(fs, cs)
    PROVE  Rows(cs)
BY DEF IsManifest, IsTable, Rows, Row

\* The empty repository satisfies Inv.
LEMMA InitInv == Init => Inv
<1> SUFFICES ASSUME Init PROVE Inv
    OBVIOUS
<1> USE DEF Init
<1>1. DBPart
    BY EmptyDB DEF DBPart
<1>2. TypeStore
    BY BoundsAssumption DEF TypeStore, IsTable
<1>3. TaskPart
    BY BoundsAssumption DEF TaskPart, GoodTasks, NoTask, TaskStates, Uploading
<1>4. PathPart
    BY DEF PathPart, Phases
<1>5. OpPart
    BY DEF OpPart, NoOp
<1>6. TypeGC
    BY DEF TypeGC, NoGC
<1>7. BackupPart
    <2>1. DBOk(bk.snap.files, bk.snap.chunks)
        BY EmptyDB DEF NoBk, NoSnap
    <2>2. DOMAIN snaps = {}
        OBVIOUS
    <2>3. QED
        BY <2>1, <2>2, BoundsAssumption DEF BackupPart, BkOk, SnapsOk, NoBk
<1>8. QED
    BY <1>1, <1>2, <1>3, <1>4, <1>5, <1>6, <1>7 DEF Inv

-----------------------------------------------------------------------------
(* Block tasks.                                                            *)

\* One task changes: its new value must be good.
LEMMA OneTask ==
    ASSUME TaskPart, NEW t \in Tasks, NEW r \in GoodTasks, task' = [task EXCEPT ![t] = r]
    PROVE  TaskPart'
BY DEF TaskPart, GoodTasks

\* An uploader publishes a settled result to itself and its waiters.
LEMMA PublishTasks ==
    ASSUME TaskPart, NEW t \in Tasks, NEW r \in GoodTasks, r.st \in {"ok", "err"}, Publish(t, r)
    PROVE  TaskPart'
<1>1. ASSUME NEW u \in Tasks
      PROVE  task'[u] \in GoodTasks
    <2>1. task[u] \in GoodTasks
        BY DEF TaskPart
    <2>2. CASE u = t
        BY <2>2 DEF Publish
    <2>3. CASE u # t /\ u \in Waiters(t)
        <3>1. task'[u] = [task[u] EXCEPT !.st = r.st, !.id = r.id]
            BY <2>3 DEF Publish
        <3>2. task[u].st = "wait"
            BY <2>3 DEF Waiters
        <3>3. QED
            BY <2>1, <3>1, <3>2 DEF GoodTasks, Uploading, TaskStates
    <2>4. CASE u # t /\ u \notin Waiters(t)
        BY <2>1, <2>4 DEF Publish
    <2>5. QED
        BY <2>2, <2>3, <2>4
<1>2. task' = [u \in Tasks |-> task'[u]]
    BY DEF Publish
<1>3. QED
    BY <1>1, <1>2 DEF TaskPart, GoodTasks

\* Tasks of a writer are started with the hashes of a body, or cleared.
LEMMA StartClear ==
    ASSUME TaskPart, NEW w \in Writers
    PROVE  /\ \A body \in Bodies : StartTasks(w, body) => TaskPart'
           /\ ClearTasks(w) => TaskPart'
<1>1. NoTask \in GoodTasks
    BY BoundsAssumption DEF NoTask, GoodTasks, TaskStates, Uploading
<1>2. ASSUME NEW h \in Hashes
      PROVE  [NoTask EXCEPT !.st = "todo", !.hash = h] \in GoodTasks
    BY <1>1, BoundsAssumption DEF GoodTasks, TaskStates, Uploading
<1>3. ASSUME NEW body \in Bodies, StartTasks(w, body)
      PROVE  TaskPart'
    <2>1. \A i \in DOMAIN body : body[i] \in Hashes
        BY DEF Bodies
    <2>2. \A u \in Tasks : task[u] \in GoodTasks
        BY DEF TaskPart
    <2>3. QED
        BY <1>1, <1>2, <1>3, <2>1, <2>2 DEF StartTasks, TaskPart, GoodTasks
<1>4. ASSUME ClearTasks(w)
      PROVE  TaskPart'
    <2>1. \A u \in Tasks : task[u] \in GoodTasks
        BY DEF TaskPart
    <2>2. QED
        BY <1>1, <1>4, <2>1 DEF ClearTasks, TaskPart, GoodTasks
<1>5. QED
    BY <1>3, <1>4

-----------------------------------------------------------------------------
(* The manifest transactions keep DBOk.                                    *)

\* Rows that keep hash and blob, and have a natural refcount, are Rows again.
LEMMA RowsTyped ==
    ASSUME NEW cs, NEW ds, IsTable(cs, Ids, Row), Rows(ds), DOMAIN ds \subseteq DOMAIN cs,
           ds = [c \in DOMAIN ds |-> ds[c]],
           \A c \in DOMAIN ds : /\ ds[c].hash = cs[c].hash /\ ds[c].blob = cs[c].blob
                                /\ ds[c].refcount \in Nat
    PROVE  IsTable(ds, Ids, Row)
<1>1. ASSUME NEW c \in DOMAIN ds
      PROVE  ds[c] \in Row
    <2>1. cs[c] \in Row
        BY DEF IsTable
    <2>2. ds[c].hash \in Hashes /\ ds[c].blob \in 1 .. MaxBlobs /\ ds[c].refcount \in Nat
        BY <2>1 DEF Row
    <2>3. ds[c] = [hash |-> ds[c].hash, refcount |-> ds[c].refcount, blob |-> ds[c].blob]
        BY DEF Rows
    <2>4. QED
        BY <2>2, <2>3 DEF Row
<1>2. ds \in [DOMAIN ds -> Row]
    BY <1>1
<1>3. QED
    BY <1>2 DEF IsTable

\* A block list over Idx is a finite function; its ids are row ids if it names
\* only rows of a manifest.
LEMMA ListTyped ==
    ASSUME NEW refs, IsTable(refs, Idx, Int)
    PROVE  /\ IsBlockList(refs)
           /\ IdsOf(refs) \subseteq Ids => IsTable(refs, Idx, Ids)
<1>1. 1 \in Int /\ MaxBody \in Int
    BY BoundsAssumption
<1>1a. IsFiniteSet(1 .. MaxBody)
    BY <1>1, FS_Interval
<1>2. IsFiniteSet(DOMAIN refs)
    BY <1>1a, FS_Subset DEF Idx, IsTable
<1>3. ASSUME IdsOf(refs) \subseteq Ids
      PROVE  refs \in [DOMAIN refs -> Ids]
    BY <1>3 DEF IdsOf, IsTable
<1>4. QED
    BY <1>2, <1>3 DEF IsBlockList, IsTable

\* UpsertFile.
LEMMA WriteOk ==
    ASSUME NEW p \in Paths, NEW refs, DBOk(files, chunks),
           IsTable(refs, Idx, Int), UpsertAllowed(files, chunks, p, refs)
    PROVE  DBOk(UpsertFiles(files, chunks, p, refs), UpsertChunks(files, chunks, p, refs))
<1> DEFINE gs == UpsertFiles(files, chunks, p, refs)
           ds == UpsertChunks(files, chunks, p, refs)
<1>1. Rows(chunks) /\ DBInv(files, chunks) /\ IsManifest(files, chunks)
    BY ManifestRows DEF DBOk
<1>2. IsBlockList(refs)
    BY ListTyped
<1>3. /\ Keeps(files, chunks, p, gs, ds)
      /\ DOMAIN gs = DOMAIN files \union {p}
      /\ gs[p] = refs
    <2>1. UpsertAllowed(files, chunks, p, refs)
        OBVIOUS
    <2>2. Keeps(files, chunks, p, gs, ds)
        BY <1>1, <1>2, <2>1, UpsertFileCorrect
    <2>3. DOMAIN gs = DOMAIN files \union {p} /\ gs[p] = refs
        BY DEF UpsertFiles
    <2>4. QED
        BY <2>2, <2>3
<1>4. ds = [c \in DOMAIN ds |-> ds[c]]
    BY DEF UpsertChunks, Without
<1>5. IdsOf(refs) \subseteq DOMAIN ds
    BY DEF UpsertAllowed
<1> HIDE DEF gs, ds
<1>6. IsTable(ds, Ids, Row)
    BY <1>1, <1>3, <1>4, RowsTyped DEF Keeps, IsManifest
<1>7. IsTable(refs, Idx, Ids)
    BY <1>5, <1>6, ListTyped DEF IsTable
<1>8. \A q \in DOMAIN gs : IsTable(gs[q], Idx, Ids)
    BY <1>1, <1>3, <1>7 DEF Keeps, IsManifest
<1>9. DOMAIN gs \subseteq Paths
    BY <1>1, <1>3 DEF IsManifest
<1>10. QED
    BY <1>3, <1>6, <1>8, <1>9 DEF DBOk, IsManifest, Keeps, gs, ds

\* DeleteFile.
LEMMA RemoveOk ==
    ASSUME NEW p, DBOk(files, chunks)
    PROVE  DBOk(DeleteFiles(files, chunks, p), DeleteChunks(files, chunks, p))
<1> DEFINE gs == DeleteFiles(files, chunks, p)
           ds == DeleteChunks(files, chunks, p)
<1>1. Rows(chunks) /\ DBInv(files, chunks) /\ IsManifest(files, chunks)
    BY ManifestRows DEF DBOk
<1>2. Keeps(files, chunks, p, gs, ds) /\ DOMAIN gs = DOMAIN files \ {p}
    BY <1>1, DeleteFileCorrect
<1>3. ds = [c \in DOMAIN ds |-> ds[c]]
    BY DEF DeleteChunks, Without
<1> HIDE DEF gs, ds
<1>4. IsTable(ds, Ids, Row)
    BY <1>1, <1>2, <1>3, RowsTyped DEF Keeps, IsManifest
<1>5. DOMAIN gs \subseteq Paths /\ \A q \in DOMAIN gs : IsTable(gs[q], Idx, Ids)
    BY <1>1, <1>2 DEF Keeps, IsManifest
<1>6. QED
    BY <1>2, <1>4, <1>5 DEF DBOk, IsManifest, Keeps, gs, ds

\* DELETE FROM chunks, whatever the rows.
LEMMA RemoveChunksOk ==
    ASSUME NEW dead, DBOk(files, chunks)
    PROVE  DBOk(Cascade(files, dead), Without(chunks, dead))
<1> DEFINE gs == Cascade(files, dead)
           ds == Without(chunks, dead)
<1>1. Rows(chunks) /\ DBInv(files, chunks) /\ IsManifest(files, chunks)
    BY ManifestRows DEF DBOk
<1>2. DBInv(gs, ds) /\ DOMAIN gs = DOMAIN files
    BY <1>1, RemoveRowsCorrect
<1>3. IsTable(ds, Ids, Row)
    BY <1>1 DEF IsManifest, IsTable, Without
<1>4. ASSUME NEW q \in DOMAIN files
      PROVE  IsTable(gs[q], Idx, Ids)
    BY <1>1 DEF IsManifest, IsTable, Cascade
<1>5. QED
    BY <1>1, <1>2, <1>3, <1>4 DEF DBOk, IsManifest

\* INSERT INTO chunks under the next row id.
LEMMA InsertOk ==
    ASSUME NEW id \in Ids, NEW h \in Hashes, NEW b \in BlobNames, DBOk(files, chunks),
           IsNextRowid(chunks, id)
    PROVE  DBOk(files, InsertChunk(chunks, id, h, b))
<1>1. Rows(chunks) /\ DBInv(files, chunks) /\ IsManifest(files, chunks)
    BY ManifestRows DEF DBOk
<1>2. id \notin DOMAIN chunks
    BY DEF IsNextRowid, Ids
<1>3. DBInv(files, InsertChunk(chunks, id, h, b))
    BY <1>1, <1>2, InsertChunkCorrect
<1>4. [hash |-> h, refcount |-> 0, blob |-> b] \in Row
    BY DEF Row, BlobNames
<1>5. IsTable(InsertChunk(chunks, id, h, b), Ids, Row)
    BY <1>1, <1>4 DEF InsertChunk, IsManifest, IsTable
<1>6. QED
    BY <1>1, <1>3, <1>5 DEF DBOk, IsManifest

-----------------------------------------------------------------------------
(* storeChunkContext.                                                      *)

\* A step that touches neither the locks nor the writers' phases, neither GC
\* nor the backups, has three parts left to show.
LEMMA OnlyStore ==
    ASSUME Inv, UNCHANGED <<pc, path, wlock, op, gc, backup>>, DBPart', TypeStore', TaskPart'
    PROVE  Inv'
BY Frame DEF Inv

\* Results an uploader may publish.
LEMMA Results ==
    ASSUME TaskPart, NEW t \in Tasks, task[t].st # "none"
    PROVE  /\ Failed(t) \in GoodTasks /\ Failed(t).st = "err"
           /\ [task[t] EXCEPT !.st = "ok"] \in GoodTasks
           /\ \A c \in Ids : [task[t] EXCEPT !.st = "ok", !.id = c, !.new = TRUE] \in GoodTasks
<1>1. task[t] \in GoodTasks
    BY DEF TaskPart
<1>2. Failed(t) \in GoodTasks /\ Failed(t).st = "err"
    BY <1>1 DEF Failed, GoodTasks, TaskStates, Uploading
<1>3. [task[t] EXCEPT !.st = "ok"] \in GoodTasks
    BY <1>1 DEF GoodTasks, TaskStates, Uploading
<1>4. ASSUME NEW c \in Ids
      PROVE  [task[t] EXCEPT !.st = "ok", !.id = c, !.new = TRUE] \in GoodTasks
    <2>1. c \in 0 .. MaxId
        BY BoundsAssumption DEF Ids
    <2>2. QED
        BY <1>1, <2>1 DEF GoodTasks, TaskStates, Uploading
<1>5. QED
    BY <1>2, <1>3, <1>4

\* The backend after the PUT of a block's blob.
LEMMA BlobStored ==
    ASSUME TypeStore, TaskPart, NEW t \in Tasks, task[t].st \in Uploading
    PROVE  IsTable(WithBlob(t), BlobNames, Hashes)
<1>1. task[t].blob \in BlobNames /\ task[t].hash \in Hashes
    BY DEF TaskPart, GoodTasks, Uploading
<1>2. QED
    BY <1>1 DEF TypeStore, IsTable, WithBlob

\* Blobs are only removed.
LEMMA BlobsRemoved ==
    ASSUME TypeStore, NEW S, blobs' = Without(blobs, S), UNCHANGED nextBlob
    PROVE  TypeStore'
BY DEF TypeStore, IsTable, Without

\* Every step of StoreChunk keeps Inv: the only row it writes is new and has
\* refcount 0.
LEMMA StoreChunkInv ==
    ASSUME Inv, NEW t \in Tasks, StoreChunk(t)
    PROVE  Inv'
<1>1. /\ DBPart /\ TypeStore /\ TaskPart
      /\ task[t] \in GoodTasks
    BY DEF Inv, TaskPart
<1>2. \A c \in FindChunkByHash(chunks, task[t].hash) : c \in Ids
    BY <1>1 DEF DBPart, DBOk, IsManifest, IsTable, FindChunkByHash
<1>3. CASE FindChunk(t)
    <2>1. DBPart' /\ TypeStore'
        BY <1>1, <1>3, Frame DEF FindChunk, db
    <2>2. TaskPart'
        <3>1. task[t].st = "todo"
            BY <1>3 DEF FindChunk
        <3>2. CASE \E c \in FindChunkByHash(chunks, task[t].hash) :
                        task' = [task EXCEPT ![t].st = "ok", ![t].id = c]
            <4>1. PICK c \in Ids : task' = [task EXCEPT ![t].st = "ok", ![t].id = c]
                BY <1>2, <3>2
            <4>2. c \in 0 .. MaxId
                BY BoundsAssumption DEF Ids
            <4>3. QED
                BY <1>1, <3>1, <4>1, <4>2 DEF TaskPart, GoodTasks, TaskStates, Uploading
        <3>3. CASE task' = [task EXCEPT ![t].st = "miss"]
            BY <1>1, <3>1, <3>3 DEF TaskPart, GoodTasks, TaskStates, Uploading
        <3>4. QED
            BY <1>3, <3>2, <3>3 DEF FindChunk
    <2>3. QED
        BY <1>3, <2>1, <2>2, OnlyStore DEF FindChunk
<1>4. CASE AbandonTask(t)
    <2>1. DBPart' /\ TypeStore'
        BY <1>1, <1>4, Frame DEF AbandonTask, db
    <2>2. TaskPart'
        BY <1>1, <1>4 DEF AbandonTask, TaskPart, GoodTasks, TaskStates, Uploading
    <2>3. QED
        BY <1>4, <2>1, <2>2, OnlyStore DEF AbandonTask
<1>5. CASE Register(t)
    <2>1. DBPart'
        BY <1>1, <1>5, Frame DEF Register, db
    <2>2. task[t].st = "miss"
        BY <1>5 DEF Register
    <2>3. nextBlob \in 1 .. MaxBlobs + 1
        BY <1>1 DEF TypeStore
    <2>4. CASE task' = [task EXCEPT ![t].st = "wait"] /\ UNCHANGED nextBlob
        <3>1. TypeStore'
            BY <1>1, <1>5, <2>4, Frame DEF Register, store
        <3>2. TaskPart'
            BY <1>1, <2>2, <2>4 DEF TaskPart, GoodTasks, TaskStates, Uploading
        <3>3. QED
            BY <1>5, <2>1, <3>1, <3>2, OnlyStore DEF Register
    <2>5. CASE task' = [task EXCEPT ![t].st = "err"] /\ UNCHANGED nextBlob
        <3>1. TypeStore'
            BY <1>1, <1>5, <2>5, Frame DEF Register, store
        <3>2. TaskPart'
            BY <1>1, <2>2, <2>5 DEF TaskPart, GoodTasks, TaskStates, Uploading
        <3>3. QED
            BY <1>5, <2>1, <3>1, <3>2, OnlyStore DEF Register
    <2>6. CASE /\ nextBlob <= MaxBlobs
               /\ task' = [task EXCEPT ![t].st = "put", ![t].blob = nextBlob]
               /\ nextBlob' = nextBlob + 1
        <3>1. nextBlob \in BlobNames /\ nextBlob' \in 1 .. MaxBlobs + 1
            BY <2>3, <2>6, BoundsAssumption DEF BlobNames
        <3>2. TypeStore'
            BY <1>1, <1>5, <3>1 DEF Register, TypeStore
        <3>3. nextBlob \in 0 .. MaxBlobs
            BY <3>1 DEF BlobNames
        <3>4. TaskPart'
            BY <1>1, <2>2, <2>6, <3>1, <3>3 DEF TaskPart, GoodTasks, TaskStates, Uploading
        <3>5. QED
            BY <1>5, <2>1, <3>2, <3>4, OnlyStore DEF Register
    <2>7. QED
        BY <1>5, <2>1, <2>4, <2>5, <2>6, OnlyStore DEF Register
<1>6. CASE PutBlob(t)
    <2>1. DBPart'
        BY <1>1, <1>6, Frame DEF PutBlob, db
    <2>2. TypeStore'
        BY <1>1, <1>6, BlobStored DEF PutBlob, TypeStore, Uploading
    <2>3. TaskPart'
        BY <1>1, <1>6 DEF PutBlob, TaskPart, GoodTasks, TaskStates, Uploading
    <2>4. QED
        BY <1>6, <2>1, <2>2, <2>3, OnlyStore DEF PutBlob
<1>7. CASE PutBlobFails(t)
    <2>1. DBPart'
        BY <1>1, <1>7, Frame DEF PutBlobFails, db
    <2>2. TypeStore'
        BY <1>1, <1>7, BlobStored DEF PutBlobFails, TypeStore, Uploading
    <2>3. TaskPart'
        BY <1>1, <1>7, Results, PublishTasks DEF PutBlobFails
    <2>4. QED
        BY <1>7, <2>1, <2>2, <2>3, OnlyStore DEF PutBlobFails
<1>8. CASE InsertRow(t)
    <2>1. PICK id \in Ids :
            /\ IsNextRowid(chunks, id)
            /\ chunks' = InsertChunk(chunks, id, task[t].hash, task[t].blob)
            /\ Publish(t, [task[t] EXCEPT !.st = "ok", !.id = id, !.new = TRUE])
        BY <1>8 DEF InsertRow, Ids
    <2>2. task[t].hash \in Hashes /\ task[t].blob \in BlobNames /\ task[t].st # "none"
        BY <1>1, <1>8 DEF InsertRow, GoodTasks, Uploading
    <2>3. DBPart'
        BY <1>1, <1>8, <2>1, <2>2, InsertOk DEF InsertRow, DBPart
    <2>4. TypeStore'
        BY <1>1, <1>8, Frame DEF InsertRow
    <2>5. [task[t] EXCEPT !.st = "ok", !.id = id, !.new = TRUE] \in GoodTasks
        BY <1>1, <2>2, Results
    <2>6. [task[t] EXCEPT !.st = "ok", !.id = id, !.new = TRUE].st = "ok"
        BY <1>1 DEF GoodTasks
    <2>7. TaskPart'
        BY <1>1, <2>1, <2>5, <2>6, PublishTasks
    <2>8. QED
        BY <1>8, <2>3, <2>4, <2>7, OnlyStore DEF InsertRow
<1>9. CASE InsertFails(t)
    <2>1. DBPart' /\ TypeStore'
        BY <1>1, <1>9, Frame DEF InsertFails, db
    <2>2. TaskPart'
        BY <1>1, <1>9 DEF InsertFails, TaskPart, GoodTasks, TaskStates, Uploading
    <2>3. QED
        BY <1>9, <2>1, <2>2, OnlyStore DEF InsertFails
<1>10. CASE Refind(t)
    <2>1. DBPart' /\ TypeStore'
        BY <1>1, <1>10, Frame DEF Refind, db
    <2>2. task[t].st = "refind"
        BY <1>10 DEF Refind
    <2>3. CASE \E c \in FindChunkByHash(chunks, task[t].hash) :
                    task' = [task EXCEPT ![t].st = "dup", ![t].id = c]
        <3>1. PICK c \in Ids : task' = [task EXCEPT ![t].st = "dup", ![t].id = c]
            BY <1>2, <2>3
        <3>2. c \in 0 .. MaxId
            BY BoundsAssumption DEF Ids
        <3>3. TaskPart'
            BY <1>1, <2>2, <3>1, <3>2 DEF TaskPart, GoodTasks, TaskStates, Uploading
        <3>4. QED
            BY <1>10, <2>1, <3>3, OnlyStore DEF Refind
    <2>4. CASE Publish(t, Failed(t))
        <3>1. TaskPart'
            BY <1>1, <2>2, <2>4, Results, PublishTasks
        <3>2. QED
            BY <1>10, <2>1, <3>1, OnlyStore DEF Refind
    <2>5. QED
        BY <1>10, <2>3, <2>4 DEF Refind
<1>11. CASE DropDuplicate(t)
    <2>1. DBPart'
        BY <1>1, <1>11, Frame DEF DropDuplicate, db
    <2>2. TypeStore'
        BY <1>1, <1>11, BlobsRemoved DEF DropDuplicate, TypeStore
    <2>3. [task[t] EXCEPT !.st = "ok"] \in GoodTasks
        BY <1>1, <1>11, Results DEF DropDuplicate
    <2>4. [task[t] EXCEPT !.st = "ok"].st = "ok"
        BY <1>1 DEF GoodTasks
    <2>5. TaskPart'
        BY <1>1, <1>11, <2>3, <2>4, PublishTasks DEF DropDuplicate
    <2>6. QED
        BY <1>11, <2>1, <2>2, <2>5, OnlyStore DEF DropDuplicate
<1>12. QED
    BY <1>3, <1>4, <1>5, <1>6, <1>7, <1>8, <1>9, <1>10, <1>11 DEF StoreChunk

-----------------------------------------------------------------------------
(* Uploads and write sessions.                                             *)

\* A step that leaves the backend, DELETE/MOVE, GC and the backups alone.
LEMMA OnlyWriters ==
    ASSUME Inv, UNCHANGED <<store, op, gc, backup>>, DBPart', TaskPart', PathPart',
           wlock' \in Writers \union {TreeOp, GC, None}
    PROVE  Inv'
<1>1. OpPart'
    BY DEF Inv, OpPart
<1>2. QED
    BY <1>1, Frame DEF Inv

\* One writer moves to phase q with target x.
LEMMA OneWriter ==
    ASSUME PathPart, NEW w \in Writers, NEW q \in Phases, NEW x \in Paths \union {None},
           q \in {"store", "commit", "cleanup"} => x \in Paths,
           pc' = [pc EXCEPT ![w] = q], path' = [path EXCEPT ![w] = x]
    PROVE  PathPart'
BY DEF PathPart

\* The same with its target kept, from a phase that has one.
LEMMA OneWriterStays ==
    ASSUME PathPart, NEW w \in Writers, NEW q \in Phases,
           pc[w] \in {"store", "commit", "cleanup"},
           pc' = [pc EXCEPT ![w] = q], UNCHANGED path
    PROVE  PathPart'
BY DEF PathPart

\* The commit of a file all of whose rows still exist.
LEMMA CommitDB ==
    ASSUME Inv, NEW w \in Writers, pc[w] \in {"store", "commit"},
           UpsertAllowed(files, chunks, path[w], ChunkRefs(w)),
           WriteFile(path[w], ChunkRefs(w), BodyOf(w))
    PROVE  DBPart'
<1>1. path[w] \in Paths
    BY DEF Inv, PathPart
<1>2. DBOk(files, chunks)
    BY DEF Inv, DBPart
<1>3. ASSUME NEW i \in Blocks(w)
      PROVE  i \in Idx /\ task[<<w, i>>].id \in Int
    BY BoundsAssumption DEF Blocks, Tasks, Inv, TaskPart, GoodTasks
<1>4. IsTable(ChunkRefs(w), Idx, Int)
    BY <1>3 DEF ChunkRefs, IsTable
<1>5. QED
    BY <1>1, <1>2, <1>4, WriteOk DEF WriteFile, DBPart

\* So does every step of PutFile.
LEMMA PutInv ==
    ASSUME Inv, NEW w \in Puts, PutStep(w)
    PROVE  Inv'
<1>1. /\ w \in Writers
      /\ DBPart /\ TaskPart /\ PathPart
      /\ wlock \in Writers \union {TreeOp, GC, None}
    BY DEF Inv, OpPart, Writers
<1>2. CASE PutStart(w)
    <2>1. PICK p \in Paths, body \in Bodies :
            path' = [path EXCEPT ![w] = p] /\ StartTasks(w, body)
        BY <1>2 DEF PutStart
    <2>2. TaskPart'
        BY <1>1, <2>1, StartClear
    <2>3. PathPart'
        BY <1>1, <1>2, <2>1, OneWriter DEF PutStart, Phases
    <2>4. DBPart'
        BY <1>1, <1>2, Frame DEF PutStart, db
    <2>5. QED
        BY <1>1, <1>2, <2>2, <2>3, <2>4, OnlyWriters DEF PutStart
<1>3. CASE PutGiveUp(w)
    <2>1. PathPart'
        BY <1>1, <1>3, OneWriterStays DEF PutGiveUp, Phases
    <2>2. DBPart' /\ TaskPart'
        BY <1>1, <1>3, Frame DEF PutGiveUp, db
    <2>3. QED
        BY <1>1, <1>3, <2>1, <2>2, OnlyWriters DEF PutGiveUp
<1>4. CASE PutLock(w)
    <2>1. PathPart'
        BY <1>1, <1>4, OneWriterStays DEF PutLock, Phases
    <2>2. DBPart' /\ TaskPart'
        BY <1>1, <1>4, Frame DEF PutLock, db
    <2>3. QED
        BY <1>1, <1>4, <2>1, <2>2, OnlyWriters DEF PutLock
<1>5. CASE PutCommit(w)
    <2>1. PathPart'
        BY <1>1, <1>5, OneWriter DEF PutCommit, Phases
    <2>2. TaskPart'
        BY <1>1, <1>5, StartClear DEF PutCommit
    <2>3. DBPart'
        BY <1>1, <1>5, CommitDB DEF PutCommit
    <2>4. QED
        BY <1>1, <1>5, <2>1, <2>2, <2>3, OnlyWriters DEF PutCommit
<1>6. CASE PutCommitFails(w)
    <2>1. PathPart'
        BY <1>1, <1>6, OneWriterStays DEF PutCommitFails, Phases
    <2>2. DBPart' /\ TaskPart'
        BY <1>1, <1>6, Frame DEF PutCommitFails, db
    <2>3. QED
        BY <1>1, <1>6, <2>1, <2>2, OnlyWriters DEF PutCommitFails
<1>7. CASE PutCleanup(w)
    <2>1. PICK t \in TasksOf(w) :
            /\ task' = [task EXCEPT ![t].new = FALSE]
            /\ \/ RemoveChunks(DeleteChunkIfZeroIds(chunks, task[t].id))
               \/ UNCHANGED db
        BY <1>7 DEF PutCleanup
    <2>2. t \in Tasks
        BY <1>1 DEF TasksOf, Tasks
    <2>3. TaskPart'
        BY <1>1, <2>1, <2>2 DEF TaskPart, GoodTasks
    <2>4. DBPart'
        BY <1>1, <2>1, RemoveChunksOk, Frame DEF RemoveChunks, DBPart, db
    <2>5. PathPart'
        BY <1>1, <1>7, Frame DEF PutCleanup
    <2>6. QED
        BY <1>1, <1>7, <2>3, <2>4, <2>5, OnlyWriters DEF PutCleanup
<1>8. CASE PutFailed(w)
    <2>1. PathPart'
        BY <1>1, <1>8, OneWriter DEF PutFailed, Phases
    <2>2. TaskPart'
        BY <1>1, <1>8, StartClear DEF PutFailed
    <2>3. DBPart'
        BY <1>1, <1>8, Frame DEF PutFailed, db
    <2>4. QED
        BY <1>1, <1>8, <2>1, <2>2, <2>3, OnlyWriters DEF PutFailed
<1>9. QED
    BY <1>2, <1>3, <1>4, <1>5, <1>6, <1>7, <1>8 DEF PutStep

\* So does every step of an rsync session.
LEMMA SessionInv ==
    ASSUME Inv, NEW w \in Sessions, SessionStep(w)
    PROVE  Inv'
<1>1. /\ w \in Writers
      /\ DBPart /\ TaskPart /\ PathPart
      /\ wlock \in Writers \union {TreeOp, GC, None}
    BY DEF Inv, OpPart, Writers
<1>2. CASE SessionStart(w)
    <2>1. PathPart'
        BY <1>1, <1>2 DEF SessionStart, PathPart, Phases
    <2>2. DBPart' /\ TaskPart'
        BY <1>1, <1>2, Frame DEF SessionStart, db
    <2>3. QED
        BY <1>1, <1>2, <2>1, <2>2, OnlyWriters DEF SessionStart
<1>3. CASE SessionFile(w)
    <2>1. PICK p \in Paths, body \in Bodies :
            path' = [path EXCEPT ![w] = p] /\ StartTasks(w, body)
        BY <1>3 DEF SessionFile
    <2>2. TaskPart'
        BY <1>1, <2>1, StartClear
    <2>3. PathPart'
        BY <1>1, <1>3, <2>1, OneWriter DEF SessionFile, Phases
    <2>4. DBPart'
        BY <1>1, <1>3, Frame DEF SessionFile, db
    <2>5. QED
        BY <1>1, <1>3, <2>2, <2>3, <2>4, OnlyWriters DEF SessionFile
<1>4. CASE SessionUpsert(w)
    <2>1. PathPart'
        BY <1>1, <1>4, OneWriter DEF SessionUpsert, Phases
    <2>2. TaskPart'
        BY <1>1, <1>4, StartClear DEF SessionUpsert
    <2>3. DBPart'
        BY <1>1, <1>4, CommitDB DEF SessionUpsert
    <2>4. QED
        BY <1>1, <1>4, <2>1, <2>2, <2>3, OnlyWriters DEF SessionUpsert
<1>5. CASE SessionDelete(w)
    <2>1. PICK p \in DOMAIN files : RemoveFile(p)
        BY <1>5 DEF SessionDelete
    <2>2. DBPart'
        BY <1>1, <2>1, RemoveOk DEF RemoveFile, DBPart
    <2>3. TaskPart' /\ PathPart'
        BY <1>1, <1>5, Frame DEF SessionDelete, upl
    <2>4. QED
        BY <1>1, <1>5, <2>2, <2>3, OnlyWriters DEF SessionDelete
<1>6. CASE SessionEnd(w)
    <2>1. PathPart'
        BY <1>1, <1>6, OneWriter DEF SessionEnd, Phases
    <2>2. TaskPart'
        BY <1>1, <1>6, StartClear DEF SessionEnd
    <2>3. DBPart'
        BY <1>1, <1>6, Frame DEF SessionEnd, db
    <2>4. QED
        BY <1>1, <1>6, <2>1, <2>2, <2>3, OnlyWriters DEF SessionEnd
<1>7. QED
    BY <1>2, <1>3, <1>4, <1>5, <1>6 DEF SessionStep

-----------------------------------------------------------------------------
(* DELETE and MOVE.                                                        *)

\* A step of DELETE or MOVE.
LEMMA OnlyTree ==
    ASSUME Inv, UNCHANGED <<store, upl, gc, backup>>, DBPart', OpPart'
    PROVE  Inv'
BY Frame DEF Inv, upl

\* The block list of a row, or the empty one, is a block list.
LEMMA GetFileChunksTyped ==
    ASSUME NEW p, IsManifest(files, chunks)
    PROVE  IsTable(GetFileChunks(files, p), Idx, Int)
<1>1. CASE p \in DOMAIN files
    BY <1>1 DEF GetFileChunks, IsManifest, IsTable, Ids
<1>2. CASE p \notin DOMAIN files
    <2>1. DOMAIN << >> = {} /\ << >> \in [{} -> Int]
        OBVIOUS
    <2>2. GetFileChunks(files, p) = << >>
        BY <1>2 DEF GetFileChunks
    <2>3. QED
        BY <2>1, <2>2 DEF IsTable
<1>3. QED
    BY <1>1, <1>2

\* So does every step of DELETE and MOVE.
LEMMA TreeInv == Inv /\ TreeStep => Inv'
<1> SUFFICES ASSUME Inv, TreeStep PROVE Inv'
    OBVIOUS
<1>1. /\ DBPart /\ OpPart
      /\ DOMAIN files \subseteq Paths
    BY DEF Inv, DBPart, DBOk, IsManifest
<1>2. CASE DeletePathStart
    <2>1. PICK S \in SUBSET Paths : op' = [NoOp EXCEPT !.pc = "delete", !.del = S]
        BY <1>1, <1>2 DEF DeletePathStart
    <2>2. NoOp \in [pc : {"idle", "delete", "move"}, del : SUBSET Paths,
                    src : Paths \union {None}, dst : Paths \union {None}]
        BY DEF NoOp
    <2>3. OpPart'
        BY <1>2, <2>1, <2>2 DEF DeletePathStart, OpPart
    <2>4. DBPart'
        BY <1>1, <1>2, Frame DEF DeletePathStart, db
    <2>5. QED
        BY <1>2, <2>3, <2>4, OnlyTree DEF DeletePathStart
<1>3. CASE MovePathStart
    <2>1. PICK s \in Paths, d \in Paths :
            op' = [pc |-> "move", del |-> {d} \intersect DOMAIN files, src |-> s, dst |-> d]
        BY <1>1, <1>3 DEF MovePathStart
    <2>2. OpPart'
        BY <1>3, <2>1 DEF MovePathStart, OpPart
    <2>3. DBPart'
        BY <1>1, <1>3, Frame DEF MovePathStart, db
    <2>4. QED
        BY <1>3, <2>2, <2>3, OnlyTree DEF MovePathStart
<1>4. CASE TreeDeleteRow
    <2>1. PICK p \in op.del : RemoveFile(p) /\ op' = [op EXCEPT !.del = @ \ {p}]
        BY <1>4 DEF TreeDeleteRow
    <2>2. OpPart'
        BY <1>1, <1>4, <2>1 DEF TreeDeleteRow, OpPart
    <2>3. DBPart'
        BY <1>1, <2>1, RemoveOk DEF RemoveFile, DBPart
    <2>4. QED
        BY <1>4, <2>2, <2>3, OnlyTree DEF TreeDeleteRow
<1>5. CASE MoveUpsert
    <2>1. op.src \in Paths /\ op.dst \in Paths
        BY <1>1, <1>5 DEF MoveUpsert, OpPart
    <2>2. OpPart'
        BY <1>1, <1>5, <2>1 DEF MoveUpsert, OpPart
    <2>3. IsTable(GetFileChunks(files, op.src), Idx, Int)
        BY <1>1, GetFileChunksTyped DEF DBPart, DBOk
    <2>4. DBPart'
        BY <1>1, <1>5, <2>1, <2>3, WriteOk DEF MoveUpsert, WriteFile, DBPart
    <2>5. QED
        BY <1>5, <2>2, <2>4, OnlyTree DEF MoveUpsert
<1>6. CASE TreeOpEnd
    <2>1. OpPart'
        BY <1>6 DEF TreeOpEnd, OpPart, NoOp
    <2>2. DBPart'
        BY <1>1, <1>6, Frame DEF TreeOpEnd, db
    <2>3. QED
        BY <1>6, <2>1, <2>2, OnlyTree DEF TreeOpEnd
<1>7. QED
    BY <1>2, <1>3, <1>4, <1>5, <1>6 DEF TreeStep

-----------------------------------------------------------------------------
(* GC.                                                                     *)

\* A step of GC: blob names are not handed out, uploads and backups stand still.
LEMMA OnlyGC ==
    ASSUME Inv, UNCHANGED <<nextBlob, upl, op, backup>>, DBPart', TypeGC',
           IsTable(blobs', BlobNames, Hashes), wlock' \in Writers \union {TreeOp, GC, None}
    PROVE  Inv'
<1>1. TypeStore'
    BY DEF Inv, TypeStore
<1>2. OpPart'
    BY DEF Inv, OpPart
<1>3. QED
    BY <1>1, <1>2, Frame DEF Inv, upl

\* So does every step of GC.
LEMMA GCInv == Inv /\ GCStep => Inv'
<1> SUFFICES ASSUME Inv, GCStep PROVE Inv'
    OBVIOUS
<1>1. /\ DBPart /\ TypeGC
      /\ IsTable(blobs, BlobNames, Hashes)
      /\ wlock \in Writers \union {TreeOp, GC, None}
    BY DEF Inv, TypeStore, OpPart
<1>2. /\ DOMAIN chunks \subseteq Ids
      /\ \A c \in DOMAIN chunks : chunks[c].blob \in BlobNames
    BY <1>1 DEF DBPart, DBOk, IsManifest, IsTable, Row, BlobNames
<1>3. NoGC \in [pc : {"idle", "maintenance", "write", "list", "scan", "protect", "rows", "blobs"},
                listed : SUBSET BlobNames, dead : SUBSET Ids,
                garbage : SUBSET BlobNames, failed : BOOLEAN]
    BY DEF NoGC
<1>4. CASE UNCHANGED <<db, blobs>> /\ TypeGC' /\ wlock' \in {wlock, GC, None}
              /\ UNCHANGED <<nextBlob, upl, op, backup>>
    BY <1>1, <1>4, Frame, OnlyGC DEF db
<1>5. CASE GCRequest
    BY <1>3, <1>4, <1>5 DEF GCRequest, TypeGC, store
<1>6. CASE GCLockMaintenance
    BY <1>1, <1>4, <1>6 DEF GCLockMaintenance, TypeGC, store
<1>7. CASE GCLockWrite
    BY <1>1, <1>4, <1>7 DEF GCLockWrite, TypeGC, store
<1>8. CASE GCList
    <2>1. DOMAIN blobs \subseteq BlobNames
        BY <1>1 DEF IsTable
    <2>2. TypeGC'
        BY <1>1, <1>3, <1>8, <2>1 DEF GCList, GCReturn, TypeGC
    <2>3. QED
        BY <1>4, <1>8, <2>2 DEF GCList, GCReturn, store
<1>9. CASE GCScan
    <2>1. PICK dead \in SUBSET Ids, garbage \in SUBSET BlobNames :
            gc' = [gc EXCEPT !.pc = "protect", !.dead = dead, !.garbage = garbage]
        <3>1. DOMAIN chunks \ Referenced(files) \in SUBSET Ids
            BY <1>2
        <3>2. {chunks[c].blob : c \in DOMAIN chunks \ Referenced(files)}
                \union (gc.listed \ {chunks[c].blob : c \in DOMAIN chunks}) \in SUBSET BlobNames
            BY <1>1, <1>2 DEF TypeGC
        <3>3. QED
            BY <1>9, <3>1, <3>2 DEF GCScan
    <2>2. TypeGC'
        BY <1>1, <2>1 DEF TypeGC
    <2>3. QED
        BY <1>4, <1>9, <2>2 DEF GCScan, store
<1>10. CASE GCProtect
    <2>1. PICK S : gc' = [gc EXCEPT !.pc = "rows", !.garbage = @ \ S]
        BY <1>10 DEF GCProtect
    <2>2. TypeGC'
        BY <1>1, <2>1 DEF TypeGC
    <2>3. QED
        BY <1>4, <1>10, <2>2 DEF GCProtect, store
<1>11. CASE GCDeleteRow
    <2>1. PICK c \in gc.dead : /\ RemoveChunks(DeleteChunkIds(chunks, c))
                               /\ gc' = [gc EXCEPT !.dead = @ \ {c}]
        BY <1>11 DEF GCDeleteRow
    <2>2. TypeGC'
        BY <1>1, <2>1 DEF TypeGC
    <2>3. DBPart'
        BY <1>1, <2>1, RemoveChunksOk DEF RemoveChunks, DBPart
    <2>4. QED
        BY <1>1, <1>11, <2>2, <2>3, OnlyGC DEF GCDeleteRow, store
<1>12. CASE GCRowsDone
    BY <1>1, <1>4, <1>12 DEF GCRowsDone, TypeGC, store
<1>13. CASE GCDeleteBlob
    <2>1. PICK b \in gc.garbage :
            /\ blobs' = Without(blobs, {b}) \/ blobs' = blobs
            /\ \/ gc' = [gc EXCEPT !.garbage = @ \ {b}]
               \/ gc' = [gc EXCEPT !.garbage = @ \ {b}, !.failed = TRUE]
        BY <1>13 DEF GCDeleteBlob
    <2>2. TypeGC'
        BY <1>1, <2>1 DEF TypeGC
    <2>3. IsTable(blobs', BlobNames, Hashes)
        BY <1>1, <2>1 DEF IsTable, Without
    <2>4. DBPart'
        BY <1>1, <1>13, Frame DEF GCDeleteBlob, db
    <2>5. QED
        BY <1>1, <1>13, <2>2, <2>3, <2>4, OnlyGC DEF GCDeleteBlob
<1>14. CASE GCFinish
    BY <1>3, <1>4, <1>14 DEF GCFinish, GCReturn, TypeGC, store
<1>15. CASE GCAbort
    BY <1>3, <1>4, <1>15 DEF GCAbort, GCReturn, TypeGC, store
<1>16. QED
    BY <1>5, <1>6, <1>7, <1>8, <1>9, <1>10, <1>11, <1>12, <1>13, <1>14, <1>15 DEF GCStep

-----------------------------------------------------------------------------
(* Meta backups.                                                           *)

\* A step of the backup task.
LEMMA OnlyBackup ==
    ASSUME Inv, UNCHANGED <<db, store, upl, wlock, op, gc>>,
           BkOk(bk'), SnapsOk(snaps'), verified' \in 0 .. MaxSnaps
    PROVE  Inv'
<1>1. BackupPart'
    BY DEF BackupPart
<1>2. QED
    BY <1>1, Frame DEF Inv, db, upl

\* The end of a backup, and a change of its phase.
LEMMA BkMoves ==
    ASSUME BkOk(bk)
    PROVE  /\ BackupReturn => BkOk(bk')
           /\ bk.pc # "idle" => \A q \in {"verify", "drop", "prune"} : BkOk([bk EXCEPT !.pc = q])
<1>1. DBOk(NoSnap.files, NoSnap.chunks)
    BY EmptyDB DEF NoSnap
<1>2. ASSUME BackupReturn
      PROVE  BkOk(bk')
    <2>1. bk' \in [pc : {"idle"}, snap : {NoSnap}, name : 0 .. MaxSnaps]
        BY <1>2 DEF BackupReturn, BkOk
    <2> HIDE DEF NoSnap
    <2>2. QED
        BY <1>1, <2>1 DEF BkOk
<1>3. ASSUME bk.pc # "idle", NEW q \in {"verify", "drop", "prune"}
      PROVE  BkOk([bk EXCEPT !.pc = q])
    BY <1>3 DEF BkOk
<1>4. QED
    BY <1>2, <1>3

\* Backup objects come and go.
LEMMA SnapsMove ==
    ASSUME SnapsOk(snaps)
    PROVE  /\ \A S : SnapsOk(Without(snaps, S))
           /\ BkOk(bk) /\ bk.pc # "idle" => SnapsOk(PutSnap(NoSnap)) /\ SnapsOk(PutSnap(bk.snap))
<1>1. DBOk(NoSnap.files, NoSnap.chunks)
    BY EmptyDB DEF NoSnap
<1>2. ASSUME NEW S PROVE SnapsOk(Without(snaps, S))
    BY DEF SnapsOk, Without
<1>3. ASSUME BkOk(bk), bk.pc # "idle", NEW s, DBOk(s.files, s.chunks)
      PROVE  SnapsOk(PutSnap(s))
    <2>1. bk.name \in 1 .. MaxSnaps
        BY <1>3, BoundsAssumption DEF BkOk
    <2>2. QED
        BY <1>3, <2>1 DEF SnapsOk, PutSnap
<1>4. QED
    BY <1>1, <1>2, <1>3 DEF BkOk

\* So does every step of a Meta backup, whatever becomes of its object.
LEMMA BackupInv == Inv /\ BackupStep => Inv'
<1> SUFFICES ASSUME Inv, BackupStep PROVE Inv'
    OBVIOUS
<1>1. /\ BkOk(bk) /\ SnapsOk(snaps)
      /\ verified \in 0 .. MaxSnaps
      /\ DBOk(files, chunks)
    BY DEF Inv, BackupPart, DBPart
<1>2. CASE BackupStart
    <2>1. DBOk(NoSnap.files, NoSnap.chunks)
        BY EmptyDB DEF NoSnap
    <2>2. bk.name + 1 \in 1 .. MaxSnaps
        BY <1>1, <1>2, BoundsAssumption DEF BackupStart, BkOk
    <2>3. bk' = [pc |-> "snapshot", snap |-> NoSnap, name |-> bk.name + 1]
        BY <1>2 DEF BackupStart
    <2>4. BkOk(bk')
        BY <2>1, <2>2, <2>3 DEF BkOk
    <2>5. QED
        BY <1>1, <1>2, <2>4, OnlyBackup DEF BackupStart
<1>3. CASE BackupSnapshot
    <2>1. CASE BackupReturn
        BY <1>1, <1>3, <2>1, BkMoves, OnlyBackup DEF BackupSnapshot
    <2>2. CASE bk' = [bk EXCEPT !.pc = "upload",
                                !.snap = [ok |-> TRUE, files |-> files, chunks |-> chunks]]
        <3>1. bk'.snap.files = files /\ bk'.snap.chunks = chunks
            BY <1>1, <2>2 DEF BkOk
        <3>2. BkOk(bk')
            BY <1>1, <1>3, <2>2, <3>1 DEF BackupSnapshot, BkOk
        <3>3. QED
            BY <1>1, <1>3, <3>2, OnlyBackup DEF BackupSnapshot
    <2>3. QED
        BY <1>3, <2>1, <2>2 DEF BackupSnapshot
<1>4. CASE BackupUpload
    <2>1. BkOk(bk')
        BY <1>1, <1>4, BkMoves DEF BackupUpload
    <2>2. SnapsOk(snaps')
        BY <1>1, <1>4, SnapsMove DEF BackupUpload
    <2>3. QED
        BY <1>1, <1>4, <2>1, <2>2, OnlyBackup DEF BackupUpload
<1>5. CASE BackupVerify
    <2>1. BkOk(bk')
        BY <1>1, <1>5, BkMoves DEF BackupVerify
    <2>2. verified' \in 0 .. MaxSnaps
        BY <1>1, <1>5 DEF BackupVerify, BkOk
    <2>3. QED
        BY <1>1, <1>5, <2>1, <2>2, OnlyBackup DEF BackupVerify
<1>6. CASE BackupDrop
    <2>1. BkOk(bk') /\ SnapsOk(snaps')
        BY <1>1, <1>6, BkMoves, SnapsMove DEF BackupDrop
    <2>2. QED
        BY <1>1, <1>6, <2>1, OnlyBackup DEF BackupDrop
<1>7. CASE BackupPrune
    <2>1. SnapsOk(snaps')
        BY <1>1, <1>7, SnapsMove DEF BackupPrune
    <2>2. QED
        BY <1>1, <1>7, <2>1, OnlyBackup DEF BackupPrune
<1>8. CASE BackupEnd
    <2>1. BkOk(bk')
        BY <1>1, <1>8, BkMoves DEF BackupEnd
    <2>2. QED
        BY <1>1, <1>8, <2>1, OnlyBackup DEF BackupEnd
<1>9. QED
    BY <1>2, <1>3, <1>4, <1>5, <1>6, <1>7, <1>8 DEF BackupStep

-----------------------------------------------------------------------------
(* Crashes and restores.                                                   *)

\* After the process died every part but the manifest's holds as in Init.
LEMMA DownInv ==
    ASSUME Inv, Down, DBPart'
    PROVE  Inv'
<1>1. TypeStore'
    BY Frame DEF Inv, Down
<1>2. NoTask \in GoodTasks
    BY BoundsAssumption DEF NoTask, GoodTasks, TaskStates, Uploading
<1>3. TaskPart'
    BY <1>2 DEF Down, TaskPart, GoodTasks
<1>4. PathPart'
    BY DEF Down, PathPart, Phases
<1>5. OpPart'
    BY DEF Down, OpPart, NoOp
<1>6. TypeGC'
    BY DEF Down, TypeGC, NoGC
<1>7. BackupPart'
    BY BkMoves DEF Inv, Down, BackupPart
<1>8. QED
    BY <1>1, <1>3, <1>4, <1>5, <1>6, <1>7 DEF Inv

\* So do a crash and the restore of a backup.
LEMMA CrashInv == Inv /\ (Crash \/ RestoreMeta) => Inv'
<1> SUFFICES ASSUME Inv, Crash \/ RestoreMeta PROVE Inv'
    OBVIOUS
<1>1. CASE Crash
    BY <1>1, Frame, DownInv DEF Inv, Crash, db
<1>2. CASE RestoreMeta
    <2>1. PICK n \in DOMAIN snaps : files' = snaps[n].files /\ chunks' = snaps[n].chunks
        BY <1>2 DEF RestoreMeta
    <2>2. DBOk(snaps[n].files, snaps[n].chunks)
        BY DEF Inv, BackupPart, SnapsOk
    <2>3. DBPart'
        BY <2>1, <2>2 DEF DBPart
    <2>4. QED
        BY <1>2, <2>3, DownInv DEF RestoreMeta
<1>3. QED
    BY <1>1, <1>2

-----------------------------------------------------------------------------
(* The theorems.                                                           *)

\* Inv is inductive.
LEMMA NextInv == Inv /\ [Next]_vars => Inv'
<1> SUFFICES ASSUME Inv, [Next]_vars PROVE Inv'
    OBVIOUS
<1>1. CASE UNCHANGED vars
    BY <1>1, Frame DEF Inv, vars, store, backup
<1>2. CASE Next
    BY <1>2, StoreChunkInv, PutInv, SessionInv, TreeInv, GCInv, BackupInv, CrashInv DEF Next
<1>3. QED
    BY <1>1, <1>2

\* The inductive invariant holds in every reachable state of the repository.
THEOREM RepoInv == Spec => []Inv
<1>1. Init => Inv
    BY InitInv
<1>2. Inv /\ [Next]_vars => Inv'
    BY NextInv
<1>3. QED
    BY <1>1, <1>2, PTL DEF Spec

\* Type correctness.  Its point is the refcount column: whatever uploads,
\* sessions, deletes, GC, cleanups, crashes and restores interleave, UpsertFile
\* and DeleteFile never drive a refcount below zero (the schema has no CHECK
\* that would stop them).
THEOREM RepoTypeOK == Spec => []TypeOK
<1>1. Inv => TypeOK
    BY InvImplies
<1>2. QED
    BY <1>1, RepoInv, PTL

\* The refcount the code maintains by increments and decrements in UpsertFile
\* and DeleteFile is the number of file_chunks rows, in every reachable state.
THEOREM RepoRefcountExact == Spec => []RefcountExact
<1>1. Inv => RefcountExact
    BY InvImplies
<1>2. QED
    BY <1>1, RepoInv, PTL

-----------------------------------------------------------------------------
(* No file ever loses a block: FilesWhole.                                 *)
(*                                                                         *)
(* Deleting a chunk row deletes the file blocks that name it (ON DELETE    *)
(* CASCADE), without an error.  That never happens because every deleted   *)
(* row is unreferenced when it is deleted: UpsertFile, DeleteFile and      *)
(* cleanupNewChunks look at an exact refcount in the same transaction; GC  *)
(* looks at the references once, and the locks keep them as they were      *)
(* until its last DELETE.                                                  *)

\* The two locks exclude each other's holders.
GCHolds  == {"list", "scan", "protect", "rows", "blobs"}
LockPart ==
    /\ \A w \in Puts : pc[w] # "idle" => gc.pc \in {"idle", "maintenance"}
    /\ \A w \in Puts : pc[w] = "commit" => wlock = w
    /\ \A w \in Sessions : pc[w] # "idle" => wlock = w
    /\ op.pc # "idle" => wlock = TreeOp
    /\ gc.pc \in GCHolds => wlock = GC

\* Rows GC is going to delete are not referenced.
DeadPart == gc.pc \in {"protect", "rows"} => \A c \in gc.dead : Unreferenced(files, c)

\* The blocks of a file being written are its first n.
BlockPart == \A w \in Writers :
    pc[w] \in {"store", "commit"} => \E n \in 0 .. MaxBody : Blocks(w) = 1 .. n

\* Block indices are 1..n in the manifest and in every snapshot.
Whole(fs) == \A p \in DOMAIN fs : Contiguous(fs[p])
WholePart == /\ Whole(files) /\ Whole(bk.snap.files)
             /\ \A n \in DOMAIN snaps : Whole(snaps[n].files)

FilesInv == Inv /\ LockPart /\ DeadPart /\ BlockPart /\ WholePart

-----------------------------------------------------------------------------
\* FilesWhole is a part of FilesInv.
LEMMA FilesInvImplies == FilesInv => FilesWhole
BY DEF FilesInv, WholePart, Whole, FilesWhole, Inv, DBPart, DBOk, DBInv, NoDangling

\* Initially there are no files and no holders.
LEMMA InitFiles == Init => FilesInv
<1> SUFFICES ASSUME Init PROVE FilesInv
    OBVIOUS
<1>1. Inv
    BY InitInv
<1>2. LockPart
    BY DEF Init, LockPart, Writers, NoOp, NoGC, GCHolds
<1>3. DeadPart
    BY DEF Init, DeadPart, NoGC
<1>4. BlockPart
    BY DEF Init, BlockPart
<1>5. DOMAIN << >> = {}
    OBVIOUS
<1>6. DOMAIN files = {} /\ DOMAIN snaps = {}
    BY <1>5 DEF Init
<1>7. DOMAIN bk.snap.files = {}
    BY <1>5 DEF Init, NoBk, NoSnap
<1>8. WholePart
    BY <1>6, <1>7 DEF WholePart, Whole
<1>9. QED
    BY <1>1, <1>2, <1>3, <1>4, <1>8 DEF FilesInv

-----------------------------------------------------------------------------
(* Locks: one step per group of actions.                                   *)

\* Only holders and waiters of the two locks matter.
LEMMA LockFrame ==
    LockPart /\ UNCHANGED <<pc, wlock, op, gc>> => LockPart'
BY DEF LockPart

\* An upload holds the maintenance lock from start to return and gives up the
\* write lock on every path that took it.
LEMMA PutLocks ==
    ASSUME Inv, LockPart, NEW w \in Puts, PutStep(w)
    PROVE  LockPart'
<1>1. /\ pc \in [Writers -> Phases]
      /\ w \in Writers /\ w \notin Sessions
      /\ w # TreeOp /\ w # GC /\ w # None
      /\ \A s \in Sessions : s \in Writers
      /\ \A v \in Puts : v \in Writers
    BY ActorsAssumption DEF Inv, PathPart, Writers
<1>2. CASE PutStart(w)
    BY <1>1, <1>2 DEF PutStart, LockPart, GCHolds
<1>3. CASE PutGiveUp(w)
    BY <1>1, <1>3 DEF PutGiveUp, LockPart
<1>4. CASE PutLock(w)
    BY <1>1, <1>4, ActorsAssumption DEF PutLock, LockPart, Writers
<1>5. CASE PutCommit(w)
    BY <1>1, <1>5, ActorsAssumption DEF PutCommit, LockPart, Writers
<1>6. CASE PutCommitFails(w)
    BY <1>1, <1>6 DEF PutCommitFails, LockPart
<1>7. CASE PutCleanup(w)
    BY <1>7, LockFrame DEF PutCleanup
<1>8. CASE PutFailed(w)
    BY <1>1, <1>8, ActorsAssumption DEF PutFailed, LockPart, Writers
<1>9. QED
    BY <1>2, <1>3, <1>4, <1>5, <1>6, <1>7, <1>8 DEF PutStep

\* A session holds the write lock from its start to its end.
LEMMA SessionLocks ==
    ASSUME Inv, LockPart, NEW w \in Sessions, SessionStep(w)
    PROVE  LockPart'
<1>1. /\ pc \in [Writers -> Phases]
      /\ w \in Writers /\ w \notin Puts
      /\ w # TreeOp /\ w # GC /\ w # None
      /\ \A s \in Sessions : s \in Writers
      /\ \A v \in Puts : v \in Writers
    BY ActorsAssumption DEF Inv, PathPart, Writers
<1>2. CASE SessionStart(w)
    BY <1>1, <1>2, ActorsAssumption DEF SessionStart, LockPart, Writers
<1>3. CASE SessionFile(w)
    BY <1>1, <1>3 DEF SessionFile, LockPart
<1>4. CASE SessionUpsert(w)
    BY <1>1, <1>4 DEF SessionUpsert, LockPart
<1>5. CASE SessionDelete(w)
    BY <1>5, LockFrame DEF SessionDelete, upl
<1>6. CASE SessionEnd(w)
    BY <1>1, <1>6, ActorsAssumption DEF SessionEnd, LockPart, Writers
<1>7. QED
    BY <1>2, <1>3, <1>4, <1>5, <1>6 DEF SessionStep

\* DELETE and MOVE hold the write lock from start to end.
LEMMA TreeLocks == Inv /\ LockPart /\ TreeStep => LockPart'
<1> SUFFICES ASSUME Inv, LockPart, TreeStep PROVE LockPart'
    OBVIOUS
<1>1. /\ op.pc \in {"idle", "delete", "move"}
      /\ op \in [pc : {"idle", "delete", "move"}, del : SUBSET Paths,
                 src : Paths \union {None}, dst : Paths \union {None}]
      /\ \A s \in Writers : s # TreeOp /\ s # None
      /\ \A s \in Sessions \union Puts : s \in Writers
      /\ TreeOp # GC /\ GC # None
    BY ActorsAssumption DEF Inv, OpPart, Writers
<1>2. CASE DeletePathStart
    BY <1>1, <1>2 DEF DeletePathStart, LockPart, upl
<1>3. CASE MovePathStart
    BY <1>1, <1>3 DEF MovePathStart, LockPart, upl
<1>4. CASE TreeDeleteRow
    BY <1>1, <1>4 DEF TreeDeleteRow, LockPart, upl
<1>5. CASE MoveUpsert
    BY <1>1, <1>5 DEF MoveUpsert, LockPart, upl
<1>6. CASE TreeOpEnd
    BY <1>1, <1>6 DEF TreeOpEnd, LockPart, upl, NoOp
<1>7. QED
    BY <1>2, <1>3, <1>4, <1>5, <1>6 DEF TreeStep

\* GC takes the maintenance lock, then the write lock, and gives up both.
LEMMA GCLocks == Inv /\ LockPart /\ GCStep => LockPart'
<1> SUFFICES ASSUME Inv, LockPart, GCStep PROVE LockPart'
    OBVIOUS
<1>1. /\ gc \in [pc : {"idle", "maintenance", "write", "list", "scan", "protect", "rows", "blobs"},
                 listed : SUBSET BlobNames, dead : SUBSET Ids,
                 garbage : SUBSET BlobNames, failed : BOOLEAN]
      /\ \A s \in Writers : s # GC /\ s # None
      /\ \A s \in Sessions \union Puts : s \in Writers
      /\ TreeOp # GC /\ TreeOp # None /\ GC # None
    BY ActorsAssumption DEF Inv, TypeGC, Writers
<1>2. CASE GCRequest
    BY <1>1, <1>2 DEF GCRequest, LockPart, upl, NoGC, GCHolds
<1>3. CASE GCLockMaintenance
    BY <1>1, <1>3 DEF GCLockMaintenance, LockPart, upl, GCHolds
<1>4. CASE GCLockWrite
    BY <1>1, <1>4 DEF GCLockWrite, LockPart, upl, GCHolds
<1>5. CASE gc.pc \in GCHolds /\ gc'.pc \in GCHolds /\ UNCHANGED <<upl, wlock, op>>
    BY <1>1, <1>5 DEF LockPart, upl, GCHolds
<1>6. CASE gc.pc \in GCHolds /\ GCReturn /\ UNCHANGED <<upl, op>>
    BY <1>1, <1>6 DEF GCReturn, LockPart, upl, NoGC, GCHolds
<1>7. CASE GCList
    BY <1>1, <1>5, <1>6, <1>7 DEF GCList, GCHolds
<1>8. CASE GCScan
    BY <1>1, <1>5, <1>8 DEF GCScan, GCHolds
<1>9. CASE GCProtect
    BY <1>1, <1>5, <1>9 DEF GCProtect, GCHolds
<1>10. CASE GCDeleteRow
    BY <1>1, <1>5, <1>10 DEF GCDeleteRow, GCHolds
<1>11. CASE GCRowsDone
    BY <1>1, <1>5, <1>11 DEF GCRowsDone, GCHolds
<1>12. CASE GCDeleteBlob
    BY <1>1, <1>5, <1>12 DEF GCDeleteBlob, GCHolds
<1>13. CASE GCFinish
    BY <1>6, <1>13 DEF GCFinish, GCHolds
<1>14. CASE GCAbort
    BY <1>6, <1>14 DEF GCAbort, GCHolds
<1>15. QED
    BY <1>2, <1>3, <1>4, <1>7, <1>8, <1>9, <1>10, <1>11, <1>12, <1>13, <1>14 DEF GCStep

\* Neither a block task nor a backup takes a lock of LockPart; a crash frees all.
LEMMA OtherLocks ==
    ASSUME Inv, LockPart
    PROVE  /\ \A t \in Tasks : StoreChunk(t) => LockPart'
           /\ BackupStep => LockPart'
           /\ Down => LockPart'
<1>1. ASSUME NEW t \in Tasks, StoreChunk(t) PROVE LockPart'
    BY <1>1, LockFrame DEF StoreChunk, FindChunk, AbandonTask, Register, PutBlob, PutBlobFails,
       InsertRow, InsertFails, Refind, DropDuplicate
<1>2. ASSUME BackupStep PROVE LockPart'
    BY <1>2, LockFrame DEF BackupStep, BackupStart, BackupSnapshot, BackupUpload, BackupVerify,
       BackupDrop, BackupPrune, BackupEnd, upl
<1>3. ASSUME Down PROVE LockPart'
    BY <1>3 DEF Down, LockPart, NoOp, NoGC, GCHolds, Writers
<1>4. QED
    BY <1>1, <1>2, <1>3

-----------------------------------------------------------------------------
(* The blocks of a file being written.                                     *)

\* A block task neither starts nor clears a block.
LEMMA TasksStay ==
    ASSUME Inv, NEW t \in Tasks, StoreChunk(t), NEW u \in Tasks
    PROVE  task'[u].st = "none" <=> task[u].st = "none"
<1>1. /\ task \in [Tasks -> GoodTasks]
      /\ task[t] \in GoodTasks /\ task[u] \in GoodTasks
    BY DEF Inv, TaskPart
<1>2. \A r : r.st \in {"ok", "err"} /\ Publish(t, r) /\ task[t].st # "none"
                => (task'[u].st = "none" <=> task[u].st = "none")
    <2> SUFFICES ASSUME NEW r, r.st \in {"ok", "err"}, Publish(t, r), task[t].st # "none"
                 PROVE  task'[u].st = "none" <=> task[u].st = "none"
        OBVIOUS
    <2>1. CASE u = t
        BY <2>1 DEF Publish
    <2>2. CASE u # t /\ u \in Waiters(t)
        <3>1. task'[u] = [task[u] EXCEPT !.st = r.st, !.id = r.id]
            BY <2>2 DEF Publish
        <3>2. task'[u].st = r.st
            BY <1>1, <3>1 DEF GoodTasks
        <3>3. QED
            BY <2>2, <3>2 DEF Waiters
    <2>3. CASE u # t /\ u \notin Waiters(t)
        BY <2>3 DEF Publish
    <2>4. QED
        BY <2>1, <2>2, <2>3
<1>3. /\ Failed(t).st = "err"
      /\ [task[t] EXCEPT !.st = "ok"].st = "ok"
      /\ \A id : [task[t] EXCEPT !.st = "ok", !.id = id, !.new = TRUE].st = "ok"
    BY <1>1 DEF Failed, GoodTasks
<1>4. CASE FindChunk(t)
    BY <1>1, <1>4 DEF FindChunk, GoodTasks
<1>5. CASE AbandonTask(t)
    BY <1>1, <1>5 DEF AbandonTask, GoodTasks
<1>6. CASE Register(t)
    BY <1>1, <1>6 DEF Register, GoodTasks
<1>7. CASE PutBlob(t)
    BY <1>1, <1>7 DEF PutBlob, GoodTasks
<1>8. CASE PutBlobFails(t)
    BY <1>2, <1>3, <1>8 DEF PutBlobFails
<1>9. CASE InsertRow(t)
    BY <1>2, <1>3, <1>9 DEF InsertRow
<1>10. CASE InsertFails(t)
    BY <1>1, <1>10 DEF InsertFails, GoodTasks
<1>11. CASE Refind(t)
    BY <1>1, <1>2, <1>3, <1>11 DEF Refind, GoodTasks
<1>12. CASE DropDuplicate(t)
    BY <1>2, <1>3, <1>12 DEF DropDuplicate
<1>13. QED
    BY <1>4, <1>5, <1>6, <1>7, <1>8, <1>9, <1>10, <1>11, <1>12 DEF StoreChunk

\* The indices of a request body.
LEMMA StartBlocks ==
    ASSUME NEW w \in Writers, NEW body \in Bodies, StartTasks(w, body)
    PROVE  \E n \in 0 .. MaxBody : Blocks(w)' = 1 .. n
<1>1. PICK n \in 0 .. MaxBody : DOMAIN body = 1 .. n
    BY DEF Bodies
<1>2. 1 .. n \subseteq Idx
    BY BoundsAssumption DEF Idx
<1>3. ASSUME NEW i \in Idx
      PROVE  task'[<<w, i>>].st # "none" <=> i \in 1 .. n
    <2>1. task'[<<w, i>>] = IF i \in DOMAIN body
                            THEN [NoTask EXCEPT !.st = "todo", !.hash = body[i]] ELSE NoTask
        BY DEF StartTasks, Tasks
    <2>2. NoTask \in [st : {"none"}, hash : {None}, id : {0}, new : {FALSE}, blob : {0}]
        BY DEF NoTask
    <2>3. [NoTask EXCEPT !.st = "todo", !.hash = body[i]].st = "todo" /\ NoTask.st = "none"
        BY <2>2 DEF NoTask
    <2>4. QED
        BY <1>1, <2>1, <2>3
<1>4. Blocks(w)' = 1 .. n
    BY <1>2, <1>3 DEF Blocks
<1>5. QED
    BY <1>4

\* BlockPart survives every step that keeps the blocks of a writer together
\* with its phase, or gives it blocks 1..n, or ends it.
LEMMA BlocksKept ==
    ASSUME BlockPart,
           \A w \in Writers : \/ pc'[w] \notin {"store", "commit"}
                              \/ pc[w] \in {"store", "commit"} /\ Blocks(w)' = Blocks(w)
                              \/ \E n \in 0 .. MaxBody : Blocks(w)' = 1 .. n
    PROVE  BlockPart'
BY DEF BlockPart

\* Blocks are a function of the tasks of the writer.
LEMMA BlocksFrame ==
    ASSUME NEW w \in Writers, \A i \in Idx : task'[<<w, i>>].st = "none" <=> task[<<w, i>>].st = "none"
    PROVE  Blocks(w)' = Blocks(w)
BY DEF Blocks

\* Uploads and sessions start and end their blocks together with their phase.
LEMMA WriterBlocks ==
    ASSUME Inv, BlockPart, NEW w \in Writers
    PROVE  /\ PutStep(w) => BlockPart'
           /\ SessionStep(w) => BlockPart'
<1>1. pc \in [Writers -> Phases]
    BY DEF Inv, PathPart
<1>2. ASSUME UNCHANGED <<pc, task>> PROVE BlockPart'
    BY <1>2, BlocksFrame, BlocksKept
<1>3. ASSUME NEW q \in Phases, pc' = [pc EXCEPT ![w] = q], UNCHANGED task,
             q \in {"store", "commit"} => pc[w] \in {"store", "commit"}
      PROVE  BlockPart'
    BY <1>1, <1>3, BlocksFrame, BlocksKept
<1>4. ASSUME NEW body \in Bodies, pc' = [pc EXCEPT ![w] = "store"], StartTasks(w, body)
      PROVE  BlockPart'
    <2>1. \E n \in 0 .. MaxBody : Blocks(w)' = 1 .. n
        BY <1>4, StartBlocks
    <2>2. ASSUME NEW v \in Writers, v # w
          PROVE  Blocks(v)' = Blocks(v) /\ pc'[v] = pc[v]
        <3>1. \A i \in Idx : task'[<<v, i>>] = task[<<v, i>>]
            BY <1>4, <2>2 DEF StartTasks, Tasks
        <3>2. \A i \in Idx : task'[<<v, i>>].st = "none" <=> task[<<v, i>>].st = "none"
            BY <3>1
        <3>3. Blocks(v)' = Blocks(v)
            BY <3>2, BlocksFrame
        <3>4. pc'[v] = pc[v]
            BY <1>1, <1>4, <2>2
        <3>5. QED
            BY <3>3, <3>4
    <2>3. QED
        BY <2>1, <2>2, BlocksKept
<1>5. ASSUME NEW q \in {"idle", "session"}, pc' = [pc EXCEPT ![w] = q], ClearTasks(w)
      PROVE  BlockPart'
    <2>1. ASSUME NEW v \in Writers, v # w
          PROVE  Blocks(v)' = Blocks(v) /\ pc'[v] = pc[v]
        <3>1. \A i \in Idx : task'[<<v, i>>] = task[<<v, i>>]
            BY <1>5, <2>1 DEF ClearTasks, Tasks
        <3>2. \A i \in Idx : task'[<<v, i>>].st = "none" <=> task[<<v, i>>].st = "none"
            BY <3>1
        <3>3. Blocks(v)' = Blocks(v)
            BY <3>2, BlocksFrame
        <3>4. pc'[v] = pc[v]
            BY <1>1, <1>5, <2>1
        <3>5. QED
            BY <3>3, <3>4
    <2>2. pc'[w] \notin {"store", "commit"}
        BY <1>1, <1>5
    <2>3. QED
        BY <2>1, <2>2, BlocksKept
<1>6. ASSUME PutStep(w) PROVE BlockPart'
    <2>1. CASE PutStart(w)
        BY <1>4, <2>1 DEF PutStart
    <2>2. CASE PutGiveUp(w)
        BY <1>3, <2>2 DEF PutGiveUp, Phases
    <2>3. CASE PutLock(w)
        BY <1>3, <2>3 DEF PutLock, Phases
    <2>4. CASE PutCommit(w)
        BY <1>5, <2>4 DEF PutCommit
    <2>5. CASE PutCommitFails(w)
        BY <1>3, <2>5 DEF PutCommitFails, Phases
    <2>6. CASE PutCleanup(w)
        <3>1. PICK t \in TasksOf(w) : task' = [task EXCEPT ![t].new = FALSE]
            BY <2>6 DEF PutCleanup
        <3>2. t \in Tasks /\ task \in [Tasks -> GoodTasks]
            BY DEF TasksOf, Tasks, Inv, TaskPart
        <3>3. \A u \in Tasks : task'[u].st = task[u].st
            BY <3>1, <3>2 DEF GoodTasks
        <3>4. \A v \in Writers : Blocks(v)' = Blocks(v)
            BY <3>3 DEF Blocks, Tasks
        <3>5. QED
            BY <2>6, <3>4, BlocksKept DEF PutCleanup
    <2>7. CASE PutFailed(w)
        BY <1>5, <2>7 DEF PutFailed
    <2>8. QED
        BY <1>6, <2>1, <2>2, <2>3, <2>4, <2>5, <2>6, <2>7 DEF PutStep
<1>7. ASSUME SessionStep(w) PROVE BlockPart'
    <2>1. CASE SessionStart(w)
        BY <1>3, <2>1 DEF SessionStart, Phases
    <2>2. CASE SessionFile(w)
        BY <1>4, <2>2 DEF SessionFile
    <2>3. CASE SessionUpsert(w)
        BY <1>5, <2>3 DEF SessionUpsert
    <2>4. CASE SessionDelete(w)
        <3>1. UNCHANGED <<pc, task>>
            BY <2>4 DEF SessionDelete, upl
        <3>2. QED
            BY <1>2, <3>1
    <2>5. CASE SessionEnd(w)
        BY <1>5, <2>5 DEF SessionEnd
    <2>6. QED
        BY <1>7, <2>1, <2>2, <2>3, <2>4, <2>5 DEF SessionStep
<1>8. QED
    BY <1>6, <1>7

\* Block tasks, steps of others and a crash leave BlockPart true.
LEMMA OtherBlocks ==
    ASSUME Inv, BlockPart
    PROVE  /\ \A t \in Tasks : StoreChunk(t) => BlockPart'
           /\ UNCHANGED upl => BlockPart'
           /\ Down => BlockPart'
<1>1. ASSUME NEW t \in Tasks, StoreChunk(t) PROVE BlockPart'
    <2>1. \A w \in Writers : Blocks(w)' = Blocks(w)
        BY <1>1, TasksStay, BlocksFrame DEF Tasks
    <2>2. UNCHANGED pc
        BY <1>1 DEF StoreChunk, FindChunk, AbandonTask, Register, PutBlob, PutBlobFails,
           InsertRow, InsertFails, Refind, DropDuplicate
    <2>3. QED
        BY <2>1, <2>2, BlocksKept DEF BlockPart
<1>2. ASSUME UNCHANGED upl PROVE BlockPart'
    BY <1>2, BlocksFrame, BlocksKept DEF upl
<1>3. ASSUME Down PROVE BlockPart'
    BY <1>3 DEF Down, BlockPart
<1>4. QED
    BY <1>1, <1>2, <1>3

-----------------------------------------------------------------------------
(* The files.                                                              *)

\* A block list 1..n is contiguous; so is the empty one.
LEMMA ContiguousPrefix ==
    /\ \A refs, n : n \in Nat /\ DOMAIN refs = 1 .. n => Contiguous(refs)
    /\ Contiguous(<< >>)
<1>1. ASSUME NEW refs, NEW n \in Nat, DOMAIN refs = 1 .. n
      PROVE  Contiguous(refs)
    <2>1. Cardinality(1 .. n) = n
        <3>1. 1 \in Int /\ n \in Int
            OBVIOUS
        <3>2. Cardinality(1 .. n) = IF 1 > n THEN 0 ELSE n - 1 + 1
            BY <3>1, FS_Interval
        <3>3. QED
            BY <3>2
    <2>2. QED
        BY <1>1, <2>1 DEF Contiguous
<1>2. DOMAIN << >> = 1 .. 0
    OBVIOUS
<1>3. QED
    BY <1>1, <1>2

\* UpsertFile with a contiguous list, and DeleteFile, leave every file whole.
LEMMA TransactionsWhole ==
    ASSUME DBOk(files, chunks), Whole(files), NEW p, NEW refs, IsTable(refs, Idx, Int), Contiguous(refs)
    PROVE  /\ UpsertAllowed(files, chunks, p, refs) => Whole(UpsertFiles(files, chunks, p, refs))
           /\ Whole(DeleteFiles(files, chunks, p))
<1>1. Rows(chunks) /\ DBInv(files, chunks)
    BY ManifestRows DEF DBOk
<1>2. ASSUME UpsertAllowed(files, chunks, p, refs)
      PROVE  Whole(UpsertFiles(files, chunks, p, refs))
    <2> DEFINE gs == UpsertFiles(files, chunks, p, refs)
    <2>1. IsBlockList(refs)
        BY ListTyped
    <2>2. Keeps(files, chunks, p, gs, UpsertChunks(files, chunks, p, refs))
        BY <1>1, <1>2, <2>1, UpsertFileCorrect
    <2>3. DOMAIN gs = DOMAIN files \union {p} /\ gs[p] = refs
        BY DEF UpsertFiles
    <2> HIDE DEF gs
    <2>4. \A q \in DOMAIN gs : Contiguous(gs[q])
        BY <2>2, <2>3 DEF Keeps, Whole
    <2>5. QED
        BY <2>4 DEF Whole, gs
<1>3. Whole(DeleteFiles(files, chunks, p))
    <2> DEFINE gs == DeleteFiles(files, chunks, p)
    <2>1. /\ Keeps(files, chunks, p, gs, DeleteChunks(files, chunks, p))
          /\ DOMAIN gs = DOMAIN files \ {p}
        BY <1>1, DeleteFileCorrect
    <2> HIDE DEF gs
    <2>2. \A q \in DOMAIN gs : Contiguous(gs[q])
        BY <2>1 DEF Keeps, Whole
    <2>3. QED
        BY <2>2 DEF Whole, gs
<1>4. QED
    BY <1>2, <1>3

\* Deleting unreferenced rows touches no file, and frees no reference.
LEMMA CascadeNothing ==
    ASSUME DBOk(files, chunks), Whole(files), NEW dead, \A c \in dead : Unreferenced(files, c)
    PROVE  /\ Whole(Cascade(files, dead))
           /\ \A c : Unreferenced(files, c) => Unreferenced(Cascade(files, dead), c)
<1>1. Rows(chunks) /\ DBInv(files, chunks)
    BY ManifestRows DEF DBOk
<1>2. /\ DOMAIN Cascade(files, dead) = DOMAIN files
      /\ \A p \in DOMAIN files : Cascade(files, dead)[p] = files[p]
    <2>1. \A p \in DOMAIN files : Cascade(files, dead)[p] = files[p]
        <3> SUFFICES ASSUME NEW p \in DOMAIN files PROVE Cascade(files, dead)[p] = files[p]
            OBVIOUS
        <3>1. {j \in DOMAIN files[p] : files[p][j] \notin dead} = DOMAIN files[p]
            BY DEF Unreferenced, IdsOf
        <3>2. files[p] = [i \in DOMAIN files[p] |-> files[p][i]]
            BY <1>1 DEF DBInv, FiniteTables, IsBlockList
        <3>3. QED
            BY <3>1, <3>2 DEF Cascade
    <2>2. DOMAIN Cascade(files, dead) = DOMAIN files
        BY DEF Cascade
    <2>3. QED
        BY <2>1, <2>2
<1>3. QED
    BY <1>2 DEF Whole, Unreferenced

\* The rows cleanupNewChunks deletes are unreferenced.
LEMMA ZeroIdsUnreferenced ==
    ASSUME DBOk(files, chunks), NEW id
    PROVE  \A c \in DeleteChunkIfZeroIds(chunks, id) : Unreferenced(files, c)
BY ZeroIsUnreferenced DEF DeleteChunkIfZeroIds, DeleteChunkIds, DBOk

\* The list a writer commits is contiguous.
LEMMA CommitWhole ==
    ASSUME Inv, BlockPart, Whole(files), NEW w \in Writers, pc[w] \in {"store", "commit"},
           UpsertAllowed(files, chunks, path[w], ChunkRefs(w)),
           WriteFile(path[w], ChunkRefs(w), BodyOf(w))
    PROVE  Whole(files')
<1>1. DBOk(files, chunks)
    BY DEF Inv, DBPart
<1>2. PICK n \in Nat : Blocks(w) = 1 .. n
    BY BoundsAssumption DEF BlockPart
<1>3. DOMAIN ChunkRefs(w) = 1 .. n
    BY <1>2 DEF ChunkRefs
<1>4. Contiguous(ChunkRefs(w))
    BY <1>3, ContiguousPrefix
<1>5. ASSUME NEW i \in Blocks(w)
      PROVE  i \in Idx /\ task[<<w, i>>].id \in Int
    BY BoundsAssumption DEF Blocks, Tasks, Inv, TaskPart, GoodTasks
<1>6. IsTable(ChunkRefs(w), Idx, Int)
    BY <1>5 DEF ChunkRefs, IsTable
<1>7. QED
    BY <1>1, <1>4, <1>6, TransactionsWhole DEF WriteFile

\* Removing a path.
LEMMA RemoveWhole ==
    ASSUME DBOk(files, chunks), Whole(files), NEW p, RemoveFile(p)
    PROVE  Whole(files')
<1>1. DOMAIN << >> = {} /\ << >> \in [{} -> Int]
    OBVIOUS
<1>2. IsTable(<< >>, Idx, Int) /\ Contiguous(<< >>)
    BY <1>1, ContiguousPrefix DEF IsTable
<1>3. QED
    BY <1>2, TransactionsWhole DEF RemoveFile

-----------------------------------------------------------------------------
(* Every step keeps the files whole and GC's dead rows dead.               *)

FilesPart == DeadPart /\ WholePart

\* FilesPart speaks of the files, GC and the backups.
LEMMA FilesFrame ==
    /\ FilesPart /\ UNCHANGED <<files, gc, backup>> => FilesPart'
    /\ DeadPart /\ UNCHANGED <<files, gc>> => DeadPart'
    /\ WholePart /\ UNCHANGED <<files, backup>> => WholePart'
BY DEF FilesPart, DeadPart, WholePart, backup

\* A step of someone who keeps GC out may write.
LEMMA WriterFiles ==
    ASSUME FilesPart, Whole(files'), UNCHANGED <<gc, backup>>, gc.pc \notin {"protect", "rows"}
    PROVE  FilesPart'
BY DEF FilesPart, DeadPart, WholePart, backup

\* PutFile's commit and cleanupNewChunks leave every file whole.
LEMMA PutFiles ==
    ASSUME Inv, LockPart, BlockPart, FilesPart, NEW w \in Puts, PutStep(w)
    PROVE  FilesPart'
<1>1. w \in Writers /\ DBOk(files, chunks) /\ Whole(files)
    BY DEF Writers, Inv, DBPart, FilesPart, WholePart
<1>2. CASE PutCommit(w)
    <2>1. gc.pc \notin {"protect", "rows"}
        BY <1>2 DEF PutCommit, LockPart
    <2>2. Whole(files')
        BY <1>1, <1>2, CommitWhole DEF PutCommit
    <2>3. QED
        BY <1>2, <2>1, <2>2, WriterFiles DEF PutCommit
<1>3. CASE PutCleanup(w)
    <2>1. gc.pc \notin {"protect", "rows"}
        BY <1>3 DEF PutCleanup, LockPart
    <2>2. PICK t \in TasksOf(w) : \/ RemoveChunks(DeleteChunkIfZeroIds(chunks, task[t].id))
                                  \/ UNCHANGED db
        BY <1>3 DEF PutCleanup
    <2>3. Whole(files')
        BY <1>1, <2>2, ZeroIdsUnreferenced, CascadeNothing DEF RemoveChunks, db
    <2>4. QED
        BY <1>3, <2>1, <2>3, WriterFiles DEF PutCleanup
<1>4. CASE UNCHANGED <<files, gc, backup>>
    BY <1>4, FilesFrame
<1>5. QED
    BY <1>2, <1>3, <1>4 DEF PutStep, PutStart, PutGiveUp, PutLock, PutCommitFails, PutFailed, db

\* So do the upserts and deletes of an rsync session.
LEMMA SessionFiles ==
    ASSUME Inv, LockPart, BlockPart, FilesPart, NEW w \in Sessions, SessionStep(w)
    PROVE  FilesPart'
<1>1. w \in Writers /\ DBOk(files, chunks) /\ Whole(files)
    BY DEF Writers, Inv, DBPart, FilesPart, WholePart
<1>2. pc[w] # "idle" => gc.pc \notin {"protect", "rows"}
    BY ActorsAssumption DEF LockPart, GCHolds, Writers
<1>3. CASE SessionUpsert(w)
    <2>1. Whole(files')
        BY <1>1, <1>3, CommitWhole DEF SessionUpsert
    <2>2. QED
        BY <1>2, <1>3, <2>1, WriterFiles DEF SessionUpsert
<1>4. CASE SessionDelete(w)
    <2>1. Whole(files')
        BY <1>1, <1>4, RemoveWhole DEF SessionDelete
    <2>2. QED
        BY <1>2, <1>4, <2>1, WriterFiles DEF SessionDelete
<1>5. CASE UNCHANGED <<files, gc, backup>>
    BY <1>5, FilesFrame
<1>6. QED
    BY <1>3, <1>4, <1>5 DEF SessionStep, SessionStart, SessionFile, SessionEnd, db

\* So do the row transactions of DELETE and MOVE.
LEMMA TreeFiles == Inv /\ LockPart /\ FilesPart /\ TreeStep => FilesPart'
<1> SUFFICES ASSUME Inv, LockPart, FilesPart, TreeStep PROVE FilesPart'
    OBVIOUS
<1>1. DBOk(files, chunks) /\ Whole(files) /\ IsManifest(files, chunks)
    BY DEF Inv, DBPart, DBOk, FilesPart, WholePart
<1>2. op.pc # "idle" => gc.pc \notin {"protect", "rows"}
    BY ActorsAssumption DEF LockPart, GCHolds
<1>3. CASE TreeDeleteRow
    <2>1. Whole(files')
        BY <1>1, <1>3, RemoveWhole DEF TreeDeleteRow
    <2>2. QED
        BY <1>2, <1>3, <2>1, WriterFiles DEF TreeDeleteRow
<1>4. CASE MoveUpsert
    <2>1. Contiguous(GetFileChunks(files, op.src))
        BY <1>1, ContiguousPrefix DEF GetFileChunks, Whole
    <2>2. IsTable(GetFileChunks(files, op.src), Idx, Int)
        BY <1>1, GetFileChunksTyped
    <2>3. Whole(files')
        BY <1>1, <1>4, <2>1, <2>2, TransactionsWhole DEF MoveUpsert, WriteFile
    <2>4. QED
        BY <1>2, <1>4, <2>3, WriterFiles DEF MoveUpsert
<1>5. CASE UNCHANGED <<files, gc, backup>>
    BY <1>5, FilesFrame
<1>6. QED
    BY <1>3, <1>4, <1>5 DEF TreeStep, DeletePathStart, MovePathStart, TreeOpEnd, db

\* So does GC: what it deletes was unreferenced at its scan and still is.
LEMMA GCFiles == Inv /\ FilesPart /\ GCStep => FilesPart'
<1> SUFFICES ASSUME Inv, FilesPart, GCStep PROVE FilesPart'
    OBVIOUS
<1>1. /\ DBOk(files, chunks) /\ Whole(files) /\ WholePart
      /\ gc \in [pc : {"idle", "maintenance", "write", "list", "scan", "protect", "rows", "blobs"},
                 listed : SUBSET BlobNames, dead : SUBSET Ids,
                 garbage : SUBSET BlobNames, failed : BOOLEAN]
    BY DEF Inv, DBPart, FilesPart, WholePart, TypeGC
<1>2. CASE UNCHANGED <<files, backup>> /\ gc'.pc \notin {"protect", "rows"}
    BY <1>1, <1>2, FilesFrame DEF FilesPart, DeadPart
<1>3. CASE GCScan
    <2>1. gc'.dead = DOMAIN chunks \ Referenced(files)
        BY <1>1, <1>3 DEF GCScan
    <2>2. \A c \in gc'.dead : Unreferenced(files, c)
        BY <2>1 DEF Referenced, Unreferenced
    <2>3. UNCHANGED <<files, backup>>
        BY <1>3 DEF GCScan, db
    <2>4. QED
        BY <1>1, <2>2, <2>3, FilesFrame DEF FilesPart, DeadPart
<1>4. CASE GCProtect
    <2>1. gc'.dead = gc.dead
        BY <1>1, <1>4 DEF GCProtect
    <2>2. UNCHANGED <<files, backup>> /\ gc.pc = "protect"
        BY <1>4 DEF GCProtect, db
    <2>3. QED
        BY <1>1, <2>1, <2>2, FilesFrame DEF FilesPart, DeadPart
<1>5. CASE GCDeleteRow
    <2>1. PICK c \in gc.dead : /\ RemoveChunks(DeleteChunkIds(chunks, c))
                               /\ gc' = [gc EXCEPT !.dead = @ \ {c}]
        BY <1>5 DEF GCDeleteRow
    <2>2. \A d \in gc.dead : Unreferenced(files, d)
        BY <1>5 DEF GCDeleteRow, FilesPart, DeadPart
    <2>3. \A d \in DeleteChunkIds(chunks, c) : Unreferenced(files, d)
        BY <2>2 DEF DeleteChunkIds
    <2>4. /\ Whole(files')
          /\ \A d : Unreferenced(files, d) => Unreferenced(files', d)
        BY <1>1, <2>1, <2>3, CascadeNothing DEF RemoveChunks
    <2>5. gc'.dead \subseteq gc.dead
        BY <1>1, <2>1
    <2>6. DeadPart'
        BY <2>2, <2>4, <2>5 DEF DeadPart
    <2>7. WholePart'
        BY <1>1, <1>5, <2>4 DEF GCDeleteRow, WholePart, backup
    <2>8. QED
        BY <2>6, <2>7 DEF FilesPart
<1>6. CASE GCRequest \/ GCLockMaintenance \/ GCLockWrite \/ GCList \/ GCRowsDone \/ GCDeleteBlob
           \/ GCFinish \/ GCAbort
    <2>1. NoGC.pc = "idle"
        BY DEF NoGC
    <2>2. gc'.pc \notin {"protect", "rows"}
        BY <1>1, <1>6, <2>1 DEF GCRequest, GCLockMaintenance, GCLockWrite, GCList, GCRowsDone,
           GCDeleteBlob, GCFinish, GCAbort, GCReturn, NoGC
    <2>3. UNCHANGED <<files, backup>>
        BY <1>6 DEF GCRequest, GCLockMaintenance, GCLockWrite, GCList, GCRowsDone,
           GCDeleteBlob, GCFinish, GCAbort, db
    <2>4. QED
        BY <1>2, <2>2, <2>3
<1>7. QED
    BY <1>3, <1>4, <1>5, <1>6 DEF GCStep

\* A backup holds a manifest that ValidateSnapshot accepted, or nothing.
LEMMA BackupFiles == Inv /\ FilesPart /\ BackupStep => FilesPart'
<1> SUFFICES ASSUME Inv, FilesPart, BackupStep PROVE FilesPart'
    OBVIOUS
<1>1. /\ bk \in [pc : {"idle", "snapshot", "upload", "verify", "drop", "prune"},
                 snap : {bk.snap}, name : 0 .. MaxSnaps]
      /\ Whole(files) /\ Whole(bk.snap.files) /\ DeadPart
      /\ \A n \in DOMAIN snaps : Whole(snaps[n].files)
    BY DEF Inv, BackupPart, BkOk, FilesPart, WholePart
<1>2. Whole(NoSnap.files)
    <2>1. DOMAIN << >> = {}
        OBVIOUS
    <2>2. DOMAIN NoSnap.files = {}
        BY <2>1 DEF NoSnap
    <2>3. QED
        BY <2>2 DEF Whole
<1>3. UNCHANGED <<files, gc>>
    BY DEF BackupStep, BackupStart, BackupSnapshot, BackupUpload, BackupVerify, BackupDrop,
       BackupPrune, BackupEnd, db
<1>4. ASSUME Whole(bk'.snap.files), \A n \in DOMAIN snaps' : Whole(snaps'[n].files)
      PROVE  FilesPart'
    BY <1>1, <1>3, <1>4, FilesFrame DEF FilesPart, WholePart
<1>5. BackupReturn => bk'.snap = NoSnap
    BY <1>1 DEF BackupReturn
<1>6. ASSUME NEW S, snaps' = Without(snaps, S)
      PROVE  \A n \in DOMAIN snaps' : Whole(snaps'[n].files)
    BY <1>1, <1>6 DEF Without
<1>7. ASSUME NEW s, Whole(s.files), snaps' = PutSnap(s)
      PROVE  \A n \in DOMAIN snaps' : Whole(snaps'[n].files)
    BY <1>1, <1>7 DEF PutSnap
<1>8. CASE BackupStart
    <2>1. bk'.snap = NoSnap /\ snaps' = snaps
        BY <1>8 DEF BackupStart
    <2>2. QED
        BY <1>1, <1>2, <1>4, <2>1
<1>9. CASE BackupSnapshot
    <2>1. snaps' = snaps
        BY <1>9 DEF BackupSnapshot
    <2>2. CASE BackupReturn
        BY <1>1, <1>2, <1>4, <1>5, <2>1, <2>2
    <2>3. CASE bk' = [bk EXCEPT !.pc = "upload",
                                !.snap = [ok |-> TRUE, files |-> files, chunks |-> chunks]]
        <3>1. bk'.snap.files = files
            BY <1>1, <2>3
        <3>2. QED
            BY <1>1, <1>4, <2>1, <3>1
    <2>4. QED
        BY <1>9, <2>2, <2>3 DEF BackupSnapshot
<1>10. CASE BackupUpload
    <2>1. bk'.snap = bk.snap
        BY <1>1, <1>10 DEF BackupUpload
    <2>2. \A n \in DOMAIN snaps' : Whole(snaps'[n].files)
        BY <1>1, <1>2, <1>7, <1>10 DEF BackupUpload
    <2>3. QED
        BY <1>1, <1>4, <2>1, <2>2
<1>11. CASE BackupVerify
    <2>1. bk'.snap = bk.snap /\ snaps' = snaps
        BY <1>1, <1>11 DEF BackupVerify
    <2>2. QED
        BY <1>1, <1>4, <2>1
<1>12. CASE BackupDrop
    <2>1. bk'.snap = NoSnap
        BY <1>5, <1>12 DEF BackupDrop
    <2>2. \A n \in DOMAIN snaps' : Whole(snaps'[n].files)
        BY <1>1, <1>6, <1>12 DEF BackupDrop
    <2>3. QED
        BY <1>2, <1>4, <2>1, <2>2
<1>13. CASE BackupPrune
    <2>1. bk' = bk /\ \A n \in DOMAIN snaps' : Whole(snaps'[n].files)
        BY <1>6, <1>13 DEF BackupPrune
    <2>2. QED
        BY <1>1, <1>4, <2>1
<1>14. CASE BackupEnd
    <2>1. bk'.snap = NoSnap /\ snaps' = snaps
        BY <1>5, <1>14 DEF BackupEnd
    <2>2. QED
        BY <1>1, <1>2, <1>4, <2>1
<1>15. QED
    BY <1>8, <1>9, <1>10, <1>11, <1>12, <1>13, <1>14 DEF BackupStep

\* A crash keeps the manifest, a restore takes that of a backup.
LEMMA CrashFiles == Inv /\ FilesPart /\ (Crash \/ RestoreMeta) => FilesPart'
<1> SUFFICES ASSUME Inv, FilesPart, Crash \/ RestoreMeta PROVE FilesPart'
    OBVIOUS
<1>1. Down
    BY DEF Crash, RestoreMeta
<1>2. DeadPart'
    BY <1>1 DEF Down, DeadPart, NoGC
<1>3. bk'.snap = NoSnap /\ snaps' = snaps
    <2>1. bk' \in [pc : {"idle"}, snap : {NoSnap}, name : 0 .. MaxSnaps]
        BY <1>1 DEF Inv, BackupPart, BkOk, Down, BackupReturn
    <2>2. QED
        BY <1>1, <2>1 DEF Down
<1>4. Whole(NoSnap.files)
    <2>1. DOMAIN << >> = {}
        OBVIOUS
    <2>2. DOMAIN NoSnap.files = {}
        BY <2>1 DEF NoSnap
    <2>3. QED
        BY <2>2 DEF Whole
<1>5. Whole(files')
    BY DEF Crash, RestoreMeta, db, FilesPart, WholePart
<1>6. WholePart'
    BY <1>3, <1>4, <1>5 DEF FilesPart, WholePart
<1>7. QED
    BY <1>2, <1>6 DEF FilesPart

-----------------------------------------------------------------------------
(* The theorem.                                                            *)

\* FilesInv is inductive.
LEMMA NextFiles == FilesInv /\ [Next]_vars => FilesInv'
<1> SUFFICES ASSUME FilesInv, [Next]_vars PROVE FilesInv'
    OBVIOUS
<1>1. Inv /\ LockPart /\ BlockPart /\ FilesPart
    BY DEF FilesInv, FilesPart
<1>2. Inv'
    BY <1>1, NextInv
<1>3. SUFFICES LockPart' /\ BlockPart' /\ FilesPart'
    BY <1>2, <1>3 DEF FilesInv, FilesPart
<1>4. CASE UNCHANGED vars
    <2>1. /\ UNCHANGED <<pc, wlock, op, gc>>
          /\ UNCHANGED upl
          /\ UNCHANGED <<files, gc, backup>>
        BY <1>4 DEF vars, upl, backup
    <2>2. QED
        BY <1>1, <2>1, LockFrame, OtherBlocks, FilesFrame
<1>5. ASSUME NEW t \in Tasks, StoreChunk(t)
      PROVE  LockPart' /\ BlockPart' /\ FilesPart'
    <2>1. UNCHANGED <<files, gc, backup>>
        BY <1>5 DEF StoreChunk, FindChunk, AbandonTask, Register, PutBlob, PutBlobFails,
           InsertRow, InsertFails, Refind, DropDuplicate, db
    <2>2. QED
        BY <1>1, <1>5, <2>1, OtherLocks, OtherBlocks, FilesFrame
<1>6. ASSUME NEW w \in Puts, PutStep(w)
      PROVE  LockPart' /\ BlockPart' /\ FilesPart'
    <2>1. w \in Writers
        BY DEF Writers
    <2>2. BlockPart'
        BY <1>1, <1>6, <2>1, WriterBlocks
    <2>3. LockPart' /\ FilesPart'
        BY <1>1, <1>6, PutLocks, PutFiles
    <2>4. QED
        BY <2>2, <2>3
<1>7. ASSUME NEW w \in Sessions, SessionStep(w)
      PROVE  LockPart' /\ BlockPart' /\ FilesPart'
    <2>1. w \in Writers
        BY DEF Writers
    <2>2. BlockPart'
        BY <1>1, <1>7, <2>1, WriterBlocks
    <2>3. LockPart' /\ FilesPart'
        BY <1>1, <1>7, SessionLocks, SessionFiles
    <2>4. QED
        BY <2>2, <2>3
<1>8. CASE TreeStep
    <2>1. UNCHANGED upl
        BY <1>8 DEF TreeStep, DeletePathStart, MovePathStart, TreeDeleteRow, MoveUpsert, TreeOpEnd
    <2>2. QED
        BY <1>1, <1>8, <2>1, TreeLocks, OtherBlocks, TreeFiles
<1>9. CASE GCStep
    <2>1. UNCHANGED upl
        BY <1>9 DEF GCStep, GCRequest, GCLockMaintenance, GCLockWrite, GCList, GCScan, GCProtect,
           GCDeleteRow, GCRowsDone, GCDeleteBlob, GCFinish, GCAbort
    <2>2. QED
        BY <1>1, <1>9, <2>1, GCLocks, OtherBlocks, GCFiles
<1>10. CASE BackupStep
    <2>1. UNCHANGED upl
        BY <1>10 DEF BackupStep, BackupStart, BackupSnapshot, BackupUpload, BackupVerify,
           BackupDrop, BackupPrune, BackupEnd
    <2>2. QED
        BY <1>1, <1>10, <2>1, OtherLocks, OtherBlocks, BackupFiles
<1>11. CASE Crash \/ RestoreMeta
    <2>1. Down
        BY <1>11 DEF Crash, RestoreMeta
    <2>2. QED
        BY <1>1, <1>11, <2>1, OtherLocks, OtherBlocks, CrashFiles
<1>12. QED
    BY <1>4, <1>5, <1>6, <1>7, <1>8, <1>9, <1>10, <1>11 DEF Next

\* No file block disappears through the cascade of file_chunks and no block is
\* left without its chunk row, whatever uploads, sessions, DELETE, MOVE, GC,
\* cleanups, backups, crashes and restores interleave.
THEOREM RepoFilesWhole == Spec => []FilesWhole
<1>1. Init => FilesInv
    BY InitFiles
<1>2. FilesInv /\ [Next]_vars => FilesInv'
    BY NextFiles
<1>3. FilesInv => FilesWhole
    BY FilesInvImplies
<1>4. QED
    BY <1>1, <1>2, <1>3, PTL DEF Spec
=============================================================================
