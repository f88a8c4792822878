------------------------------ MODULE PathTree ------------------------------
(***************************************************************************)
(* The manifest as a tree of paths: Mkcol, DeletePath, MovePath and the     *)
(* last phase of PutFile (internal/core/repo/repo.go) as the WebDAV front   *)
(* end calls them (internal/front/webdav), for several clients at once.     *)
(* Every row is a transaction of its own; a collection is deleted and moved *)
(* row by row under the write lock.  MOVE and COPY of x/net/webdav consist  *)
(* of several such calls, and the lock is free in between.                  *)
(***************************************************************************)
EXTENDS Integers, Sequences, SequencesExt

CONSTANTS
    Clients,
    Names,
    Paths,         \* non-empty sequences of names, closed under Parent
    Bodies,        \* contents of files
    None, Dir, Part,   \* no row, a collection, a file that is not whole
    Trees,         \* manifests to begin with
    Moves,         \* pairs of paths a MOVE or COPY is asked for
    MaxRequests,   \* bound: requests
    MaxFaults      \* bound: failed transactions, failed reads and crashes

Parent(p)  == Front(p)
Under(r)   == {p \in Paths : IsPrefix(r, p)}
Image(p, src, dst) == dst \o SubSeq(p, Len(src) + 1, Len(p))

\* Every row is in a collection, or at the top.
Connected(t) == \A p \in Paths : (t[p] # None /\ Len(p) > 1) => t[Parent(p)] = Dir

ASSUME TreeAssumption ==
    /\ IsFiniteSet(Paths) /\ Paths \subseteq Seq(Names) \ {<< >>}
    /\ \A p \in Paths : Len(p) > 1 => Parent(p) \in Paths
    /\ \A m \in Moves : /\ m \in Paths \X Paths /\ m[1] # m[2]
                        /\ {Image(p, m[1], m[2]) : p \in Under(m[1])} \subseteq Paths
    /\ \A t \in Trees : t = [p \in Paths |-> t[p]] /\ Connected(t)
    /\ None \notin Clients /\ None # Dir
    /\ {MaxRequests, MaxFaults} \subseteq Nat

VARIABLES
    tree,      \* path -> None, Dir or the contents of a file
    holder,    \* client whose request holds the write lock, or None
    call,      \* client -> calls left of its request; of a DELETE or MOVE that holds the
               \* lock, the rows to be deleted next and the rows still to be moved
    before,    \* tree when the lock was taken: the rows that FileRows returned
    torn,      \* ghost: a call stopped in the middle, or PUT hit a collection that was not empty
    requests, faults

vars == <<tree, holder, call, before, torn, requests, faults>>

NoTree == [p \in Paths |-> None]
Idle == [todo |-> << >>, gone |-> {}, moves |-> {}]

Init ==
    /\ tree \in Trees
    /\ holder = None
    /\ call = [c \in Clients |-> Idle]
    /\ before = NoTree /\ torn = FALSE
    /\ requests = 0 /\ faults = 0

Rows(t, p) == {r \in Under(p) : t[r] # None}

Call(op, path)     == [op |-> op, path |-> path, dst |-> path, node |-> None]
To(op, path, dst)  == [Call(op, path) EXCEPT !.dst = dst]
Put(path, node)    == [Call("put", path) EXCEPT !.node = node]

Calling(c, op) == call[c].todo # << >> /\ Head(call[c].todo).op = op
Now(c)         == Head(call[c].todo)
Return(c)      == call' = [call EXCEPT ![c] = [Idle EXCEPT !.todo = Tail(call[c].todo)]]
Expand(c, s)   == call' = [call EXCEPT ![c].todo = s \o Tail(@)]
Fails(c)       == call' = [call EXCEPT ![c] = Idle]
Fault          == faults < MaxFaults /\ faults' = faults + 1

Requests ==
    {Put(p, b) : p \in Paths, b \in Bodies}
    \union {Call(o, p) : o \in {"mkcol", "delete"}, p \in Paths}
    \union {To(o, m[1], m[2]) : o \in {"MOVE", "COPY"}, m \in Moves}

Request(c) ==
    /\ call[c] = Idle /\ requests < MaxRequests /\ requests' = requests + 1
    /\ \E op \in Requests : call' = [call EXCEPT ![c].todo = <<op>>]
    /\ UNCHANGED <<tree, holder, before, torn, faults>>

-----------------------------------------------------------------------------
(* x/net/webdav: what MOVE and COPY call.                                   *)

Delete(p) == IF tree[p] = None THEN << >> ELSE <<Call("delete", p)>>

\* moveFiles: Stat, RemoveAll and Rename.
MoveFiles(c) ==
    /\ Calling(c, "MOVE")
    /\ Expand(c, Delete(Now(c).dst) \o <<To("rename", Now(c).path, Now(c).dst)>>)
    /\ UNCHANGED <<tree, holder, before, torn, requests, faults>>

\* copyFiles: the source is opened, the target removed and made again.  A file is
\* collected in a temporary file; Close stores it, also when reading stopped early.
CopyFiles(c) ==
    /\ Calling(c, "COPY")
    /\ LET src == Now(c).path
           dst == Now(c).dst
       IN \/ tree[src] = None /\ Fails(c) /\ UNCHANGED faults
          \/ tree[src] = Dir /\ UNCHANGED faults
             /\ Expand(c, Delete(dst) \o <<Call("mkcol", dst), To("children", src, dst)>>)
          \/ /\ tree[src] \notin {None, Dir} /\ UNCHANGED faults
             /\ Expand(c, Delete(dst) \o <<Put(dst, tree[src])>>)
          \/ /\ tree[src] \notin {None, Dir} /\ Fault
             /\ call' = [call EXCEPT ![c].todo = Delete(dst) \o <<Put(dst, Part)>>]
    /\ UNCHANGED <<tree, holder, before, torn, requests>>

\* Readdir, and the same for every child.
CopyChildren(c) ==
    /\ Calling(c, "children")
    /\ LET src == Now(c).path
           ListDir == SetToSeq({r \in Rows(tree, src) : Len(r) = Len(src) + 1})
       IN Expand(c, [i \in DOMAIN ListDir |->
                        To("COPY", ListDir[i], Append(Now(c).dst, Last(ListDir[i])))])
    /\ UNCHANGED <<tree, holder, before, torn, requests, faults>>

-----------------------------------------------------------------------------
(* The repository.                                                          *)

ParentExists(p) == Len(p) > 1 => tree[Parent(p)] # None   \* mutant: a file will do

\* checkParentDir
ParentIsDir(p) == Len(p) > 1 => tree[Parent(p)] = Dir

\* PutFileContext, second phase.  Uploading the blocks came before and took no lock.
PutFile(c) ==
    /\ Calling(c, "put") /\ holder = None
    /\ LET p == Now(c).path
       IN \/ /\ ParentIsDir(p) /\ UNCHANGED faults
             /\ tree' = [tree EXCEPT ![p] = Now(c).node]
             /\ torn' = (torn \/ (tree[p] = Dir /\ Rows(tree, p) # {p}))
             /\ Return(c)
          \/ ~ParentIsDir(p) /\ Fails(c) /\ UNCHANGED <<tree, torn, faults>>
          \/ Fault /\ Fails(c) /\ UNCHANGED <<tree, torn>>
    /\ UNCHANGED <<holder, before, requests>>

\* Nothing to do if there is a row already, of whatever kind.
Mkcol(c) ==
    /\ Calling(c, "mkcol") /\ holder = None
    /\ LET p == Now(c).path
       IN \/ /\ ParentIsDir(p) /\ UNCHANGED faults
             /\ tree' = IF tree[p] = None THEN [tree EXCEPT ![p] = Dir] ELSE tree
             /\ Return(c)
          \/ ~ParentIsDir(p) /\ Fails(c) /\ UNCHANGED <<tree, faults>>
          \/ Fault /\ Fails(c) /\ UNCHANGED tree
    /\ UNCHANGED <<holder, before, torn, requests>>

\* FileRows are read once, under the lock.
Locks(c, gone, moves) ==
    /\ holder' = c /\ before' = tree
    /\ call' = [call EXCEPT ![c].gone = gone, ![c].moves = moves]
    /\ UNCHANGED <<tree, torn, requests, faults>>

\* Success if there is no such row.
DeletePath(c) ==
    /\ Calling(c, "delete") /\ holder = None
    /\ \/ tree[Now(c).path] # None /\ Locks(c, Rows(tree, Now(c).path), {})
       \/ /\ tree[Now(c).path] = None /\ Return(c)
          /\ UNCHANGED <<tree, holder, before, torn, requests, faults>>

NoTargets(src, dst)  == {}   \* mutant: what is at the target stays
AllTargets(src, dst) == Rows(tree, dst)   \* mutant: no srcSet

\* What goes first: what the target holds, except what is moved.
Targets(src, dst) == Rows(tree, dst) \ Rows(tree, src)

MovePath(c) ==
    /\ Calling(c, "rename") /\ holder = None
    /\ LET src == Now(c).path
           dst == Now(c).dst
       IN \/ /\ ParentIsDir(dst) /\ Rows(tree, src) # {}
             /\ Locks(c, Targets(src, dst), Rows(tree, src))
          \/ /\ ~ParentIsDir(dst) \/ Rows(tree, src) = {}
             /\ Fails(c)
             /\ UNCHANGED <<tree, holder, before, torn, requests, faults>>

\* Rows come in the order of their paths: a collection before what is in it.
First(S) == {p \in S : \A q \in S : IsPrefix(q, p) => q = p}

\* One transaction of DeletePath or MovePath: a row goes.
DropRow(c) ==
    /\ holder = c
    /\ \E p \in First(call[c].gone) :
         /\ tree' = [tree EXCEPT ![p] = None]
         /\ call' = [call EXCEPT ![c].gone = @ \ {p}]
    /\ UNCHANGED <<holder, before, torn, requests, faults>>

\* The row that was read, with the blocks that its path has now.
Copied(p) == IF before[p] = Dir \/ tree[p] = before[p] THEN before[p] ELSE Part

\* One transaction of MovePath: the new row; then the old one goes.
StoreRow(c) ==
    /\ holder = c /\ call[c].gone = {}
    /\ \E p \in First(call[c].moves) :
         /\ tree' = [tree EXCEPT ![Image(p, Now(c).path, Now(c).dst)] = Copied(p)]
         /\ call' = [call EXCEPT ![c].gone = {p}, ![c].moves = @ \ {p}]
    /\ UNCHANGED <<holder, before, torn, requests, faults>>

RowsLeft(c) == call[c].gone \union call[c].moves

ChangeFails(c) ==
    /\ holder = c /\ RowsLeft(c) # {} /\ Fault
    /\ Fails(c) /\ holder' = None /\ before' = NoTree
    /\ torn' = (torn \/ tree # before)
    /\ UNCHANGED <<tree, requests>>

Unlock(c) ==
    /\ holder = c /\ RowsLeft(c) = {}
    /\ Return(c) /\ holder' = None /\ before' = NoTree
    /\ UNCHANGED <<tree, torn, requests, faults>>

\* The process ends; what was committed stays.
Crash ==
    /\ Fault
    /\ call' = [c \in Clients |-> Idle] /\ holder' = None /\ before' = NoTree
    /\ torn' = (torn \/ (holder # None /\ tree # before))
    /\ UNCHANGED <<tree, requests>>

-----------------------------------------------------------------------------
Step(c) ==
    \/ MoveFiles(c) \/ CopyFiles(c) \/ CopyChildren(c)
    \/ PutFile(c) \/ Mkcol(c) \/ DeletePath(c) \/ MovePath(c)
    \/ DropRow(c) \/ StoreRow(c) \/ ChangeFails(c) \/ Unlock(c)

Next == Crash \/ \E c \in Clients : Request(c) \/ Step(c)

Spec == Init /\ [][Next]_vars

-----------------------------------------------------------------------------
(* Properties.                                                              *)

\* What is moved: rows of the source when the lock was taken.
Moved == {r \in Under(Now(holder).path) : before[r] # None}

\* At rest every row is in a collection, whatever requests overlap: an upload that
\* finished after its collection was removed, moved or replaced is refused
\* (checkParentDir under the lock, repo.go:872-877, write.go:107-108).  Only a call that stopped in
\* the middle or a PUT over a collection with members breaks that (torn).
TreeConnected ==
    holder = None /\ ~torn => Connected(tree)

\* While a collection moves, and wherever the move stops, each of its files is
\* whole at its old or its new place, also if the one is inside the other
\* (repo.go:958-992).
MoveLosesNothing ==
    holder # None /\ Calling(holder, "rename") =>
        \A r \in Moved : before[r] \in {tree[r], tree[Image(r, Now(holder).path, Now(holder).dst)]}

\* What a call that ends without an error has done: the target of a move is the
\* source and nothing else, even if the target came back after x/net/webdav had
\* removed it; what was deleted or moved is gone; all else is as it was.
CallsAreExact ==
    holder # None /\ RowsLeft(holder) = {} =>
        LET src == Now(holder).path
            dst == Now(holder).dst
            Origin(p) == {r \in Moved : Image(r, src, dst) = p}
        IN \A p \in Paths :
              tree[p] = IF Now(holder).op = "rename" /\ p \in Under(dst)
                        THEN IF Origin(p) = {} THEN None ELSE before[CHOOSE r \in Origin(p) : TRUE]
                        ELSE IF p \in Under(src) THEN None ELSE before[p]
=============================================================================
