----------------------------- MODULE TreeProofs -----------------------------
(***************************************************************************)
(* Proofs about the tree of paths, for any number of clients, any paths,   *)
(* trees and bounds.                                                       *)
(*                                                                         *)
(* Between two transactions of a DELETE or MOVE nothing holds of the tree  *)
(* alone: TreeInv ties it to the tree that the call found when it took the *)
(* lock, to the rows that have still to go and to those that have still to *)
(* move.  When neither is left, that tree and the call's arguments say     *)
(* what the tree is.  What the proofs use of paths comes first, letter by  *)
(* letter, then one lemma for each kind of change of a tree, then one for  *)
(* each action.                                                            *)
(***************************************************************************)
EXTENDS PathTree, FiniteSetTheorems, SequenceTheorems, TLAPS

\* Contents of paths, calls and what a client keeps of a request.

Nodes == {None, Dir, Part} \cup Bodies \cup UNION {{t[p] : p \in Paths} : t \in Trees}
Calls == {d \in [op : {"put", "mkcol", "delete", "rename", "children", "MOVE", "COPY"},
                 path : Seq(Names), dst : Seq(Names), node : Nodes] :
            /\ d.op \in {"MOVE", "rename"} => <<d.path, d.dst>> \in Moves
            /\ d.op \in {"COPY", "children"} => d.path \in Paths}
CallRecs == [todo : Seq(Calls), gone : SUBSET Paths, moves : SUBSET Paths]

\* Types of the variables.
TypePart ==
    /\ tree \in [Paths -> Nodes] /\ before \in [Paths -> Nodes]
    /\ holder \in Clients \cup {None} /\ call \in [Clients -> CallRecs] /\ torn \in BOOLEAN

\* A DELETE under way: what is left of the collection is what it has still to delete.
Deleting(t, b, src, gone, moves) ==
    /\ moves = {} /\ gone \subseteq Rows(b, src)
    /\ \A p \in Paths : t[p] = IF p \in Under(src) /\ p \notin gone THEN None ELSE b[p]

\* A MOVE under way: targets go before anything moves, and each row is at its old place,
\* at its new one, or at both.
Moving(t, b, src, dst, gone, moves) ==
    /\ <<src, dst>> \in Moves
    /\ Len(dst) > 1 => b[Parent(dst)] = Dir
    /\ moves \subseteq Rows(b, src) /\ gone \subseteq Rows(b, src) \cup Rows(b, dst)
    /\ moves \cap gone = {}
    /\ gone \cap Under(dst) # {} => moves = Rows(b, src)
    /\ \A p \in Under(src) : t[p] = IF p \in moves \cup gone THEN b[p] ELSE None
    /\ \A p \in Paths : p \notin Under(src) /\ p \notin Under(dst) => t[p] = b[p]
    /\ \A p \in gone : p \in Under(dst) => t[p] = b[p]
    /\ \A r \in Rows(b, src) : r \notin moves => t[Image(r, src, dst)] = b[r]
    /\ \A p \in Under(dst) : p \notin gone /\ t[p] # None =>
         \E r \in Rows(b, src) : r \notin moves /\ Image(r, src, dst) = p

HeldPart == \A c \in Clients : holder = c =>
    /\ call[c].todo # << >>
    /\ \/ /\ Now(c).op = "delete"
          /\ Deleting(tree, before, Now(c).path, call[c].gone, call[c].moves)
       \/ /\ Now(c).op = "rename"
          /\ Moving(tree, before, Now(c).path, Now(c).dst, call[c].gone, call[c].moves)

\* Rows are in collections, or were when the lock was taken.
ParentPart ==
    /\ ~torn /\ holder = None => Connected(tree)
    /\ ~torn /\ holder # None => Connected(before)

TreeInv == TypePart /\ HeldPart /\ ParentPart

\* Neither end of a move is inside the other.
MovesApart == \A m \in Moves : ~IsPrefix(m[1], m[2]) /\ ~IsPrefix(m[2], m[1])
-----------------------------------------------------------------------------
(* Paths.                                                                  *)

\* A path has a name, and its parent is one.
LEMMA PathIs ==
    ASSUME NEW p \in Paths
    PROVE  /\ p \in Seq(Names) /\ Len(p) \in Nat \ {0} /\ p # << >>
           /\ Len(p) > 1 => Parent(p) \in Paths
<1>1. /\ Paths \subseteq Seq(Names) \ {<< >>}
      /\ \A r \in Paths : Len(r) > 1 => Parent(r) \in Paths
    BY TreeAssumption
<1> QED
    BY <1>1

\* One path begins with another, letter by letter.
LEMMA PrefixIs ==
    ASSUME NEW N, NEW s \in Seq(N), NEW t \in Seq(N)
    PROVE  IsPrefix(s, t) <=> Len(s) <= Len(t) /\ \A i \in 1 .. Len(s) : s[i] = t[i]
<1>1. ASSUME Len(s) <= Len(t)
      PROVE  (SubSeq(s, 1, Len(s)) = SubSeq(t, 1, Len(s))) <=> \A i \in 1 .. Len(s) : s[i] = t[i]
    <2>1. /\ SubSeq(s, 1, Len(s)) = [i \in 1 .. Len(s) |-> s[i]]
          /\ SubSeq(t, 1, Len(s)) = [i \in 1 .. Len(s) |-> t[i]]
        BY <1>1
    <2> QED
        BY <2>1
<1> QED
    BY <1>1 DEF IsPrefix

\* The parent of a path, letter by letter.
LEMMA ParentIs ==
    ASSUME NEW N, NEW p \in Seq(N), p # << >>
    PROVE  /\ Parent(p) \in Seq(N) /\ Len(Parent(p)) = Len(p) - 1
           /\ \A i \in 1 .. Len(p) - 1 : Parent(p)[i] = p[i]
BY SMTT(30) DEF Parent, Front

\* What holds of a parent below a path.
LEMMA ParentPrefix ==
    ASSUME NEW N, NEW s \in Seq(N), NEW p \in Seq(N), p # << >>
    PROVE  /\ IsPrefix(s, Parent(p)) => IsPrefix(s, p)
           /\ IsPrefix(s, p) /\ s # p => IsPrefix(s, Parent(p)) /\ Len(s) < Len(p)
           /\ IsPrefix(s, Parent(p)) => Len(s) < Len(p)
<1>1. PICK q : q = Parent(p)
    OBVIOUS
<1>2. /\ q \in Seq(N) /\ Len(q) = Len(p) - 1 /\ \A i \in 1 .. Len(p) - 1 : q[i] = p[i]
    BY <1>1, ParentIs
<1>3. IsPrefix(s, q) <=> Len(s) <= Len(q) /\ \A i \in 1 .. Len(s) : s[i] = q[i]
    BY <1>2, PrefixIs
<1>4. IsPrefix(s, p) <=> Len(s) <= Len(p) /\ \A i \in 1 .. Len(s) : s[i] = p[i]
    BY PrefixIs
<1>5. IsPrefix(s, p) /\ Len(s) = Len(p) => s = p
    BY <1>4
<1> QED
    BY <1>1, <1>2, <1>3, <1>4, <1>5

\* Two collections that hold the same row: one is in the other.
LEMMA PrefixesMeet ==
    ASSUME NEW N, NEW s \in Seq(N), NEW t \in Seq(N), NEW p \in Seq(N), IsPrefix(s, p), IsPrefix(t, p)
    PROVE  IsPrefix(s, t) \/ IsPrefix(t, s)
<1>1. /\ Len(s) <= Len(p) /\ \A i \in 1 .. Len(s) : s[i] = p[i]
      /\ Len(t) <= Len(p) /\ \A i \in 1 .. Len(t) : t[i] = p[i]
    BY PrefixIs
<1>2. CASE Len(s) <= Len(t)
    <2>1. \A i \in 1 .. Len(s) : s[i] = t[i]
        BY <1>1, <1>2
    <2> QED
        BY <1>2, <2>1, PrefixIs
<1>3. CASE Len(t) <= Len(s)
    <2>1. \A i \in 1 .. Len(t) : t[i] = s[i]
        BY <1>1, <1>3
    <2> QED
        BY <1>3, <2>1, PrefixIs
<1>4. Len(s) \in Nat /\ Len(t) \in Nat
    OBVIOUS
<1> QED
    BY <1>2, <1>3, <1>4

\* What is in a collection is in the collections around it.
LEMMA PrefixTransitive ==
    ASSUME NEW N, NEW s \in Seq(N), NEW t \in Seq(N), NEW p \in Seq(N), IsPrefix(s, t), IsPrefix(t, p)
    PROVE  IsPrefix(s, p)
<1>1. /\ Len(s) <= Len(t) /\ \A i \in 1 .. Len(s) : s[i] = t[i]
      /\ Len(t) <= Len(p) /\ \A i \in 1 .. Len(t) : t[i] = p[i]
    BY PrefixIs
<1>2. Len(s) <= Len(p) /\ \A i \in 1 .. Len(s) : s[i] = p[i]
    BY <1>1
<1> QED
    BY <1>2, PrefixIs

\* A path counts as in itself.
LEMMA PrefixOfItself ==
    ASSUME NEW N, NEW s \in Seq(N)
    PROVE  IsPrefix(s, s)
BY PrefixIs

\* The new place of a row, letter by letter.
Letters(N, q, p, src, dst) ==
    /\ q \in Seq(N) /\ Len(q) = Len(dst) + Len(p) - Len(src)
    /\ \A i \in 1 .. Len(dst) : q[i] = dst[i]
    /\ \A i \in 1 .. Len(p) - Len(src) : q[Len(dst) + i] = p[Len(src) + i]
    /\ IsPrefix(dst, q)

\* What Image returns.
LEMMA ImageIs ==
    ASSUME NEW N, NEW src \in Seq(N), NEW dst \in Seq(N), NEW p \in Seq(N), IsPrefix(src, p),
           NEW q, q = Image(p, src, dst)
    PROVE  Letters(N, q, p, src, dst)
<1>1. Len(src) <= Len(p) /\ Len(src) \in Nat /\ Len(dst) \in Nat /\ Len(p) \in Nat
    BY PrefixIs
<1>2. PICK r : r = SubSeq(p, Len(src) + 1, Len(p))
    OBVIOUS
<1>3. /\ r \in Seq(N) /\ Len(r) = Len(p) - Len(src)
      /\ \A i \in 1 .. Len(p) - Len(src) : r[i] = p[Len(src) + i]
    BY <1>1, <1>2
<1>4. q = dst \o r
    BY <1>2 DEF Image
<1>5. /\ q \in Seq(N) /\ Len(q) = Len(dst) + Len(r)
      /\ \A i \in 1 .. Len(dst) : q[i] = dst[i]
      /\ \A i \in 1 .. Len(r) : q[Len(dst) + i] = r[i]
    <2>1. /\ dst \o r \in Seq(N) /\ Len(dst \o r) = Len(dst) + Len(r)
          /\ \A i \in 1 .. Len(dst) + Len(r) : (dst \o r)[i] = IF i <= Len(dst) THEN dst[i] ELSE r[i - Len(dst)]
        BY <1>3, ConcatProperties
    <2>2. /\ q \in Seq(N) /\ Len(q) = Len(dst) + Len(r)
          /\ \A i \in 1 .. Len(dst) + Len(r) : q[i] = IF i <= Len(dst) THEN dst[i] ELSE r[i - Len(dst)]
        BY <1>4, <2>1
    <2>3. Len(r) \in Nat
        BY <1>3
    <2>4. ASSUME NEW i \in 1 .. Len(dst) PROVE q[i] = dst[i]
        BY <1>1, <2>2, <2>3
    <2>5. ASSUME NEW i \in 1 .. Len(r) PROVE q[Len(dst) + i] = r[i]
        <3>1. Len(dst) + i \in 1 .. Len(dst) + Len(r) /\ ~(Len(dst) + i <= Len(dst)) /\ Len(dst) + i - Len(dst) = i
            BY <1>1, <2>3
        <3> QED
            BY <2>2, <3>1
    <2> QED
        BY <2>2, <2>4, <2>5
<1>6. Len(dst) <= Len(q)
    BY <1>1, <1>3, <1>5
<1>7. IsPrefix(dst, q)
    BY <1>5, <1>6, PrefixIs
<1> QED
    BY <1>3, <1>5, <1>7 DEF Letters

\* Different rows have different new places.
LEMMA ImageInjective ==
    ASSUME NEW N, NEW src \in Seq(N), NEW dst \in Seq(N), NEW p \in Seq(N), NEW r \in Seq(N),
           IsPrefix(src, p), IsPrefix(src, r), Image(p, src, dst) = Image(r, src, dst)
    PROVE  p = r
<1>1. PICK q : q = Image(p, src, dst)
    OBVIOUS
<1>2. /\ Len(q) = Len(dst) + Len(p) - Len(src)
      /\ \A i \in 1 .. Len(p) - Len(src) : q[Len(dst) + i] = p[Len(src) + i]
    <2>1. Letters(N, q, p, src, dst)
        BY <1>1, ImageIs
    <2> QED
        BY <2>1 DEF Letters
<1>3. /\ Len(q) = Len(dst) + Len(r) - Len(src)
      /\ \A i \in 1 .. Len(r) - Len(src) : q[Len(dst) + i] = r[Len(src) + i]
    <2>1. Letters(N, q, r, src, dst)
        BY <1>1, ImageIs
    <2> QED
        BY <2>1 DEF Letters
<1>4. /\ \A i \in 1 .. Len(src) : src[i] = p[i] /\ src[i] = r[i]
      /\ Len(src) \in Nat /\ Len(p) \in Nat /\ Len(r) \in Nat /\ Len(dst) \in Nat
    BY PrefixIs
<1>5. Len(p) = Len(r)
    BY <1>2, <1>3, <1>4
<1>6. ASSUME NEW i \in 1 .. Len(p) PROVE p[i] = r[i]
    <2>1. CASE i \in 1 .. Len(src)
        BY <1>4, <2>1
    <2>2. CASE i \notin 1 .. Len(src)
        <3>1. PICK j : j = i - Len(src)
            OBVIOUS
        <3>2. j \in 1 .. Len(p) - Len(src) /\ i = Len(src) + j
            BY <1>4, <2>2, <3>1
        <3> QED
            BY <1>2, <1>3, <1>5, <3>2
    <2> QED
        BY <2>1, <2>2
<1> QED
    BY <1>5, <1>6

\* The collection itself becomes the target, and parents stay parents.
LEMMA ImageOfParent ==
    ASSUME NEW N, NEW src \in Seq(N), NEW dst \in Seq(N), NEW p \in Seq(N), IsPrefix(src, p), src # << >>, dst # << >>
    PROVE  /\ p = src => Image(p, src, dst) = dst
           /\ p # src => Parent(Image(p, src, dst)) = Image(Parent(p), src, dst)
<1>1. PICK q : q = Image(p, src, dst)
    OBVIOUS
<1>2. /\ q \in Seq(N) /\ Len(q) = Len(dst) + Len(p) - Len(src)
      /\ \A i \in 1 .. Len(dst) : q[i] = dst[i]
      /\ \A i \in 1 .. Len(p) - Len(src) : q[Len(dst) + i] = p[Len(src) + i]
    <2>1. Letters(N, q, p, src, dst)
        BY <1>1, ImageIs
    <2> QED
        BY <2>1 DEF Letters
<1>3. /\ Len(src) \in Nat \ {0} /\ Len(dst) \in Nat \ {0} /\ Len(p) \in Nat /\ Len(src) <= Len(p)
    BY PrefixIs
<1>4. ASSUME p = src PROVE q = dst
    BY <1>2, <1>3, <1>4
<1>5. ASSUME p # src PROVE Parent(q) = Image(Parent(p), src, dst)
    <2>1. p # << >> /\ q # << >>
        BY <1>2, <1>3
    <2>2. PICK a : a = Parent(p)
        OBVIOUS
    <2>3. /\ a \in Seq(N) /\ Len(a) = Len(p) - 1 /\ \A i \in 1 .. Len(p) - 1 : a[i] = p[i]
          /\ IsPrefix(src, a) /\ Len(src) < Len(p)
        BY <1>5, <2>1, <2>2, ParentIs, ParentPrefix
    <2>4. PICK u : u = Parent(q)
        OBVIOUS
    <2>5. u \in Seq(N) /\ Len(u) = Len(q) - 1 /\ \A i \in 1 .. Len(q) - 1 : u[i] = q[i]
        BY <1>2, <2>1, <2>4, ParentIs
    <2>6. PICK v : v = Image(a, src, dst)
        OBVIOUS
    <2>7. /\ v \in Seq(N) /\ Len(v) = Len(dst) + Len(a) - Len(src)
          /\ \A i \in 1 .. Len(dst) : v[i] = dst[i]
          /\ \A i \in 1 .. Len(a) - Len(src) : v[Len(dst) + i] = a[Len(src) + i]
        <3>1. Letters(N, v, a, src, dst)
            BY <2>3, <2>6, ImageIs
        <3> QED
            BY <3>1 DEF Letters
    <2>8. Len(u) = Len(v)
        BY <1>2, <1>3, <2>3, <2>5, <2>7
    <2>9. ASSUME NEW i \in 1 .. Len(u) PROVE u[i] = v[i]
        <3>1. u[i] = q[i]
            BY <1>2, <1>3, <2>5
        <3>2. CASE i \in 1 .. Len(dst)
            BY <1>2, <2>7, <3>1, <3>2
        <3>3. CASE i \notin 1 .. Len(dst)
            <4>1. PICK j : j = i - Len(dst)
                OBVIOUS
            <4>2. j \in 1 .. Len(a) - Len(src) /\ i = Len(dst) + j /\ Len(src) + j \in 1 .. Len(p) - 1
                BY <1>2, <1>3, <2>3, <2>5, <3>3, <4>1
            <4>3. j \in 1 .. Len(p) - Len(src)
                BY <1>3, <2>3, <4>2
            <4>4. v[i] = a[Len(src) + j] /\ a[Len(src) + j] = p[Len(src) + j] /\ q[i] = p[Len(src) + j]
                BY <1>2, <2>3, <2>7, <4>2, <4>3
            <4> QED
                BY <3>1, <4>4
        <3> QED
            BY <3>2, <3>3
    <2> QED
        BY <2>2, <2>4, <2>5, <2>6, <2>7, <2>8, <2>9, SMTT(30)
<1> QED
    BY <1>1, <1>4, <1>5

-----------------------------------------------------------------------------
(* Collections.                                                            *)

\* A row below a collection has its parent in the collection.
LEMMA UnderParent ==
    ASSUME NEW r \in Seq(Names), NEW p \in Paths
    PROVE  /\ Len(p) > 1 /\ Parent(p) \in Under(r) => p \in Under(r)
           /\ p \in Under(r) /\ p # r /\ r # << >> => Len(p) > 1 /\ Parent(p) \in Under(r)
           /\ Len(p) > 1 /\ Parent(p) \in Under(r) => p # r
<1>1. p \in Seq(Names) /\ p # << >> /\ Len(p) \in Nat /\ (Len(p) > 1 => Parent(p) \in Paths)
    BY PathIs
<1>2. /\ IsPrefix(r, Parent(p)) => IsPrefix(r, p)
      /\ IsPrefix(r, p) /\ r # p => IsPrefix(r, Parent(p)) /\ Len(r) < Len(p)
      /\ IsPrefix(r, Parent(p)) => Len(r) < Len(p)
    BY <1>1, ParentPrefix
<1>3. ASSUME r # << >>, Len(r) < Len(p) PROVE Len(p) > 1
    <2>1. Len(r) \in Nat \ {0}
        BY <1>3
    <2> QED
        BY <1>1, <1>3, <2>1
<1>4. Len(r) < Len(p) => p # r
    BY <1>1
<1> QED
    BY <1>1, <1>2, <1>3, <1>4 DEF Under

\* A collection and the place it moves to.
Fits(src, dst) ==
    /\ src \in Paths /\ dst \in Paths /\ src \in Under(src) /\ dst \in Under(dst)
    /\ \A p \in Paths : p \in Under(src) => p \notin Under(dst)
    /\ Image(src, src, dst) = dst
    /\ \A p \in Under(src) : Image(p, src, dst) \in Under(dst)
    /\ \A p, r \in Under(src) : Image(p, src, dst) = Image(r, src, dst) => p = r
    /\ \A p \in Under(src) : p # src =>
         Len(p) > 1 /\ Parent(p) \in Under(src) /\ Parent(Image(p, src, dst)) = Image(Parent(p), src, dst)

\* What may be asked for fits.
LEMMA MovesFit ==
    ASSUME MovesApart, NEW src, NEW dst, <<src, dst>> \in Moves
    PROVE  Fits(src, dst)
<1>1. PICK m : m = <<src, dst>>
    OBVIOUS
<1>2. /\ m \in Paths \X Paths
      /\ {Image(p, m[1], m[2]) : p \in Under(m[1])} \subseteq Paths
    BY <1>1, TreeAssumption
<1>3. src \in Paths /\ dst \in Paths /\ {Image(p, src, dst) : p \in Under(src)} \subseteq Paths
    BY <1>1, <1>2
<1>4. ~IsPrefix(src, dst) /\ ~IsPrefix(dst, src)
    BY <1>1 DEF MovesApart
<1>5. src \in Seq(Names) /\ dst \in Seq(Names) /\ src # << >> /\ dst # << >>
    BY <1>3, PathIs
<1>6. src \in Under(src) /\ dst \in Under(dst)
    BY <1>3, <1>5, PrefixOfItself DEF Under
<1>7. ASSUME NEW p \in Paths, p \in Under(src), p \in Under(dst) PROVE FALSE
    <2>1. IsPrefix(src, p) /\ IsPrefix(dst, p) /\ p \in Seq(Names)
        BY <1>7, PathIs DEF Under
    <2> QED
        BY <1>4, <1>5, <2>1, PrefixesMeet
<1>8. ASSUME NEW p \in Under(src)
      PROVE  /\ p \in Seq(Names) /\ IsPrefix(src, p)
             /\ Image(p, src, dst) \in Under(dst)
    <2>1. p \in Seq(Names) /\ IsPrefix(src, p)
        BY PathIs DEF Under
    <2>2. PICK q : q = Image(p, src, dst)
        OBVIOUS
    <2>3. Letters(Names, q, p, src, dst)
        BY <1>5, <2>1, <2>2, ImageIs
    <2>4. IsPrefix(dst, q)
        BY <2>3 DEF Letters
    <2>5. q \in Paths
        BY <1>3, <2>2
    <2> QED
        BY <2>1, <2>2, <2>4, <2>5 DEF Under
<1>9. ASSUME NEW p \in Under(src), NEW r \in Under(src), Image(p, src, dst) = Image(r, src, dst) PROVE p = r
    BY <1>5, <1>8, <1>9, ImageInjective
<1>10. ASSUME NEW p \in Under(src), p # src
       PROVE  /\ Len(p) > 1 /\ Parent(p) \in Under(src)
              /\ Parent(Image(p, src, dst)) = Image(Parent(p), src, dst)
    <2>1. p \in Paths
        BY DEF Under
    <2>2. Len(p) > 1 /\ Parent(p) \in Under(src)
        BY <1>5, <1>10, <2>1, UnderParent
    <2>3. Parent(Image(p, src, dst)) = Image(Parent(p), src, dst)
        BY <1>5, <1>8, <1>10, ImageOfParent
    <2> QED
        BY <2>2, <2>3
<1>11. Image(src, src, dst) = dst
    BY <1>5, <1>6, <1>8, ImageOfParent
<1> QED
    BY <1>3, <1>6, <1>7, <1>8, <1>9, <1>10, <1>11 DEF Fits

-----------------------------------------------------------------------------
(* A collection is deleted.                                                *)

\* At first nothing is gone.
LEMMA DeletingStarts ==
    ASSUME NEW t, NEW src
    PROVE  Deleting(t, t, src, Rows(t, src), {})
BY DEF Deleting, Rows, Under

\* One row less.
LEMMA DeletingDrops ==
    ASSUME NEW t \in [Paths -> Nodes], NEW b, NEW src, NEW gone, NEW moves, Deleting(t, b, src, gone, moves), NEW p \in gone
    PROVE  Deleting([t EXCEPT ![p] = None], b, src, gone \ {p}, moves)
<1>1. p \in Paths /\ p \in Under(src)
    BY DEF Deleting, Rows, Under
<1> QED
    BY <1>1 DEF Deleting

\* When all are gone the other rows are in collections still.
LEMMA DeletingEnds ==
    ASSUME NEW t, NEW b, NEW src \in Seq(Names), NEW moves, Deleting(t, b, src, {}, moves), Connected(b)
    PROVE  Connected(t)
<1>1. \A p \in Paths : t[p] = IF p \in Under(src) THEN None ELSE b[p]
    BY DEF Deleting
<1>2. ASSUME NEW p \in Paths, t[p] # None, Len(p) > 1 PROVE t[Parent(p)] = Dir
    <2>1. p \notin Under(src) /\ b[Parent(p)] = Dir
        BY <1>1, <1>2 DEF Connected
    <2>2. Parent(p) \notin Under(src)
        BY <1>2, <2>1, UnderParent
    <2>3. Parent(p) \in Paths
        BY <1>2, PathIs
    <2> QED
        BY <1>1, <2>1, <2>2, <2>3
<1> QED
    BY <1>2 DEF Connected

-----------------------------------------------------------------------------
(* A collection moves.                                                     *)

\* At first everything is at its old place and nothing of the target is gone.
LEMMA MovingStarts ==
    ASSUME NEW t, NEW src, NEW dst, Fits(src, dst), <<src, dst>> \in Moves,
           Len(dst) > 1 => t[Parent(dst)] = Dir
    PROVE  Moving(t, t, src, dst, Rows(t, dst) \ Rows(t, src), Rows(t, src))
<1>1. \A p \in Paths : p \in Under(src) => p \notin Under(dst)
    BY DEF Fits
<1>2. \A r, p : p \in Rows(t, r) <=> p \in Under(r) /\ t[p] # None
    BY DEF Rows
<1>3. \A r, p : p \in Under(r) => p \in Paths
    BY DEF Under
<1> HIDE DEF Rows, Under
<1>4. ASSUME NEW p \in Under(src)
      PROVE  t[p] = IF p \in Rows(t, src) \cup (Rows(t, dst) \ Rows(t, src)) THEN t[p] ELSE None
    BY <1>2
<1>5. ASSUME NEW p \in Under(dst), p \notin Rows(t, dst) \ Rows(t, src), t[p] # None PROVE FALSE
    BY <1>1, <1>2, <1>3, <1>5
<1>6. \A r \in Rows(t, src) : r \in Rows(t, src)
    OBVIOUS
<1> QED
    BY <1>4, <1>5, <1>6 DEF Moving

\* What the target holds, or an old row, goes.
LEMMA MovingDrops ==
    ASSUME NEW t \in [Paths -> Nodes], NEW b, NEW src, NEW dst, NEW gone, NEW moves, Fits(src, dst),
           Moving(t, b, src, dst, gone, moves), NEW p \in gone, NEW u, u = [t EXCEPT ![p] = None]
    PROVE  Moving(u, b, src, dst, gone \ {p}, moves)
<1>1. p \in Under(src) \/ p \in Under(dst)
    BY DEF Moving, Rows
<1>2. p \in Paths
    BY <1>1 DEF Under
<1>3. u[p] = None /\ \A q \in Paths : q # p => u[q] = t[q]
    BY <1>2
<1>4. /\ \A q \in Under(src) : t[q] = IF q \in moves \cup gone THEN b[q] ELSE None
      /\ \A q \in Paths : q \notin Under(src) /\ q \notin Under(dst) => t[q] = b[q]
      /\ \A q \in gone : q \in Under(dst) => t[q] = b[q]
      /\ \A r \in Rows(b, src) : r \notin moves => t[Image(r, src, dst)] = b[r]
      /\ \A q \in Under(dst) : q \notin gone /\ t[q] # None =>
           \E r \in Rows(b, src) : r \notin moves /\ Image(r, src, dst) = q
      /\ moves \cap gone = {} /\ (gone \cap Under(dst) # {} => moves = Rows(b, src))
    BY DEF Moving
<1>5. \A r : r \in Under(src) \/ r \in Under(dst) => r \in Paths
    BY DEF Under
<1>6. \A r \in Rows(b, src) : r \in Under(src) /\ Image(r, src, dst) \in Under(dst)
    BY DEF Fits, Rows
<1>7. ASSUME NEW q \in Under(src) PROVE u[q] = IF q \in moves \cup (gone \ {p}) THEN b[q] ELSE None
    BY <1>3, <1>4, <1>5
<1>8. ASSUME NEW q \in Paths, q \notin Under(src), q \notin Under(dst) PROVE u[q] = b[q]
    BY <1>1, <1>3, <1>4, <1>8
<1>9. ASSUME NEW q \in gone \ {p}, q \in Under(dst) PROVE u[q] = b[q]
    BY <1>3, <1>4, <1>5, <1>9
<1>10. ASSUME NEW r \in Rows(b, src), r \notin moves PROVE u[Image(r, src, dst)] = b[r]
    <2>1. Image(r, src, dst) \in Under(dst)
        BY <1>6
    <2>2. Image(r, src, dst) # p
        BY <1>4, <1>10, <2>1
    <2> QED
        BY <1>3, <1>4, <1>5, <1>10, <2>1, <2>2
<1>11. ASSUME NEW q \in Under(dst), q \notin gone \ {p}, u[q] # None
       PROVE  \E r \in Rows(b, src) : r \notin moves /\ Image(r, src, dst) = q
    BY <1>3, <1>4, <1>5, <1>11
<1>12. moves \cap (gone \ {p}) = {} /\ ((gone \ {p}) \cap Under(dst) # {} => moves = Rows(b, src))
    BY <1>4
<1>13. /\ <<src, dst>> \in Moves /\ (Len(dst) > 1 => b[Parent(dst)] = Dir)
       /\ moves \subseteq Rows(b, src) /\ gone \ {p} \subseteq Rows(b, src) \cup Rows(b, dst)
    BY DEF Moving
<1> QED
    BY <1>7, <1>8, <1>9, <1>10, <1>11, <1>12, <1>13 DEF Moving

\* A row is stored at its new place.
LEMMA MovingStores ==
    ASSUME NEW t \in [Paths -> Nodes], NEW b, NEW src, NEW dst, NEW moves, Fits(src, dst),
           Moving(t, b, src, dst, {}, moves), NEW p \in moves, NEW u, u = [t EXCEPT ![Image(p, src, dst)] = b[p]]
    PROVE  Moving(u, b, src, dst, {p}, moves \ {p})
<1>1. PICK i : i = Image(p, src, dst)
    OBVIOUS
<1>2. /\ <<src, dst>> \in Moves /\ (Len(dst) > 1 => b[Parent(dst)] = Dir)
      /\ moves \subseteq Rows(b, src)
      /\ \A q \in Under(src) : t[q] = IF q \in moves THEN b[q] ELSE None
      /\ \A q \in Paths : q \notin Under(src) /\ q \notin Under(dst) => t[q] = b[q]
      /\ \A r \in Rows(b, src) : r \notin moves => t[Image(r, src, dst)] = b[r]
      /\ \A q \in Under(dst) : t[q] # None =>
           \E r \in Rows(b, src) : r \notin moves /\ Image(r, src, dst) = q
    BY DEF Moving
<1>3. \A r \in Rows(b, src) : r \in Under(src) /\ Image(r, src, dst) \in Under(dst)
    BY DEF Fits, Rows
<1>4. \A r : r \in Under(src) \/ r \in Under(dst) => r \in Paths
    BY DEF Under
<1>5. p \in Under(src) /\ i \in Under(dst) /\ i \in Paths
    BY <1>1, <1>2, <1>3, <1>4
<1>6. u[i] = b[p] /\ \A q \in Paths : q # i => u[q] = t[q]
    BY <1>1, <1>5
<1>7. \A q \in Under(src) : q \notin Under(dst)
    BY <1>4 DEF Fits
<1>8. ASSUME NEW q \in Under(src) PROVE u[q] = IF q \in (moves \ {p}) \cup {p} THEN b[q] ELSE None
    BY <1>2, <1>4, <1>5, <1>6, <1>7
<1>9. ASSUME NEW q \in Paths, q \notin Under(src), q \notin Under(dst) PROVE u[q] = b[q]
    BY <1>2, <1>5, <1>6, <1>9
<1>10. ASSUME NEW r \in Rows(b, src), r \notin moves \ {p} PROVE u[Image(r, src, dst)] = b[r]
    <2>1. CASE r = p
        BY <1>1, <1>6, <2>1
    <2>2. CASE r # p
        <3>1. r \in Under(src) /\ Image(r, src, dst) \in Paths /\ r \notin moves
            BY <1>3, <1>4, <1>10, <2>2
        <3>2. Image(r, src, dst) # i
            BY <1>1, <1>5, <2>2, <3>1 DEF Fits
        <3> QED
            BY <1>2, <1>6, <3>1, <3>2
    <2> QED
        BY <2>1, <2>2
<1>11. ASSUME NEW q \in Under(dst), u[q] # None
       PROVE  \E r \in Rows(b, src) : r \notin moves \ {p} /\ Image(r, src, dst) = q
    <2>1. CASE q = i
        BY <1>1, <1>2, <2>1
    <2>2. CASE q # i
        BY <1>2, <1>4, <1>6, <1>11, <2>2
    <2> QED
        BY <2>1, <2>2
<1>12. /\ {p} \subseteq Rows(b, src) /\ {p} \cap Under(dst) = {} /\ (moves \ {p}) \cap {p} = {}
       /\ moves \ {p} \subseteq Rows(b, src)
    BY <1>2, <1>5, <1>7
<1> QED
    BY <1>2, <1>8, <1>9, <1>10, <1>11, <1>12 DEF Moving

\* When all have moved every row is in a collection.
LEMMA MovingEnds ==
    ASSUME NEW t, NEW b, NEW src, NEW dst, Fits(src, dst), Moving(t, b, src, dst, {}, {}), Connected(b)
    PROVE  Connected(t)
<1>1. /\ Len(dst) > 1 => b[Parent(dst)] = Dir
      /\ \A q \in Under(src) : t[q] = None
      /\ \A q \in Paths : q \notin Under(src) /\ q \notin Under(dst) => t[q] = b[q]
      /\ \A r \in Rows(b, src) : t[Image(r, src, dst)] = b[r]
      /\ \A q \in Under(dst) : t[q] # None => \E r \in Rows(b, src) : Image(r, src, dst) = q
    BY DEF Moving
<1>2. src \in Seq(Names) /\ dst \in Seq(Names)
    BY PathIs DEF Fits
<1>3. \A q \in Paths : b[q] # None /\ Len(q) > 1 => b[Parent(q)] = Dir
    BY DEF Connected
<1>4. ASSUME NEW p \in Paths, t[p] # None, Len(p) > 1 PROVE t[Parent(p)] = Dir
    <2>1. Parent(p) \in Paths
        BY <1>4, PathIs
    <2>2. p \notin Under(src)
        BY <1>1, <1>4
    <2>3. Parent(p) \notin Under(src)
        BY <1>2, <1>4, <2>2, UnderParent
    <2>4. CASE p \notin Under(dst)
        <3>1. Parent(p) \notin Under(dst)
            BY <1>2, <1>4, <2>4, UnderParent
        <3> QED
            BY <1>1, <1>3, <1>4, <2>1, <2>2, <2>3, <2>4, <3>1
    <2>5. CASE p \in Under(dst)
        <3>1. PICK r \in Rows(b, src) : Image(r, src, dst) = p
            BY <1>1, <1>4, <2>5
        <3>2. r \in Under(src) /\ b[r] # None /\ r \in Paths
            BY DEF Rows, Under
        <3>3. CASE r = src
            <4>1. p = dst
                BY <3>1, <3>3 DEF Fits
            <4>2. Parent(p) \notin Under(dst)
                BY <1>2, <1>4, <4>1, UnderParent
            <4> QED
                BY <1>1, <1>4, <2>1, <2>3, <4>1, <4>2
        <3>4. CASE r # src
            <4>1. Len(r) > 1 /\ Parent(r) \in Under(src) /\ Parent(p) = Image(Parent(r), src, dst)
                BY <3>1, <3>2, <3>4 DEF Fits
            <4>2. b[Parent(r)] = Dir
                BY <1>3, <3>2, <4>1
            <4>3. Parent(r) \in Rows(b, src)
                BY <4>1, <4>2, TreeAssumption DEF Rows
            <4> QED
                BY <1>1, <4>1, <4>2, <4>3
        <3> QED
            BY <3>3, <3>4
    <2> QED
        BY <2>4, <2>5
<1> QED
    BY <1>4 DEF Connected

-----------------------------------------------------------------------------
(* Calls.                                                                  *)

\* A call of the repository, and of x/net/webdav.
LEMMA RecordTyped ==
    ASSUME NEW o \in {"put", "mkcol", "delete", "rename", "children", "MOVE", "COPY"},
           NEW p \in Seq(Names), NEW d \in Seq(Names), NEW y \in Nodes,
           o \in {"MOVE", "rename"} => <<p, d>> \in Moves, o \in {"COPY", "children"} => p \in Paths
    PROVE  [op |-> o, path |-> p, dst |-> d, node |-> y] \in Calls
<1> HIDE DEF Nodes
<1> QED
    BY DEF Calls

\* No row is a state of a path.
LEMMA NoneIsNode == None \in Nodes
BY DEF Nodes

\* An upload.
LEMMA PutTyped ==
    ASSUME NEW p \in Seq(Names), NEW x \in Nodes
    PROVE  Put(p, x) \in Calls
<1>1. Put(p, x) = [op |-> "put", path |-> p, dst |-> p, node |-> x]
    BY DEF Put, Call
<1> QED
    BY <1>1, RecordTyped

\* MKCOL and DELETE.
LEMMA CallTyped ==
    ASSUME NEW p \in Seq(Names), NEW o \in {"mkcol", "delete"}
    PROVE  Call(o, p) \in Calls
<1>1. Call(o, p) = [op |-> o, path |-> p, dst |-> p, node |-> None]
    BY DEF Call
<1> QED
    BY <1>1, RecordTyped, NoneIsNode

\* A call with a target.
LEMMA ToTyped ==
    ASSUME NEW p \in Paths, NEW d \in Seq(Names), NEW o \in {"rename", "children", "MOVE", "COPY"},
           o \in {"MOVE", "rename"} => <<p, d>> \in Moves
    PROVE  To(o, p, d) \in Calls
<1>1. To(o, p, d) = [op |-> o, path |-> p, dst |-> d, node |-> None]
    BY DEF To, Call
<1>2. p \in Seq(Names)
    BY PathIs
<1> QED
    BY <1>1, <1>2, RecordTyped, NoneIsNode

\* Two lists of calls are one.
LEMMA CallsJoin ==
    ASSUME NEW s \in Seq(Calls), NEW t \in Seq(Calls)
    PROVE  s \o t \in Seq(Calls)
BY ConcatProperties

\* What a call is.
LEMMA NowIs ==
    ASSUME TypePart, NEW c \in Clients, call[c].todo # << >>
    PROVE  /\ Now(c) \in Calls /\ Tail(call[c].todo) \in Seq(Calls)
           /\ Now(c).path \in Seq(Names) /\ Now(c).dst \in Seq(Names) /\ Now(c).node \in Nodes
           /\ Now(c).op \in {"MOVE", "rename"} => <<Now(c).path, Now(c).dst>> \in Moves
           /\ Now(c).op \in {"COPY", "children"} => Now(c).path \in Paths
<1>1. PICK s : s = call[c].todo
    OBVIOUS
<1>2. s \in Seq(Calls) /\ s # << >>
    BY <1>1 DEF TypePart, CallRecs
<1>3. PICK d : d = Head(s)
    OBVIOUS
<1>4. d \in Calls /\ Tail(s) \in Seq(Calls)
    BY <1>2, <1>3
<1>5. Now(c) = d
    BY <1>1, <1>3 DEF Now
<1>6. /\ d.path \in Seq(Names) /\ d.dst \in Seq(Names) /\ d.node \in Nodes
      /\ d.op \in {"MOVE", "rename"} => <<d.path, d.dst>> \in Moves
      /\ d.op \in {"COPY", "children"} => d.path \in Paths
    BY <1>4 DEF Calls
<1> QED
    BY <1>1, <1>4, <1>5, <1>6

\* A request goes on with other calls.
LEMMA CallsChange ==
    ASSUME TypePart, NEW c \in Clients, NEW r \in CallRecs, call' = [call EXCEPT ![c] = r]
    PROVE  /\ call' \in [Clients -> CallRecs] /\ call'[c] = r
           /\ \A h \in Clients : h # c => call'[h] = call[h]
BY DEF TypePart

\* Nothing is left of a request.
LEMMA IdleIs == Idle \in CallRecs /\ Idle.todo = << >>
BY DEF Idle, CallRecs

\* The calls are replaced by others.
LEMMA TodoChanges ==
    ASSUME TypePart, NEW c \in Clients, NEW s \in Seq(Calls), call' = [call EXCEPT ![c].todo = s]
    PROVE  /\ call' \in [Clients -> CallRecs]
           /\ \A h \in Clients : h # c => call'[h] = call[h]
<1>1. PICK r : r = [call[c] EXCEPT !.todo = s]
    OBVIOUS
<1>2. call[c] \in CallRecs
    BY DEF TypePart
<1>3. r \in CallRecs
    BY <1>1, <1>2 DEF CallRecs
<1>4. call' = [call EXCEPT ![c] = r]
    BY <1>1
<1> QED
    BY <1>3, <1>4, CallsChange

\* A call is expanded.
LEMMA Expanded ==
    ASSUME TypePart, NEW c \in Clients, call[c].todo # << >>, NEW s \in Seq(Calls), Expand(c, s)
    PROVE  /\ call' \in [Clients -> CallRecs]
           /\ \A h \in Clients : h # c => call'[h] = call[h]
<1>1. Tail(call[c].todo) \in Seq(Calls)
    BY NowIs
<1>2. PICK t \in Seq(Calls) : t = s \o Tail(call[c].todo)
    BY <1>1, CallsJoin
<1>3. call' = [call EXCEPT ![c].todo = t]
    BY <1>2 DEF Expand
<1> QED
    BY <1>3, TodoChanges

\* A call returns, or the request ends with an error.
LEMMA Returned ==
    ASSUME TypePart, NEW c \in Clients, Fails(c) \/ (call[c].todo # << >> /\ Return(c))
    PROVE  /\ call' \in [Clients -> CallRecs]
           /\ \A h \in Clients : h # c => call'[h] = call[h]
<1>1. CASE Fails(c)
    BY <1>1, IdleIs, CallsChange DEF Fails
<1>2. CASE call[c].todo # << >> /\ Return(c)
    <2>1. Tail(call[c].todo) \in Seq(Calls)
        BY <1>2, NowIs
    <2>2. PICK r : r = [Idle EXCEPT !.todo = Tail(call[c].todo)]
        OBVIOUS
    <2>3. r \in CallRecs
        BY <2>1, <2>2 DEF Idle, CallRecs
    <2>4. call' = [call EXCEPT ![c] = r]
        BY <1>2, <2>2 DEF Return
    <2> QED
        BY <2>3, <2>4, CallsChange
<1> QED
    BY <1>1, <1>2

-----------------------------------------------------------------------------
(* Steps.                                                                  *)

\* Initially nobody holds the lock.
LEMMA TreeInitially == Init => TreeInv
<1> SUFFICES ASSUME Init PROVE TreeInv
    OBVIOUS
<1>1. tree \in Trees /\ tree = [p \in Paths |-> tree[p]] /\ Connected(tree)
    BY TreeAssumption DEF Init
<1>2. \A p \in Paths : tree[p] \in Nodes
    BY <1>1 DEF Nodes
<1>3. before \in [Paths -> Nodes]
    BY DEF Init, NoTree, Nodes
<1>4. call \in [Clients -> CallRecs]
    BY IdleIs DEF Init
<1>5. holder = None /\ torn = FALSE /\ None \notin Clients
    BY TreeAssumption DEF Init
<1>6. tree \in [Paths -> Nodes]
    BY <1>1, <1>2
<1>7. TypePart
    BY <1>3, <1>4, <1>5, <1>6 DEF TypePart
<1>8. HeldPart
    BY <1>5 DEF HeldPart
<1>9. ParentPart
    BY <1>1, <1>5 DEF ParentPart
<1> QED
    BY <1>7, <1>8, <1>9 DEF TreeInv

\* While another request holds the lock.
LEMMA OthersStay ==
    ASSUME TreeInv, NEW c \in Clients, holder # c, UNCHANGED <<tree, holder, before, torn>>,
           call' \in [Clients -> CallRecs], \A h \in Clients : h # c => call'[h] = call[h]
    PROVE  TreeInv'
<1>1. TypePart'
    BY DEF TreeInv, TypePart
<1>2. HeldPart'
    <2>1. ASSUME NEW h \in Clients, holder = h
          PROVE  call'[h] = call[h] /\ Now(h)' = Now(h)
        BY <2>1 DEF Now
    <2> QED
        BY <2>1 DEF TreeInv, HeldPart
<1>3. ParentPart'
    BY DEF TreeInv, ParentPart, Connected
<1> QED
    BY <1>1, <1>2, <1>3 DEF TreeInv

\* The lock is free afterwards.
LEMMA LockFree ==
    ASSUME TypePart', holder' = None, ~torn' => Connected(tree)'
    PROVE  TreeInv'
<1>1. HeldPart'
    BY TreeAssumption DEF HeldPart
<1>2. ParentPart'
    BY DEF ParentPart
<1> QED
    BY <1>1, <1>2 DEF TreeInv

\* The holder of the lock is in the middle of its call.
LEMMA Holding ==
    ASSUME TreeInv, NEW c \in Clients, holder = c
    PROVE  /\ call[c].todo # << >> /\ holder # None
           /\ Now(c).op \in {"delete", "rename"}
           /\ Now(c).op = "delete" =>
                Deleting(tree, before, Now(c).path, call[c].gone, call[c].moves)
           /\ Now(c).op = "rename" =>
                Moving(tree, before, Now(c).path, Now(c).dst, call[c].gone, call[c].moves)
BY TreeAssumption DEF TreeInv, HeldPart

\* A request is taken.
LEMMA RequestKeeps == ASSUME TreeInv, NEW c \in Clients, Request(c) PROVE TreeInv'
<1>1. holder # c
    BY Holding, IdleIs DEF Request
<1>2. PICK op \in Requests : call' = [call EXCEPT ![c].todo = <<op>>]
    BY DEF Request
<1>3. op \in Calls
    <2>1. CASE op \in {Put(p, b) : p \in Paths, b \in Bodies}
        <3>1. PICK p \in Paths, b \in Bodies : op = Put(p, b)
            BY <2>1
        <3>2. p \in Seq(Names) /\ b \in Nodes
            BY PathIs DEF Nodes
        <3> QED
            BY <3>1, <3>2, PutTyped
    <2>2. CASE op \in {Call(o, p) : o \in {"mkcol", "delete"}, p \in Paths}
        <3>1. PICK o \in {"mkcol", "delete"}, p \in Paths : op = Call(o, p)
            BY <2>2
        <3>2. p \in Seq(Names)
            BY PathIs
        <3> QED
            BY <3>1, <3>2, CallTyped
    <2>3. CASE op \in {To(o, m[1], m[2]) : o \in {"MOVE", "COPY"}, m \in Moves}
        <3>1. PICK o \in {"MOVE", "COPY"}, m \in Moves : op = To(o, m[1], m[2])
            BY <2>3
        <3>2. PICK p, q : p = m[1] /\ q = m[2]
            OBVIOUS
        <3>3. m \in Paths \X Paths
            BY TreeAssumption
        <3>4. p \in Paths /\ q \in Paths /\ m = <<p, q>> /\ <<p, q>> \in Moves
            BY <3>2, <3>3
        <3>5. q \in Seq(Names)
            BY <3>4, PathIs
        <3>6. op = To(o, p, q)
            BY <3>1, <3>2
        <3> QED
            BY <3>4, <3>5, <3>6, ToTyped
    <2> QED
        BY <2>1, <2>2, <2>3 DEF Requests
<1>4. PICK s \in Seq(Calls) : s = <<op>>
    <2>1. <<op>> \in Seq(Calls)
        BY <1>3
    <2> QED
        BY <2>1
<1>5. TypePart
    BY DEF TreeInv
<1>6. /\ call' \in [Clients -> CallRecs]
      /\ \A h \in Clients : h # c => call'[h] = call[h]
    BY <1>2, <1>4, <1>5, TodoChanges
<1> QED
    BY <1>1, <1>6, OthersStay DEF Request

\* A call that is not of the repository is not the one that holds the lock.
LEMMA NotHeld ==
    ASSUME TreeInv, NEW c \in Clients, NEW op, op \notin {"delete", "rename"}, Calling(c, op)
    PROVE  holder # c /\ call[c].todo # << >> /\ Now(c).op = op
BY Holding DEF Calling, Now

\* The call that removes a path, if it is there.
LEMMA DeleteTyped ==
    ASSUME NEW p \in Seq(Names)
    PROVE  Delete(p) \in Seq(Calls)
<1>1. Call("delete", p) \in Calls
    BY CallTyped
<1> QED
    BY <1>1 DEF Delete

\* moveFiles.
LEMMA MoveFilesKeeps == ASSUME TreeInv, NEW c \in Clients, MoveFiles(c) PROVE TreeInv'
<1>1. holder # c /\ call[c].todo # << >> /\ Now(c).op = "MOVE"
    BY NotHeld DEF MoveFiles
<1>2. PICK p, q : p = Now(c).path /\ q = Now(c).dst
    OBVIOUS
<1>3. p \in Seq(Names) /\ q \in Seq(Names) /\ <<p, q>> \in Moves
    BY <1>1, <1>2, NowIs DEF TreeInv
<1>4. To("rename", p, q) \in Calls
    <2>1. <<p, q>> \in Paths \X Paths
        BY <1>3, TreeAssumption
    <2> QED
        BY <1>3, <2>1, ToTyped
<1>5. Delete(q) \in Seq(Calls)
    BY <1>3, DeleteTyped
<1>6. PICK s \in Seq(Calls) : s = Delete(q) \o <<To("rename", p, q)>>
    <2>1. <<To("rename", p, q)>> \in Seq(Calls)
        BY <1>4
    <2> QED
        BY <1>5, <2>1, CallsJoin
<1>7. Expand(c, s)
    BY <1>2, <1>6 DEF MoveFiles
<1>8. /\ call' \in [Clients -> CallRecs]
      /\ \A h \in Clients : h # c => call'[h] = call[h]
    BY <1>1, <1>7, Expanded DEF TreeInv
<1> QED
    BY <1>1, <1>8, OthersStay DEF MoveFiles

\* copyFiles.
LEMMA CopyFilesKeeps == ASSUME TreeInv, NEW c \in Clients, CopyFiles(c) PROVE TreeInv'
<1>1. holder # c /\ call[c].todo # << >> /\ Now(c).op = "COPY"
    BY NotHeld DEF CopyFiles
<1>2. PICK p, q : p = Now(c).path /\ q = Now(c).dst
    OBVIOUS
<1>3. p \in Seq(Names) /\ q \in Seq(Names) /\ p \in Paths
    BY <1>1, <1>2, NowIs DEF TreeInv
<1>4. tree[p] \in Nodes /\ Part \in Nodes
    BY <1>3 DEF TreeInv, TypePart, Nodes
<1>5. /\ Call("mkcol", q) \in Calls /\ To("children", p, q) \in Calls
      /\ Put(q, tree[p]) \in Calls /\ Put(q, Part) \in Calls
    BY <1>3, <1>4, CallTyped, ToTyped, PutTyped
<1>6. Delete(q) \in Seq(Calls)
    BY <1>3, DeleteTyped
<1>7. \/ Fails(c)
      \/ Expand(c, Delete(q) \o <<Call("mkcol", q), To("children", p, q)>>)
      \/ Expand(c, Delete(q) \o <<Put(q, tree[p])>>)
      \/ call' = [call EXCEPT ![c].todo = Delete(q) \o <<Put(q, Part)>>]
    BY <1>2 DEF CopyFiles
<1>8. PICK s1 \in Seq(Calls) : s1 = Delete(q) \o <<Call("mkcol", q), To("children", p, q)>>
    <2>1. <<Call("mkcol", q), To("children", p, q)>> \in Seq(Calls)
        BY <1>5
    <2> QED
        BY <1>6, <2>1, CallsJoin
<1>9. PICK s2 \in Seq(Calls) : s2 = Delete(q) \o <<Put(q, tree[p])>>
    <2>1. <<Put(q, tree[p])>> \in Seq(Calls)
        BY <1>5
    <2> QED
        BY <1>6, <2>1, CallsJoin
<1>10. PICK s3 \in Seq(Calls) : s3 = Delete(q) \o <<Put(q, Part)>>
    <2>1. <<Put(q, Part)>> \in Seq(Calls)
        BY <1>5
    <2> QED
        BY <1>6, <2>1, CallsJoin
<1>11. TypePart
    BY DEF TreeInv
<1>12. Fails(c) \/ Expand(c, s1) \/ Expand(c, s2) \/ call' = [call EXCEPT ![c].todo = s3]
    BY <1>7, <1>8, <1>9, <1>10
<1>13. /\ call' \in [Clients -> CallRecs]
       /\ \A h \in Clients : h # c => call'[h] = call[h]
    BY <1>1, <1>11, <1>12, Expanded, Returned, TodoChanges
<1> QED
    BY <1>1, <1>13, OthersStay DEF CopyFiles

\* A set in some order is a sequence of its members.
LEMMA ListOfSet ==
    ASSUME NEW S, IsFiniteSet(S)
    PROVE  SetToSeq(S) \in Seq(S)
<1>1. PICK n : n = Cardinality(S)
    OBVIOUS
<1>2. n \in Nat /\ ExistsBijection(1 .. n, S)
    BY <1>1, FS_CardinalityType
<1>3. \E h \in [1 .. n -> S] : IsInjective(h)
    BY <1>2 DEF ExistsBijection, Bijection, Injection, IsInjective
<1>4. SetToSeq(S) \in [1 .. n -> S]
    BY <1>1, <1>3 DEF SetToSeq
<1> QED
    BY <1>2, <1>4

\* The children of a collection are copied one after the other.
LEMMA CopyChildrenKeeps == ASSUME TreeInv, NEW c \in Clients, CopyChildren(c) PROVE TreeInv'
<1>1. holder # c /\ call[c].todo # << >> /\ Now(c).op = "children"
    BY NotHeld DEF CopyChildren
<1>2. PICK p, q : p = Now(c).path /\ q = Now(c).dst
    OBVIOUS
<1>3. p \in Seq(Names) /\ q \in Seq(Names) /\ p \in Paths
    BY <1>1, <1>2, NowIs DEF TreeInv
<1>4. PICK S : S = {r \in Rows(tree, p) : Len(r) = Len(p) + 1}
    OBVIOUS
<1>5. S \subseteq Paths /\ IsFiniteSet(S)
    <2>1. S \subseteq Paths
        BY <1>4 DEF Rows, Under
    <2> QED
        BY <2>1, TreeAssumption, FS_Subset
<1>6. PICK l : l = SetToSeq(S)
    OBVIOUS
<1>7. l \in Seq(Paths)
    <2>1. l \in Seq(S)
        BY <1>5, <1>6, ListOfSet
    <2> QED
        BY <1>5, <2>1
<1>8. PICK s : s = [i \in DOMAIN l |-> To("COPY", l[i], Append(q, Last(l[i])))]
    OBVIOUS
<1>9. s \in Seq(Calls)
    <2>1. ASSUME NEW i \in DOMAIN l PROVE s[i] \in Calls
        <3>1. PICK r \in Paths : r = l[i]
            BY <1>7, <2>1
        <3>2. r \in Seq(Names) /\ r # << >>
            BY PathIs
        <3>3. Last(r) \in Names
            BY <3>2 DEF Last
        <3>4. PICK d \in Seq(Names) : d = Append(q, Last(r))
            BY <1>3, <3>3, AppendProperties
        <3>5. To("COPY", r, d) \in Calls
            BY ToTyped
        <3> QED
            BY <1>8, <3>1, <3>4, <3>5
    <2>2. DOMAIN l = 1 .. Len(l) /\ Len(l) \in Nat
        BY <1>7
    <2>3. s \in [1 .. Len(l) -> Calls]
        BY <1>8, <2>1, <2>2
    <2> QED
        BY <2>2, <2>3
<1>10. Expand(c, s)
    BY <1>2, <1>4, <1>6, <1>8 DEF CopyChildren
<1>11. /\ call' \in [Clients -> CallRecs]
       /\ \A h \in Clients : h # c => call'[h] = call[h]
    BY <1>1, <1>9, <1>10, Expanded DEF TreeInv
<1> QED
    BY <1>1, <1>11, OthersStay DEF CopyChildren

\* The lock is free and stays free: a row is written, or none.
LEMMA PutFileKeeps == ASSUME TreeInv, NEW c \in Clients, PutFile(c) PROVE TreeInv'
<1>1. call[c].todo # << >> /\ holder = None /\ holder' = None /\ before' = before
    BY DEF PutFile, Calling
<1>2. PICK p, x : p = Now(c).path /\ x = Now(c).node
    OBVIOUS
<1>3. x \in Nodes /\ TypePart
    BY <1>1, <1>2, NowIs DEF TreeInv
<1>4. \/ /\ ParentIsDir(p) /\ tree' = [tree EXCEPT ![p] = x]
         /\ torn' = (torn \/ (tree[p] = Dir /\ Rows(tree, p) # {p}))
         /\ Return(c)
      \/ Fails(c) /\ UNCHANGED <<tree, torn>>
    BY <1>2 DEF PutFile
<1>5. call' \in [Clients -> CallRecs]
    BY <1>1, <1>3, <1>4, Returned
<1>6. TypePart'
    <2>1. tree' \in [Paths -> Nodes]
        BY <1>3, <1>4 DEF TypePart
    <2>2. torn' \in BOOLEAN
        BY <1>3, <1>4 DEF TypePart
    <2> QED
        BY <1>1, <1>3, <1>5, <2>1, <2>2 DEF TypePart
<1>7. ASSUME ~torn' PROVE Connected(tree)'
    <2>1. ~torn /\ Connected(tree)
        BY <1>1, <1>4, <1>7 DEF TreeInv, ParentPart, TypePart
    <2>2. CASE UNCHANGED tree
        BY <2>1, <2>2 DEF Connected
    <2>3. CASE /\ ParentIsDir(p) /\ tree' = [tree EXCEPT ![p] = x]
               /\ torn' = (torn \/ (tree[p] = Dir /\ Rows(tree, p) # {p}))
        <3>1. ASSUME NEW q \in Paths, tree'[q] # None, Len(q) > 1 PROVE tree'[Parent(q)] = Dir
            <4>1. PICK r : r = Parent(q)
                OBVIOUS
            <4>2. r \in Paths /\ r # q
                <5>1. q \in Seq(Names) /\ q # << >> /\ r \in Paths
                    BY <3>1, <4>1, PathIs
                <5>2. Len(r) = Len(q) - 1
                    BY <4>1, <5>1, ParentIs
                <5> QED
                    BY <5>1, <5>2
            <4>3. ASSUME p \in Paths, q # p, r = p PROVE FALSE
                <5>1. tree[q] # None
                    BY <1>3, <2>3, <3>1, <4>3 DEF TypePart
                <5>2. tree[p] = Dir
                    BY <2>1, <3>1, <4>1, <4>3, <5>1 DEF Connected
                <5>3. q \in Under(p)
                    <6>1. p \in Seq(Names) /\ p \in Under(p)
                        BY <4>3, PathIs, PrefixOfItself DEF Under
                    <6> QED
                        BY <3>1, <4>1, <4>3, <6>1, UnderParent
                <5>4. q \in Rows(tree, p)
                    BY <5>1, <5>3 DEF Rows
                <5> QED
                    BY <1>7, <2>3, <4>3, <5>2, <5>4
            <4>4. CASE q = p
                BY <1>3, <2>3, <3>1, <4>1, <4>2, <4>4 DEF ParentIsDir, TypePart
            <4>5. CASE q # p
                <5>1. tree[q] # None
                    BY <1>3, <2>3, <3>1, <4>5 DEF TypePart
                <5>2. tree[r] = Dir
                    BY <2>1, <3>1, <4>1, <5>1 DEF Connected
                <5>3. r # p
                    BY <4>2, <4>3, <4>5
                <5> QED
                    BY <1>3, <2>3, <4>1, <4>2, <5>2, <5>3 DEF TypePart
            <4> QED
                BY <4>4, <4>5
        <3> QED
            BY <3>1 DEF Connected
    <2> QED
        BY <1>4, <2>2, <2>3
<1> QED
    BY <1>1, <1>6, <1>7, LockFree

\* A collection is made in a collection.
LEMMA MkcolKeeps == ASSUME TreeInv, NEW c \in Clients, Mkcol(c) PROVE TreeInv'
<1>1. call[c].todo # << >> /\ holder = None /\ holder' = None /\ before' = before /\ torn' = torn
    BY DEF Mkcol, Calling
<1>2. PICK p : p = Now(c).path
    OBVIOUS
<1>3. TypePart
    BY DEF TreeInv
<1>4. \/ /\ ParentIsDir(p) /\ Return(c)
         /\ tree' = IF tree[p] = None THEN [tree EXCEPT ![p] = Dir] ELSE tree
      \/ Fails(c) /\ UNCHANGED tree
    BY <1>2 DEF Mkcol
<1>5. call' \in [Clients -> CallRecs]
    BY <1>1, <1>3, <1>4, Returned
<1>6. TypePart'
    <2>1. Dir \in Nodes
        BY DEF Nodes
    <2>2. tree' \in [Paths -> Nodes]
        BY <1>3, <1>4, <2>1 DEF TypePart
    <2> QED
        BY <1>1, <1>3, <1>5, <2>2 DEF TypePart
<1>7. ASSUME ~torn' PROVE Connected(tree)'
    <2>1. Connected(tree)
        BY <1>1, <1>7 DEF TreeInv, ParentPart
    <2>2. CASE UNCHANGED tree
        BY <2>1, <2>2 DEF Connected
    <2>3. CASE ParentIsDir(p) /\ tree[p] = None /\ tree' = [tree EXCEPT ![p] = Dir]
        <3>1. ASSUME NEW q \in Paths, tree'[q] # None, Len(q) > 1 PROVE tree'[Parent(q)] = Dir
            <4>1. Parent(q) \in Paths
                BY <3>1, PathIs
            <4>2. tree[Parent(q)] = Dir
                BY <1>3, <2>1, <2>3, <3>1 DEF Connected, ParentIsDir, TypePart
            <4> QED
                BY <1>3, <2>3, <4>1, <4>2 DEF TypePart
        <3> QED
            BY <3>1 DEF Connected
    <2> QED
        BY <1>4, <2>2, <2>3
<1> QED
    BY <1>1, <1>6, <1>7, LockFree

\* The lock is taken: the rows are read.
LEMMA LockTaken ==
    ASSUME TreeInv, NEW c \in Clients, call[c].todo # << >>, holder = None,
           NEW gone \in SUBSET Paths, NEW moves \in SUBSET Paths, Locks(c, gone, moves),
           \/ /\ Now(c).op = "delete" /\ Deleting(tree, tree, Now(c).path, gone, moves)
           \/ /\ Now(c).op = "rename" /\ Moving(tree, tree, Now(c).path, Now(c).dst, gone, moves)
    PROVE  TreeInv'
<1>1. TypePart
    BY DEF TreeInv
<1>2. PICK r : r = [[call[c] EXCEPT !.gone = gone] EXCEPT !.moves = moves]
    OBVIOUS
<1>3. r \in CallRecs /\ r.todo = call[c].todo /\ r.gone = gone /\ r.moves = moves
    <2>1. call[c] \in CallRecs
        BY <1>1 DEF TypePart
    <2> QED
        BY <1>2, <2>1 DEF CallRecs
<1>4. call' = [call EXCEPT ![c] = r]
    <2>1. call' = [[call EXCEPT ![c].gone = gone] EXCEPT ![c].moves = moves]
        BY DEF Locks
    <2> QED
        BY <1>1, <1>2, <2>1 DEF TypePart
<1>5. call' \in [Clients -> CallRecs] /\ call'[c] = r
    BY <1>1, <1>3, <1>4, CallsChange
<1>6. holder' = c /\ before' = tree /\ tree' = tree /\ torn' = torn /\ c # None
    BY TreeAssumption DEF Locks
<1>7. TypePart'
    BY <1>1, <1>5, <1>6 DEF TypePart
<1>8. Now(c)' = Now(c)
    BY <1>3, <1>5 DEF Now
<1>9. HeldPart'
    BY <1>3, <1>5, <1>6, <1>8 DEF HeldPart
<1>10. ParentPart'
    BY <1>6 DEF TreeInv, ParentPart, Connected
<1> QED
    BY <1>7, <1>9, <1>10 DEF TreeInv

\* A call that returns while the lock is free.
LEMMA FreeReturns ==
    ASSUME TreeInv, NEW c \in Clients, holder = None, UNCHANGED <<tree, holder, before, torn>>,
           Fails(c) \/ (call[c].todo # << >> /\ Return(c))
    PROVE  TreeInv'
<1>1. holder # c
    BY TreeAssumption
<1>2. /\ call' \in [Clients -> CallRecs]
      /\ \A h \in Clients : h # c => call'[h] = call[h]
    BY Returned DEF TreeInv
<1> QED
    BY <1>1, <1>2, OthersStay

\* DeletePath.
LEMMA DeletePathKeeps == ASSUME TreeInv, NEW c \in Clients, DeletePath(c) PROVE TreeInv'
<1>1. call[c].todo # << >> /\ holder = None /\ Now(c).op = "delete"
    BY DEF DeletePath, Calling, Now
<1>2. PICK p, G : p = Now(c).path /\ G = Rows(tree, p)
    OBVIOUS
<1>3. CASE Locks(c, Rows(tree, Now(c).path), {})
    <2>1. G \in SUBSET Paths /\ {} \in SUBSET Paths
        BY <1>2 DEF Rows, Under
    <2>2. Deleting(tree, tree, p, G, {})
        BY <1>2, DeletingStarts
    <2> QED
        BY <1>1, <1>2, <1>3, <2>1, <2>2, LockTaken
<1>4. CASE Return(c) /\ UNCHANGED <<tree, holder, before, torn>>
    BY <1>1, <1>4, FreeReturns
<1> QED
    BY <1>3, <1>4 DEF DeletePath

\* MovePath.
LEMMA MovePathKeeps == ASSUME MovesApart, TreeInv, NEW c \in Clients, MovePath(c) PROVE TreeInv'
<1>1. call[c].todo # << >> /\ holder = None /\ Now(c).op = "rename"
    BY DEF MovePath, Calling, Now
<1>2. PICK p, q : p = Now(c).path /\ q = Now(c).dst
    OBVIOUS
<1>3. <<p, q>> \in Moves
    BY <1>1, <1>2, NowIs DEF TreeInv
<1>4. PICK G, M : G = Targets(p, q) /\ M = Rows(tree, p)
    OBVIOUS
<1>5. CASE ParentIsDir(q) /\ Locks(c, G, M)
    <2>1. G \in SUBSET Paths /\ M \in SUBSET Paths
        BY <1>4 DEF Targets, Rows, Under
    <2>2. Moving(tree, tree, p, q, G, M)
        <3>1. Fits(p, q)
            BY <1>3, MovesFit
        <3>2. Len(q) > 1 => tree[Parent(q)] = Dir
            BY <1>5 DEF ParentIsDir
        <3> QED
            BY <1>3, <1>4, <3>1, <3>2, MovingStarts DEF Targets
    <2> QED
        BY <1>1, <1>2, <1>5, <2>1, <2>2, LockTaken
<1>6. CASE Fails(c) /\ UNCHANGED <<tree, holder, before, torn>>
    BY <1>1, <1>6, FreeReturns
<1> QED
    BY <1>2, <1>4, <1>5, <1>6 DEF MovePath

\* The holder of the lock goes on with its rows.
LEMMA HolderGoesOn ==
    ASSUME TreeInv, NEW c \in Clients, holder = c, UNCHANGED <<holder, before, torn>>,
           NEW gone \in SUBSET Paths, NEW moves \in SUBSET Paths,
           call' = [call EXCEPT ![c] = [todo |-> call[c].todo, gone |-> gone, moves |-> moves]],
           tree' \in [Paths -> Nodes],
           \/ /\ Now(c).op = "delete" /\ Deleting(tree', before, Now(c).path, gone, moves)
           \/ /\ Now(c).op = "rename" /\ Moving(tree', before, Now(c).path, Now(c).dst, gone, moves)
    PROVE  TreeInv'
<1>1. TypePart /\ call[c].todo # << >> /\ holder # None
    BY Holding DEF TreeInv
<1>2. PICK r : r = [todo |-> call[c].todo, gone |-> gone, moves |-> moves]
    OBVIOUS
<1>3. r \in CallRecs /\ r.todo = call[c].todo /\ r.gone = gone /\ r.moves = moves
    <2>1. call[c] \in CallRecs
        BY <1>1 DEF TypePart
    <2>2. call[c].todo \in Seq(Calls)
        BY <2>1 DEF CallRecs
    <2> QED
        BY <1>2, <2>2 DEF CallRecs
<1>4. call' \in [Clients -> CallRecs] /\ call'[c] = r
    BY <1>1, <1>2, <1>3, CallsChange
<1>5. TypePart'
    BY <1>1, <1>4 DEF TypePart
<1>6. Now(c)' = Now(c)
    BY <1>3, <1>4 DEF Now
<1>7. HeldPart'
    BY <1>1, <1>3, <1>4, <1>6 DEF HeldPart
<1>8. ParentPart'
    BY <1>1 DEF TreeInv, ParentPart, Connected
<1> QED
    BY <1>5, <1>7, <1>8 DEF TreeInv

\* A row goes.
LEMMA DropRowKeeps == ASSUME MovesApart, TreeInv, NEW c \in Clients, DropRow(c) PROVE TreeInv'
<1>1. holder = c /\ UNCHANGED <<holder, before, torn>>
    BY DEF DropRow
<1>2. PICK p \in First(call[c].gone) :
         /\ tree' = [tree EXCEPT ![p] = None]
         /\ call' = [call EXCEPT ![c].gone = @ \ {p}]
    BY DEF DropRow
<1>3. PICK s, G, M : s = call[c].todo /\ G = call[c].gone /\ M = call[c].moves
    OBVIOUS
<1>4. p \in G
    BY <1>2, <1>3 DEF First
<1>5. TypePart /\ tree \in [Paths -> Nodes] /\ None \in Nodes
    BY DEF TreeInv, TypePart, Nodes
<1>6. call[c] = [todo |-> s, gone |-> G, moves |-> M] /\ G \in SUBSET Paths /\ M \in SUBSET Paths
    <2>1. call[c] \in CallRecs
        BY <1>5 DEF TypePart
    <2> QED
        BY <1>3, <2>1 DEF CallRecs
<1>7. PICK D : D = G \ {p}
    OBVIOUS
<1>8. D \in SUBSET Paths /\ call' = [call EXCEPT ![c] = [todo |-> s, gone |-> D, moves |-> M]]
    <2>1. PICK r : r = [todo |-> s, gone |-> D, moves |-> M]
        OBVIOUS
    <2>2. r = [call[c] EXCEPT !.gone = D]
        BY <1>6, <2>1
    <2>3. call' = [call EXCEPT ![c].gone = @ \ {p}]
        BY <1>2
    <2>4. call' = [call EXCEPT ![c].gone = D]
        BY <1>3, <1>7, <2>3
    <2>5. call' = [call EXCEPT ![c] = r]
        BY <1>5, <2>2, <2>4 DEF TypePart
    <2> QED
        BY <1>6, <1>7, <2>1, <2>5
<1>9. tree' \in [Paths -> Nodes]
    BY <1>2, <1>5
<1>10. CASE Now(c).op = "delete"
    <2>1. Deleting(tree, before, Now(c).path, G, M)
        BY <1>1, <1>3, <1>10, Holding
    <2>2. Deleting(tree', before, Now(c).path, D, M)
        BY <1>2, <1>4, <1>5, <1>7, <2>1, DeletingDrops
    <2> QED
        BY <1>1, <1>3, <1>6, <1>8, <1>9, <1>10, <2>2, HolderGoesOn
<1>11. CASE Now(c).op = "rename"
    <2>1. Moving(tree, before, Now(c).path, Now(c).dst, G, M)
        BY <1>1, <1>3, <1>11, Holding
    <2>2. Fits(Now(c).path, Now(c).dst)
        BY <2>1, MovesFit DEF Moving
    <2>3. PICK u : u = tree'
        OBVIOUS
    <2>4. Moving(u, before, Now(c).path, Now(c).dst, D, M)
        BY <1>2, <1>4, <1>5, <1>7, <2>1, <2>2, <2>3, MovingDrops
    <2> QED
        BY <1>1, <1>3, <1>6, <1>8, <1>9, <1>11, <2>3, <2>4, HolderGoesOn
<1> QED
    BY <1>1, <1>10, <1>11, Holding

\* A row is stored at its new place: the one that was read, whole.
LEMMA StoreRowKeeps == ASSUME MovesApart, TreeInv, NEW c \in Clients, StoreRow(c) PROVE TreeInv'
<1>1. holder = c /\ UNCHANGED <<holder, before, torn>> /\ call[c].gone = {}
    BY DEF StoreRow
<1>2. PICK src, dst : src = Now(c).path /\ dst = Now(c).dst
    OBVIOUS
<1>3. PICK p \in First(call[c].moves) :
         /\ tree' = [tree EXCEPT ![Image(p, src, dst)] = Copied(p)]
         /\ call' = [call EXCEPT ![c].gone = {p}, ![c].moves = @ \ {p}]
    BY <1>2 DEF StoreRow
<1>4. PICK s, M : s = call[c].todo /\ M = call[c].moves
    OBVIOUS
<1>5. p \in M
    BY <1>3, <1>4 DEF First
<1>6. TypePart /\ tree \in [Paths -> Nodes] /\ before \in [Paths -> Nodes]
    BY DEF TreeInv, TypePart
<1>7. call[c] = [todo |-> s, gone |-> {}, moves |-> M] /\ M \in SUBSET Paths
    <2>1. call[c] \in CallRecs
        BY <1>6 DEF TypePart
    <2> QED
        BY <1>1, <1>4, <2>1 DEF CallRecs
<1>8. PICK D, E : D = {p} /\ E = M \ {p}
    OBVIOUS
<1>9. D \in SUBSET Paths /\ E \in SUBSET Paths
    BY <1>5, <1>7, <1>8
<1>10. call' = [call EXCEPT ![c] = [todo |-> s, gone |-> D, moves |-> E]]
    <2>1. call' = [[call EXCEPT ![c].gone = {p}] EXCEPT ![c].moves = @ \ {p}]
        BY <1>3
    <2>2. PICK r : r = [todo |-> s, gone |-> D, moves |-> E]
        OBVIOUS
    <2>3. PICK f : f = [call EXCEPT ![c].gone = D]
        OBVIOUS
    <2>4. PICK v : v = [todo |-> s, gone |-> D, moves |-> M]
        OBVIOUS
    <2>5. v = [call[c] EXCEPT !.gone = D]
        BY <1>7, <2>4
    <2>6. f = [call EXCEPT ![c] = v]
        BY <1>6, <2>3, <2>5 DEF TypePart
    <2>7. call' = [f EXCEPT ![c].moves = @ \ {p}]
        BY <1>8, <2>1, <2>3
    <2>8. f[c] = v /\ v.moves = M
        BY <1>6, <2>4, <2>6 DEF TypePart
    <2>9. r = [v EXCEPT !.moves = E]
        BY <2>2, <2>4
    <2>10. call' = [f EXCEPT ![c] = r]
        BY <1>6, <1>8, <2>6, <2>7, <2>8, <2>9 DEF TypePart
    <2>11. call' = [call EXCEPT ![c] = r]
        BY <1>6, <2>6, <2>10 DEF TypePart
    <2> QED
        BY <2>2, <2>11
<1>11. Now(c).op = "rename"
    BY <1>1, <1>4, <1>5, Holding DEF Deleting
<1>12. Moving(tree, before, src, dst, {}, M)
    BY <1>1, <1>2, <1>4, <1>11, Holding
<1>13. Fits(src, dst)
    BY <1>12, MovesFit DEF Moving
<1>14. Copied(p) = before[p]
    <2>1. p \in Under(src)
        BY <1>5, <1>12 DEF Moving, Rows
    <2>2. tree[p] = before[p]
        BY <1>5, <1>12, <2>1 DEF Moving
    <2> QED
        BY <2>2 DEF Copied
<1>15. PICK u : u = tree'
    OBVIOUS
<1>16. u = [tree EXCEPT ![Image(p, src, dst)] = before[p]]
    BY <1>3, <1>14, <1>15
<1>17. Moving(u, before, src, dst, {p}, M \ {p})
    BY <1>5, <1>6, <1>12, <1>13, <1>16, MovingStores
<1>18. tree' \in [Paths -> Nodes]
    BY <1>5, <1>6, <1>7, <1>15, <1>16
<1> QED
    BY <1>1, <1>2, <1>4, <1>8, <1>9, <1>10, <1>11, <1>15, <1>17, <1>18, HolderGoesOn

\* A call stops in the middle: if it changed anything, that is seen.
LEMMA ChangeFailsKeeps == ASSUME TreeInv, NEW c \in Clients, ChangeFails(c) PROVE TreeInv'
<1>1. /\ holder = c /\ Fails(c) /\ holder' = None /\ before' = NoTree /\ tree' = tree
      /\ torn' = (torn \/ tree # before)
    BY DEF ChangeFails
<1>2. TypePart /\ holder # None
    BY <1>1, Holding DEF TreeInv
<1>3. call' \in [Clients -> CallRecs]
    BY <1>1, <1>2, Returned
<1>4. TypePart'
    <2>1. NoTree \in [Paths -> Nodes]
        BY NoneIsNode DEF NoTree
    <2>2. torn' \in BOOLEAN
        BY <1>1, <1>2 DEF TypePart
    <2> QED
        BY <1>1, <1>2, <1>3, <2>1, <2>2 DEF TypePart
<1>5. ASSUME ~torn' PROVE Connected(tree)'
    <2>1. ~torn /\ tree = before
        BY <1>1, <1>2, <1>5 DEF TypePart
    <2>2. Connected(before)
        BY <1>2, <2>1 DEF TreeInv, ParentPart
    <2> QED
        BY <1>1, <2>1, <2>2 DEF Connected
<1> QED
    BY <1>1, <1>4, <1>5, LockFree

\* The end of a DELETE or of a MOVE.
LEMMA UnlockKeeps == ASSUME MovesApart, TreeInv, NEW c \in Clients, Unlock(c) PROVE TreeInv'
<1>1. /\ holder = c /\ Return(c) /\ holder' = None /\ before' = NoTree /\ UNCHANGED <<tree, torn>>
      /\ call[c].gone = {} /\ call[c].moves = {}
    BY DEF Unlock, RowsLeft
<1>2. TypePart /\ holder # None /\ call[c].todo # << >>
    BY <1>1, Holding DEF TreeInv
<1>3. call' \in [Clients -> CallRecs]
    BY <1>1, <1>2, Returned
<1>4. TypePart'
    <2>1. NoTree \in [Paths -> Nodes]
        BY NoneIsNode DEF NoTree
    <2> QED
        BY <1>1, <1>2, <1>3, <2>1 DEF TypePart
<1>5. ASSUME ~torn' PROVE Connected(tree)'
    <2>1. Connected(before)
        BY <1>1, <1>2, <1>5 DEF TreeInv, ParentPart
    <2>2. CASE Now(c).op = "delete"
        <3>1. Deleting(tree, before, Now(c).path, {}, call[c].moves)
            BY <1>1, <2>2, Holding
        <3>2. Now(c).path \in Seq(Names)
            BY <1>2, NowIs
        <3>3. Connected(tree)
            BY <2>1, <3>1, <3>2, DeletingEnds
        <3> QED
            BY <1>1, <3>3 DEF Connected
    <2>3. CASE Now(c).op = "rename"
        <3>1. Moving(tree, before, Now(c).path, Now(c).dst, {}, {})
            BY <1>1, <2>3, Holding
        <3>2. Fits(Now(c).path, Now(c).dst)
            BY <3>1, MovesFit DEF Moving
        <3>3. Connected(tree)
            BY <2>1, <3>1, <3>2, MovingEnds
        <3> QED
            BY <1>1, <3>3 DEF Connected
    <2> QED
        BY <1>1, <2>2, <2>3, Holding
<1> QED
    BY <1>1, <1>4, <1>5, LockFree

\* The process ends.
LEMMA CrashKeeps == ASSUME TreeInv, Crash PROVE TreeInv'
<1>1. /\ call' = [c \in Clients |-> Idle] /\ holder' = None /\ before' = NoTree /\ tree' = tree
      /\ torn' = (torn \/ (holder # None /\ tree # before))
    BY DEF Crash
<1>2. TypePart'
    <2>1. NoTree \in [Paths -> Nodes]
        BY NoneIsNode DEF NoTree
    <2>2. call' \in [Clients -> CallRecs]
        BY <1>1, IdleIs
    <2>3. torn' \in BOOLEAN
        BY <1>1 DEF TreeInv, TypePart
    <2> QED
        BY <1>1, <2>1, <2>2, <2>3 DEF TreeInv, TypePart
<1>3. ASSUME ~torn' PROVE Connected(tree)'
    <2>1. ~torn /\ (holder = None \/ tree = before)
        BY <1>1, <1>3 DEF TreeInv, TypePart
    <2>2. Connected(tree)
        BY <2>1 DEF TreeInv, ParentPart
    <2> QED
        BY <1>1, <2>2 DEF Connected
<1> QED
    BY <1>1, <1>2, <1>3, LockFree

\* Every step keeps the invariant.
LEMMA TreeStep == ASSUME MovesApart, TreeInv, [Next]_vars PROVE TreeInv'
<1>1. CASE Crash
    BY <1>1, CrashKeeps
<1>2. ASSUME NEW c \in Clients, Request(c) PROVE TreeInv'
    BY <1>2, RequestKeeps
<1>3. ASSUME NEW c \in Clients, Step(c) PROVE TreeInv'
    <2>1. CASE MoveFiles(c)
        BY <2>1, MoveFilesKeeps
    <2>2. CASE CopyFiles(c)
        BY <2>2, CopyFilesKeeps
    <2>3. CASE CopyChildren(c)
        BY <2>3, CopyChildrenKeeps
    <2>4. CASE PutFile(c)
        BY <2>4, PutFileKeeps
    <2>5. CASE Mkcol(c)
        BY <2>5, MkcolKeeps
    <2>6. CASE DeletePath(c)
        BY <2>6, DeletePathKeeps
    <2>7. CASE MovePath(c)
        BY <2>7, MovePathKeeps
    <2>8. CASE DropRow(c)
        BY <2>8, DropRowKeeps
    <2>9. CASE StoreRow(c)
        BY <2>9, StoreRowKeeps
    <2>10. CASE ChangeFails(c)
        BY <2>10, ChangeFailsKeeps
    <2>11. CASE Unlock(c)
        BY <2>11, UnlockKeeps
    <2> QED
        BY <1>3, <2>1, <2>2, <2>3, <2>4, <2>5, <2>6, <2>7, <2>8, <2>9, <2>10, <2>11 DEF Step
<1>4. CASE UNCHANGED vars
    <2>1. TypePart'
        BY <1>4 DEF TreeInv, TypePart, vars
    <2>2. HeldPart'
        <3>1. UNCHANGED <<tree, holder, call, before>>
            BY <1>4 DEF vars
        <3>2. ASSUME NEW c \in Clients PROVE Now(c)' = Now(c)
            BY <3>1 DEF Now
        <3> QED
            BY <3>1, <3>2 DEF TreeInv, HeldPart
    <2>3. ParentPart'
        BY <1>4 DEF TreeInv, ParentPart, Connected, vars
    <2> QED
        BY <2>1, <2>2, <2>3 DEF TreeInv
<1> QED
    BY <1>1, <1>2, <1>3, <1>4 DEF Next

-----------------------------------------------------------------------------
(* Theorems.                                                               *)

\* DELETE and MOVE run row by row under the lock, each row where the invariant says.
THEOREM TreeInvariant == MovesApart /\ Spec => []TreeInv
<1>1. ASSUME MovesApart PROVE Init /\ [][Next]_vars => []TreeInv
    <2>1. Init => TreeInv
        BY TreeInitially
    <2>2. TreeInv /\ [Next]_vars => TreeInv'
        BY <1>1, TreeStep
    <2> QED
        BY <2>1, <2>2, PTL
<1> QED
    BY <1>1 DEF Spec

\* At rest, and unless a call stopped in the middle or a PUT went over a collection
\* with members, every row is in a collection (checkParentDir under the lock).
THEOREM TreeStaysConnected == MovesApart /\ Spec => []TreeConnected
<1>1. TreeInv => TreeConnected
    BY DEF TreeInv, ParentPart, TreeConnected
<1> QED
    BY <1>1, TreeInvariant, PTL

\* While a file or a collection moves, and wherever that stops, each of its files is whole
\* at its old or at its new place (MovePath: upsert, then delete, row by row).
THEOREM TreeMoveKeepsFiles == MovesApart /\ Spec => []MoveLosesNothing
<1>1. TreeInv => MoveLosesNothing
    <2> SUFFICES ASSUME TreeInv, holder # None, Calling(holder, "rename"), NEW r \in Moved
                 PROVE  before[r] \in {tree[r], tree[Image(r, Now(holder).path, Now(holder).dst)]}
        BY DEF MoveLosesNothing
    <2>1. PICK c \in Clients : c = holder
        BY DEF TreeInv, TypePart
    <2>2. PICK src, dst : src = Now(c).path /\ dst = Now(c).dst
        OBVIOUS
    <2>3. Moving(tree, before, src, dst, call[c].gone, call[c].moves)
        BY <2>1, <2>2, Holding DEF Calling, Now
    <2>4. r \in Rows(before, src) /\ r \in Under(src)
        BY <2>1, <2>2 DEF Moved, Rows
    <2>5. CASE r \in call[c].moves
        BY <2>1, <2>2, <2>3, <2>4, <2>5 DEF Moving
    <2>6. CASE r \notin call[c].moves
        BY <2>1, <2>2, <2>3, <2>4, <2>6 DEF Moving
    <2> QED
        BY <2>5, <2>6
<1> QED
    BY <1>1, TreeInvariant, PTL

\* When the last row is done a DELETE has removed the collection, and a MOVE has made the
\* target the source and nothing else (DeletePath, MovePath: the rows of the target
\* except those of the source go first).
THEOREM TreeCallsExact == MovesApart /\ Spec => []CallsAreExact
<1>1. TreeInv => CallsAreExact
    <2> SUFFICES ASSUME TreeInv, holder # None, RowsLeft(holder) = {}, NEW src, NEW dst,
                        src = Now(holder).path, dst = Now(holder).dst, NEW p \in Paths
                 PROVE  tree[p] =
                          IF Now(holder).op = "rename" /\ p \in Under(dst)
                          THEN IF {r \in Moved : Image(r, src, dst) = p} = {} THEN None
                               ELSE before[CHOOSE r \in {r \in Moved : Image(r, src, dst) = p} : TRUE]
                          ELSE IF p \in Under(src) THEN None ELSE before[p]
        BY DEF CallsAreExact
    <2>1. PICK c \in Clients : c = holder
        BY DEF TreeInv, TypePart
    <2>2. call[c].gone = {} /\ call[c].moves = {}
        BY <2>1 DEF RowsLeft
    <2>3. CASE Now(c).op = "delete"
        <3>1. Deleting(tree, before, src, {}, {})
            BY <2>1, <2>2, <2>3, Holding
        <3> QED
            BY <2>1, <2>3, <3>1 DEF Deleting
    <2>4. CASE Now(c).op = "rename"
        <3>1. Moving(tree, before, src, dst, {}, {})
            BY <2>1, <2>2, <2>4, Holding
        <3>2. PICK O : O = {r \in Moved : Image(r, src, dst) = p}
            OBVIOUS
        <3>3. \A r : r \in O <=> r \in Rows(before, src) /\ Image(r, src, dst) = p
            BY <3>2 DEF Moved, Rows
        <3>4. CASE p \in Under(dst) /\ O = {}
            <4>1. tree[p] = None
                BY <3>1, <3>3, <3>4 DEF Moving
            <4> QED
                BY <2>1, <2>4, <3>2, <3>4, <4>1
        <3>5. CASE p \in Under(dst) /\ O # {}
            <4>1. PICK r : r = CHOOSE x \in O : TRUE
                OBVIOUS
            <4>2. r \in O
                BY <3>5, <4>1
            <4>3. tree[p] = before[r]
                BY <3>1, <3>3, <4>2 DEF Moving
            <4> QED
                BY <2>1, <2>4, <3>2, <3>5, <4>1, <4>3
        <3>6. CASE p \notin Under(dst)
            <4>1. tree[p] = IF p \in Under(src) THEN None ELSE before[p]
                BY <3>1, <3>6 DEF Moving
            <4> QED
                BY <3>6, <4>1
        <3> QED
            BY <3>4, <3>5, <3>6
    <2> QED
        BY <2>1, <2>3, <2>4, Holding
<1> QED
    BY <1>1, TreeInvariant, PTL
=============================================================================
