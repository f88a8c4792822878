------------------------------- MODULE MCTree -------------------------------
EXTENDS PathTree, TLC
CONSTANTS a, b, x, old, new
A == <<a>>
B == <<b>>
AX == <<a, x>>
BX == <<b, x>>
AB == <<a, b>>
ABX == <<a, b, x>>
MCPaths == {A, B, AX, BX, AB, ABX}
MCTrees == {[p \in Paths |-> IF p \in ds THEN Dir ELSE IF p \in fs THEN old ELSE None] :
               <<ds, fs>> \in {<<{A, B}, {AX, BX}>>, <<{A, AB}, {ABX, B}>>, <<{A, B, AB}, {AX, BX, ABX}>>}}
MCMoves == {<<B, AB>>, <<AB, B>>, <<AB, A>>, <<AX, BX>>}

\* A collection moves to the place of the one it is in; both have an x (not in the run:
\* it shows a limit of MovePath).
ABB  == <<a, b, b>>
ABBX == <<a, b, b, x>>
MCNestedPaths == {A, AX, AB, ABX, ABB, ABBX}
MCNestedTrees == {[p \in Paths |-> CASE p \in {A, AB, ABB} -> Dir [] p = ABX -> old [] p = ABBX -> new
                                     [] OTHER -> None]}
MCNestedMoves == {<<AB, A>>}

Symmetry == Permutations(Clients)
=============================================================================
