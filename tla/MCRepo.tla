------------------------------- MODULE MCRepo -------------------------------
EXTENDS Repo, TLC

Symmetry == Permutations(Puts) \union Permutations(Hashes) \union Permutations(Paths)
=============================================================================
