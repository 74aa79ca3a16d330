--------------------------- MODULE MCBufferCache ----------------------------
EXTENDS BufferCache, TLC

OneProcess == [t \in Users |-> 1]
UserBlockSymmetry == Permutations(Users) \union Permutations(Blocks)
=============================================================================
