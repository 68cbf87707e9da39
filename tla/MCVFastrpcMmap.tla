--------------------------- MODULE MCVFastrpcMmap ---------------------------
EXTENDS VFastrpcMmap, TLC

MmapSymmetry == Permutations(Maps) \cup Permutations(Ctxs) \cup Permutations(Fds)

=============================================================================
