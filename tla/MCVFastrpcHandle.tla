-------------------------- MODULE MCVFastrpcHandle --------------------------
EXTENDS VFastrpcHandle, TLC

HandleSymmetry == Permutations(Ctxs)

=============================================================================
