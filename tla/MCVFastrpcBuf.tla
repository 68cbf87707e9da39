---------------------------- MODULE MCVFastrpcBuf ---------------------------
EXTENDS VFastrpcBuf, TLC

BufSymmetry == Permutations(Bufs) \cup Permutations(Ctxs) \cup Permutations(Descs)

=============================================================================
