--------------------------- MODULE MCVFastrpcCaps ---------------------------
EXTENDS VFastrpcCaps, TLC

CapsSymmetry == Permutations(Threads) \cup Permutations(Domains)

=============================================================================
