-------------------------- MODULE MCVFastrpcInvoke --------------------------
EXTENDS VFastrpcInvoke, TLC

CONSTANTS f1

\* All threads belong to one process.
OneFile == [t \in Threads |-> f1]

InvokeSymmetry ==
    Permutations(Msgs) \cup Permutations(RxBufs) \cup Permutations(Threads)
        \cup Permutations(Args)

=============================================================================
