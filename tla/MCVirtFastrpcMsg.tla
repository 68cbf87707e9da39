-------------------------- MODULE MCVirtFastrpcMsg --------------------------
EXTENDS VirtFastrpcMsg, TLC

\* Messages, workers and rx buffers are interchangeable; slots and tx buffers,
\* which the code takes in order, are not.
MsgSymmetry ==
    Permutations(Msgs) \cup Permutations(Workers) \cup Permutations(RxBufs)

=============================================================================
