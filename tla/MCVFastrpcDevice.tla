-------------------------- MODULE MCVFastrpcDevice --------------------------
EXTENDS VFastrpcDevice, TLC

AllSteps == DOMAIN After \cup {"rx", "tx"}

DeviceSymmetry ==
    Permutations(Threads) \cup Permutations(Domains) \cup Permutations(Cids)

=============================================================================
