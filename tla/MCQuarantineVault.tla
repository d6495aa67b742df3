-------------------------- MODULE MCQuarantineVault --------------------------
EXTENDS QuarantineVault, TLC

CONSTANTS q1, q2

MCSymmetry == Permutations(Quarantines)
=============================================================================
