---------------------------- MODULE MCSurgeClaim ----------------------------
EXTENDS SurgeClaim, TLC

HostSymmetry == Permutations(Hosts)

=============================================================================
