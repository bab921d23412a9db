--------------------------- MODULE MCGossipNetwork ---------------------------
EXTENDS GossipNetwork, TLC

CONSTANTS p1, r1, r2, x, y, dA, dB

Symmetry == Permutations(Receiver) \cup Permutations(RepoId) \cup Permutations(Digest)
=============================================================================
