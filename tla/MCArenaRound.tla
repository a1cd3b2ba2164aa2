---------------------------- MODULE MCArenaRound ----------------------------
EXTENDS ArenaRound, TLC

Symmetry == Permutations(Replica) \cup Permutations(Version)
=============================================================================
