---------------------------- MODULE MCSpawnRounds ----------------------------
EXTENDS SpawnRounds, TLC

KidSymmetry == Permutations(Kids)
=============================================================================
