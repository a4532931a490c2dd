---------------------------- MODULE MCCommandLine ----------------------------
EXTENDS CommandLine, TLC

AnyInterval == {0, 99}

Symmetry == Permutations(Procs) \cup Permutations(Entries \ ReadOnly)
=============================================================================
