----------------------------- MODULE MCShareLinks -----------------------------
EXTENDS ShareLinks, TLC

Symmetry == Permutations(Clients) \cup Permutations(Requests)
=============================================================================
