------------------------------ MODULE MCWebTabs ------------------------------
(***************************************************************************)
(* Model-checking instance of WebTabs.                                     *)
(***************************************************************************)
EXTENDS WebTabs, TLC

CONSTANTS b1, b2, s1, s2, t1, t2, t3, t4, t5

Symmetry == Permutations(Tabs) \cup Permutations(Tokens) \cup Permutations(Slots)
=============================================================================
