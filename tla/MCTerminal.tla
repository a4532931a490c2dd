----------------------------- MODULE MCTerminal -----------------------------
(***************************************************************************)
(* Instances of Terminal for TLC.                                          *)
(***************************************************************************)
EXTENDS Terminal, TLC

CONSTANTS e1, e2, r1, r2

Symmetric == Permutations(Runners) \cup Permutations(Entries)

=============================================================================
