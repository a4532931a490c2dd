----------------------------- MODULE MCAccounts -----------------------------
(***************************************************************************)
(* Instances of Accounts for TLC.                                          *)
(***************************************************************************)
EXTENDS Accounts, TLC

CONSTANTS a, b, c, i1, s1, s2

Symmetric == Permutations(Emails) \cup Permutations(Slots)

=============================================================================
