---------------------------- MODULE MCEntryStore ----------------------------
(***************************************************************************)
(* Model-checking instances of EntryStore.                                 *)
(***************************************************************************)
EXTENDS EntryStore, TLC

CONSTANTS r1, r2, alice, bob, carol, f1

\* Slots are interchangeable.
SlotSymmetry == Permutations({r1, r2})
=============================================================================
