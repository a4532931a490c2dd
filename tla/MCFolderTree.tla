---------------------------- MODULE MCFolderTree ----------------------------
(***************************************************************************)
(* Model-checking instances of FolderTree.                                 *)
(***************************************************************************)
EXTENDS FolderTree, TLC

CONSTANTS r1, r2, fa, fb, fc, e1
=============================================================================
