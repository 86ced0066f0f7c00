---------------------------- MODULE MCPhotoStore ----------------------------
(* A small library in its tables. *)
EXTENDS PhotoStore, TLC

StoreSymmetry ==
  Permutations(Paths) \cup Permutations(Contents) \cup Permutations(ProjectNames)
=============================================================================
