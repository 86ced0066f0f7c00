--------------------------- MODULE MCPhotoImport ---------------------------
(* Import windows over a small library. *)
EXTENDS PhotoImport, TLC

LibrarySymmetry == Permutations(Importers) \cup Permutations(Paths) \cup Permutations(Contents)
=============================================================================
