--------------------------- MODULE MCPhotoViewer ---------------------------
(* Two pages over a small cache of photos. *)
EXTENDS PhotoViewer, TLC

CONSTANTS a, b, c, x, y

Lists == {<<>>, <<b, c, a>>}
\* b is a copy of a.
Copies == [f \in Paths |-> IF f = c THEN y ELSE x]
Numbers == {-1, 9}
PageSymmetry == Permutations(Pages)
=============================================================================
