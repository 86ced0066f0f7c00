--------------------------- MODULE MCQuerySession ---------------------------
(* A query dialog with a few photos and projects. *)
EXTENDS QuerySession, TLC

TwoIds == {1, 2}
ThreeIds == {1, 2, 3}
MCFilePath == [i \in PhotoIds |-> 10 + i]
ProjectSymmetry == Permutations(ProjectNames)
=============================================================================
