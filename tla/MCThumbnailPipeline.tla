------------------------ MODULE MCThumbnailPipeline ------------------------
(* The thumbnail pipeline with a few pages, photos and workers. *)
EXTENDS ThumbnailPipeline, TLC

OneTicket == {1}
TwoTickets == {1, 2}
TwoIndices == {0, 1}
ThreeIndices == {0, 1, 2}
OneIndex == {0}
MCRotations == {0}
MCPriorities == 1 .. (MaxInsertions + 1)
Nothing == {}
OneToThree == {{0}, {0, 1}, {0, 1, 2}}
JustOne == {{0}}
JustTwo == {{0, 1}}
Symmetry == Permutations(Workers) \cup Permutations(Pages)
=============================================================================
