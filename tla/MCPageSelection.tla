-------------------------- MODULE MCPageSelection --------------------------
(* A page of three photos, two of them copies, and a page of two copies with *)
(* a thumbnail that is followed and reads that may fail.                     *)
EXTENDS PageSelection

TwoPages == {<<"b", "c", "d">>, <<"a", "b">>}
MCPaths == {"a", "b", "c", "d"}
MCContents == {"x", "y"}
WithCopies == [p \in MCPaths |-> IF p = "c" THEN "y" ELSE "x"]
QuarterTurns == 0 .. 3
FailingOnTheSmall == [page \in TwoPages |-> IF Len(page) = 2 THEN 1 ELSE 0]
JustTheFirst == {"a"}
=============================================================================
