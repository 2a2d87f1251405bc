---------------------------- MODULE MCPodCapture ----------------------------
(***************************************************************************)
(* Values for PodCapture: photos and a video that were captured apart, or  *)
(* the same photos sent under two ids.                                     *)
(***************************************************************************)
EXTENDS PodCapture, TLC

Apart == [c1 |-> {"front"}, c2 |-> {"clip"}]
Again == [c1 |-> {"front"}, c2 |-> {"front"}]

ApartOrAgain == {Apart, Again}

Interchangeable == Permutations(Phones) \cup Permutations(Executors) \cup Permutations(Keys)
=============================================================================
