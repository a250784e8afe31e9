-------------------------------- MODULE MCFeed --------------------------------
(* Feed with its pairs and directions interchangeable: no action and no       *)
(* property tells them apart, and the runs check safety only.                 *)
EXTENDS Feed

Interchangeable == Permutations(Pairs) \cup Permutations(Directions)
=============================================================================
