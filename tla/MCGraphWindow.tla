--------------------------- MODULE MCGraphWindow ---------------------------
(* GraphWindow for TLC: cameras may be exchanged, and controls.            *)
EXTENDS GraphWindow, TLC

SceneSymmetry == Permutations(Scenes) \cup Permutations(Cameras) \cup Permutations(Controls)
=============================================================================
