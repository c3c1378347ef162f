---------------------------- MODULE MCPodLogRelay ----------------------------
(* A small instance of PodLogRelay: the windows are so small, in time and in *)
(* lines, that each mishap that NothingSkipped names happens.                *)
EXTENDS PodLogRelay, TLC

\* The viewers are interchangeable.
Symmetry == Permutations(Viewers)
=============================================================================
