---------------------------- MODULE RenderLoopMC ----------------------------
(***************************************************************************)
(* A counter of four bits and blocks of three samples.                     *)
(***************************************************************************)
EXTENDS RenderLoop

SomeLengths == {0, 1, 2, 3, 7}
=============================================================================
