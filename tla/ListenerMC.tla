----------------------------- MODULE ListenerMC -----------------------------
(***************************************************************************)
(* Live coding with three patches, read in two pieces; the second does not *)
(* compile and the third fills its buffer.                                 *)
(***************************************************************************)
EXTENDS Listener

Second == {2}
Third == {3}
=============================================================================
