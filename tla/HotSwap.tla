------------------------------ MODULE HotSwap ------------------------------
(***************************************************************************)
(* What the engine promises to someone who edits a patch while it plays.   *)
(*                                                                         *)
(* At every moment one whole patch plays, with the tables it was compiled  *)
(* with.  A recompilation puts another whole patch in its place, in one    *)
(* step, or leaves everything as it was.                                   *)
(***************************************************************************)
CONSTANTS
  Patches,   \* what programs compile to
  NoPatch    \* nothing plays; not one of Patches

VARIABLES phase, patch

vars == <<phase, patch>>

Init == phase = "loading" /\ patch = NoPatch

Accept  == phase = "loading" /\ phase' = "playing" /\ patch' \in Patches
Replace == phase = "playing" /\ UNCHANGED phase /\ patch' \in Patches
Stop    == phase # "stopped" /\ phase' = "stopped" /\ patch' = NoPatch

Next == Accept \/ Replace \/ Stop

Spec == Init /\ [][Next]_vars
===========================================================================
