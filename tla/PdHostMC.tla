------------------------------ MODULE PdHostMC ------------------------------
(***************************************************************************)
(* Programs of no atom, of one, of as much as fits, and of one more.       *)
(***************************************************************************)
EXTENDS PdHost

MCSize == [empty |-> 0, short |-> 2, full |-> 4, long |-> 5]
=============================================================================
