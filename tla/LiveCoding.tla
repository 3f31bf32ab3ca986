----------------------------- MODULE LiveCoding -----------------------------
(***************************************************************************)
(* What live coding over the network promises: the patch that plays is one *)
(* that was sent, whole, and a later one never gives way to an earlier.    *)
(* Some of what is sent may never play: it may be lost or not compile.     *)
(***************************************************************************)
EXTENDS Integers

CONSTANT MaxSent   \* bounds how often the coder sends

VARIABLES
  sent,      \* how many patches have been sent; they are numbered from 1
  playing    \* the number of the one that plays; 0 is the first program

vars == <<sent, playing>>

Init == sent = 0 /\ playing = 0

Send == sent < MaxSent /\ sent' = sent + 1 /\ UNCHANGED playing

Play == playing' \in playing + 1 .. sent /\ UNCHANGED sent

Next == Send \/ Play

Spec == Init /\ [][Next]_vars
=============================================================================
