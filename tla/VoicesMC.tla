------------------------------ MODULE VoicesMC ------------------------------
(***************************************************************************)
(* Voices for TLC.                                                         *)
(***************************************************************************)
EXTENDS Voices

\* Notes that last, that end in the tick they start in, and that take a tick.
AnyDuration == {-1, 0, 1}
\* Notes that take time.
LongDurations == {-1, 1}

AnyGarbage == {-1, 0}
NoGarbage == {-1}
===========================================================================
