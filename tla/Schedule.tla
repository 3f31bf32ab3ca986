------------------------------ MODULE Schedule ------------------------------
(***************************************************************************)
(* What PolySporth promises to someone who writes a note list: an event    *)
(* asked for at some tick happens during that tick, once.  What happens    *)
(* first within a tick is not promised.                                    *)
(***************************************************************************)
EXTENDS Integers

VARIABLES
  now,      \* the number of the next tick
  pending,  \* events to come, each with the tick it is asked for
  done      \* how many events have happened

vars == <<now, pending, done>>

Init == now = 0 /\ pending = {} /\ done = 0

Add ==
  /\ pending \subseteq pending'
  /\ \A e \in pending' \ pending : e.time >= now
  /\ UNCHANGED <<now, done>>

Play ==
  /\ \E e \in pending : e.time = now /\ pending' = pending \ {e}
  /\ done' = done + 1
  /\ UNCHANGED now

Tick ==
  /\ \A e \in pending : e.time > now
  /\ now' = now + 1
  /\ UNCHANGED <<pending, done>>

Next == Add \/ Play \/ Tick

Spec == Init /\ [][Next]_vars
=============================================================================
