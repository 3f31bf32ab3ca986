------------------------------- MODULE Voices -------------------------------
(***************************************************************************)
(* The voices of PolySporth (ugens/polysporth/ps.c).                       *)
(*                                                                         *)
(* A patch may own a number of sporthlets, small patches that play notes.  *)
(* Those that sound form a list, linked by hand in both directions, whose  *)
(* length is kept apart in nvoices.  Three loops run over the list, each   *)
(* of them nvoices rounds long: a tick of the clock ages the voices, a     *)
(* sample computes them, and a third loop removes those that asked for it  *)
(* while they were computed.  Scheme code changes the list as well, when   *)
(* it is loaded and from the events of a tick (f.c).                       *)
(*                                                                         *)
(* A step is one call from scheme, one event, or one round of a loop.      *)
(***************************************************************************)
EXTENDS Integers, FiniteSets

CONSTANTS
  ninstances,   \* the number of voices
  Durations,    \* of notes, in ticks; a negative one lasts
  Garbage,      \* what malloc may leave in the dur of a voice
  Careful       \* scheme code names only voices it has allocated

ASSUME VoicesAssumption ==
  /\ ninstances \in Nat \ {0}
  /\ Durations \subseteq Int
  /\ Garbage \subseteq Int
  /\ Careful \in BOOLEAN

Ids == 0 .. ninstances - 1
Nil == -1
Root == -2      \* &ps->root, whose next is the first voice

PS_NULL == "null"
PS_OFF == "off"
PS_ON == "on"
PS_NOTEOFF == "noteoff"
PS_PLEASE_SHUTUP == "shutup"
States == {PS_NULL, PS_OFF, PS_ON, PS_NOTEOFF, PS_PLEASE_SHUTUP}

VARIABLES
  ps,      \* the voices and their list
  pc,      \* what the audio thread is doing
  last,    \* the voice that a loop has reached
  rounds,  \* that the loop still has to go
  count,   \* the length of the list when ps_compute began
  do_shutup,
  prev_noteoff,  \* voices whose offtick ugen has PS_NOTEOFF in prev_state
  due,     \* history: voices whose time is up and that were not computed since
  unseen   \* history: voices that the loop has yet to visit

vars == <<ps, pc, last, rounds, count, do_shutup, prev_noteoff, due, unseen>>

\* What the loops keep, for the steps that are not theirs.
loop == <<last, rounds, count, do_shutup, unseen>>

\* A loop's variables end with it.
Forgotten == last' = Root /\ rounds' = 0 /\ count' = 0 /\ do_shutup' = FALSE /\ unseen' = {}

\* Walking the list from the root, as far as nvoices goes.
Walk(s) ==
  LET place[n \in 0 .. s.nvoices] ==
        IF n = 0 THEN Root
        ELSE IF place[n - 1] = Nil THEN Nil ELSE s.next[place[n - 1]]
  IN  place
Listed == {Walk(ps)[n] : n \in 1 .. ps.nvoices}

---------------------------------------------------------------------------
(* ps_create, which does not initialise dur.                               *)

Init ==
  /\ \E dur \in [Ids -> Garbage] :
       ps = [state   |-> [i \in Ids |-> PS_NULL],
             dur     |-> dur,
             noteoff |-> [i \in Ids |-> FALSE],
             next    |-> [i \in Ids \cup {Root} |-> Nil],
             prev    |-> [i \in Ids |-> Nil],
             nvoices |-> 0]
  /\ pc = "load" /\ last = Root /\ rounds = 0 /\ count = 0 /\ do_shutup = FALSE
  /\ prev_noteoff = {} /\ due = {} /\ unseen = {}

---------------------------------------------------------------------------
(* The operations on the list, as functions of it.                         *)

\* Wrong: a new first voice does not become the prev of the old one.
turnon_HalfLinked(s, id, dur) ==
  LET linked == IF s.nvoices = 0 THEN s ELSE [s EXCEPT !.next[id] = s.next[Root]]
  IN  IF s.state[id] # PS_OFF THEN s
      ELSE [linked EXCEPT !.next[Root] = id, !.state[id] = PS_ON,
                          !.dur[id] = dur, !.nvoices = @ + 1]

ps_turnon_sporthlet(s, id, dur) ==
  LET first == s.next[Root]
      linked == IF s.nvoices = 0 THEN s
                ELSE [s EXCEPT !.next[id] = first, !.prev[first] = id]
  IN  IF s.state[id] # PS_OFF THEN s
      ELSE [linked EXCEPT !.next[Root] = id, !.state[id] = PS_ON,
                          !.dur[id] = dur, !.nvoices = @ + 1]

\* A voice in any other state stays: "this shouldn't happen".
CanTurnOff(s, id) == s.state[id] \in {PS_ON, PS_PLEASE_SHUTUP}

ps_turnoff_sporthlet(s, id) ==
  LET prev == s.prev[id]
      next == s.next[id]
      unlinked == IF s.next[Root] = id THEN [s EXCEPT !.next[Root] = next]
                  ELSE IF next = Nil THEN [s EXCEPT !.next[prev] = Nil]
                  ELSE [s EXCEPT !.next[prev] = next, !.prev[next] = prev]
  IN  IF ~CanTurnOff(s, id) THEN s
      ELSE [unlinked EXCEPT !.state[id] = PS_OFF, !.next[id] = Nil,
                            !.prev[id] = Nil, !.nvoices = @ - 1]

ps_sporthlet_noteoff(s, id) ==
  IF s.state[id] = PS_OFF THEN s ELSE [s EXCEPT !.state[id] = PS_NOTEOFF]

\* Wrong: a voice with a little time left is taken, too.
FreeSoon(s, id) == s.state[id] = PS_OFF \/ (s.dur[id] \in {0, 1} /\ ~s.noteoff[id])

\* The voices that find_free_voice takes for off, or about to be off.
Free(s, id) == s.state[id] = PS_OFF \/ (s.dur[id] = 0 /\ ~s.noteoff[id])

find_free_voice(s, grp_start, grp_end) ==
  LET lo == IF grp_start > grp_end THEN grp_end ELSE grp_start
      hi == IF grp_start > grp_end THEN grp_start ELSE grp_end
  IN  {i \in lo .. hi : Free(s, i) /\ \A j \in lo .. i - 1 : ~Free(s, j)}

---------------------------------------------------------------------------
(* Scheme code (f.c), while it is loaded and called by a metanote.         *)

Scheme == pc \in {"load", "events"}
Named(id) == Careful => ps.state[id] # PS_NULL

\* ps-eval, ps-parse and ps-init-sporthlet end by marking the voice as off.
\* Assumed: nobody compiles into a voice that sounds.
ps_eval(id) ==
  /\ Scheme /\ id \notin Listed
  /\ ps' = [ps EXCEPT !.state[id] = PS_OFF]
  /\ UNCHANGED <<pc, loop, prev_noteoff, due>>

ps_turnon(id, dur) ==
  /\ Scheme /\ Named(id)
  /\ ps' = ps_turnon_sporthlet(ps, id, dur)
  /\ UNCHANGED <<pc, loop, prev_noteoff, due>>

ps_turnoff(id) ==
  /\ Scheme /\ Named(id)
  /\ ps' = ps_turnoff_sporthlet(ps, id)
  /\ due' = IF CanTurnOff(ps, id) THEN due \ {id} ELSE due
  /\ UNCHANGED <<pc, loop, prev_noteoff>>

ps_noteoff(id) ==
  /\ Scheme /\ Named(id)
  /\ ps' = ps_sporthlet_noteoff(ps, id)
  /\ UNCHANGED <<pc, loop, prev_noteoff, due>>

ps_noteoff_mode(id) ==
  /\ Scheme /\ Named(id)
  /\ ps' = [ps EXCEPT !.noteoff[id] = TRUE]
  /\ UNCHANGED <<pc, loop, prev_noteoff, due>>

\* The file is loaded, and INIT of the ugen has called its callback.
Loaded ==
  /\ pc = "load" /\ pc' = "idle"
  /\ UNCHANGED <<ps, loop, prev_noteoff, due>>

---------------------------------------------------------------------------
(* ps_compute begins: with a tick if the clock says so (ps_tick).          *)

Tick ==
  /\ pc = "idle" /\ pc' = "events"
  /\ UNCHANGED <<ps, loop, prev_noteoff, due>>

\* An event of type PS_NOTE.  A voice about to be off is turned off early.
Note(grp_start, grp_end, dur) ==
  /\ pc = "events"
  /\ Named(grp_start) /\ Named(grp_end)
  /\ \E id \in find_free_voice(ps, grp_start, grp_end) :
       /\ ps' = LET s == IF ps.state[id] = PS_ON
                         THEN ps_turnoff_sporthlet(ps, id) ELSE ps
                IN  ps_turnon_sporthlet(s, id, dur)
       /\ due' = IF ps.state[id] = PS_ON THEN due \ {id} ELSE due
  /\ UNCHANGED <<pc, loop, prev_noteoff>>

\* No event is left, or the next one has time.
Events ==
  /\ pc = "events" /\ pc' = "clock"
  /\ last' = ps.next[Root] /\ rounds' = ps.nvoices
  /\ unseen' = Listed
  /\ UNCHANGED <<ps, count, do_shutup, prev_noteoff, due>>

\* Wrong: a voice whose time is up stays on.
DecrementedHangs(s, id) ==
  IF s.dur[id] < 0 THEN s
  ELSE IF s.dur[id] > 0 THEN [s EXCEPT !.dur[id] = @ - 1]
  ELSE s

\* ps_decrement_clock
Decremented(s, id) ==
  IF s.dur[id] < 0 THEN s
  ELSE IF s.dur[id] > 0 THEN [s EXCEPT !.dur[id] = @ - 1]
  ELSE IF s.noteoff[id] THEN ps_sporthlet_noteoff(s, id)
  ELSE ps_turnoff_sporthlet(s, id)

\* Wrong: the next voice is read after the removal.
ClockReadsLate ==
  /\ pc = "clock" /\ rounds > 0
  /\ ps' = Decremented(ps, last)
  /\ due' = IF ps.state[last] # ps'.state[last] /\ ps'.state[last] = PS_NOTEOFF
            THEN due \cup {last}
            ELSE IF ps'.state[last] = PS_OFF THEN due \ {last} ELSE due
  /\ last' = ps'.next[last] /\ rounds' = rounds - 1
  /\ unseen' = unseen \ {last}
  /\ UNCHANGED <<pc, count, do_shutup, prev_noteoff>>

\* Removal clears the links of a voice, so the next one is read before.
Clock ==
  /\ pc = "clock" /\ rounds > 0
  /\ ps' = Decremented(ps, last)
  /\ due' = IF ps.state[last] # ps'.state[last] /\ ps'.state[last] = PS_NOTEOFF
            THEN due \cup {last}
            ELSE IF ps'.state[last] = PS_OFF THEN due \ {last} ELSE due
  /\ last' = ps.next[last] /\ rounds' = rounds - 1
  /\ unseen' = unseen \ {last}
  /\ UNCHANGED <<pc, count, do_shutup, prev_noteoff>>

---------------------------------------------------------------------------
(* ps_compute: a sample of each voice.                                     *)

Compute ==
  /\ pc = "idle" \/ (pc = "clock" /\ rounds = 0)
  /\ pc' = "compute"
  /\ last' = Root /\ rounds' = ps.nvoices /\ count' = ps.nvoices
  /\ do_shutup' = FALSE
  /\ unseen' = Listed
  /\ UNCHANGED <<ps, prev_noteoff, due>>

get_next_voice_id ==
  IF ps.nvoices = 1 THEN ps.next[Root] ELSE ps.next[last]

\* Wrong: offtick does not write down a state that is not a note off.
offtick_Forgets(id) ==
  prev_noteoff \cup (IF ps.state[id] = PS_NOTEOFF THEN {id} ELSE {})

\* offtick, a ugen in the patch of a voice, keeps the state it saw.
ps_offtick(id) ==
  IF ps.state[id] = PS_NOTEOFF THEN prev_noteoff \cup {id} ELSE prev_noteoff \ {id}

\* noteoff, another, marks the voice when the patch says so.
ps_noteoff_ugen(id, val) ==
  IF val THEN [ps EXCEPT !.state[id] = PS_PLEASE_SHUTUP] ELSE ps

\* compute_sample: the patch calls its offtick and then its noteoff, as in
\* examples/10_noteoff.scm.
Voice ==
  LET id == get_next_voice_id IN
  /\ pc = "compute" /\ rounds > 0
  /\ prev_noteoff' = ps_offtick(id)
  /\ \E asks \in BOOLEAN :
       ps' = ps_noteoff_ugen(id, asks) /\ do_shutup' = (do_shutup \/ asks)
  /\ due' = due \ {id}
  /\ last' = ps.next[last] /\ rounds' = rounds - 1
  /\ unseen' = unseen \ {id}
  /\ UNCHANGED <<pc, count>>

\* Wrong: the last voice is not looked at.
ShutupShort ==
  /\ pc = "compute" /\ rounds = 0
  /\ IF do_shutup
     THEN /\ pc' = "shutup" /\ last' = ps.next[Root] /\ rounds' = count - 1
          /\ unseen' = Listed /\ UNCHANGED <<count, do_shutup>>
     ELSE pc' = "idle" /\ Forgotten
  /\ UNCHANGED <<ps, prev_noteoff, due>>

Shutup ==
  /\ pc = "compute" /\ rounds = 0
  /\ IF do_shutup
     THEN /\ pc' = "shutup" /\ last' = ps.next[Root] /\ rounds' = count
          /\ unseen' = Listed /\ UNCHANGED <<count, do_shutup>>
     ELSE pc' = "idle" /\ Forgotten
  /\ UNCHANGED <<ps, prev_noteoff, due>>

Silence ==
  /\ pc = "shutup" /\ rounds > 0
  /\ ps' = IF ps.state[last] = PS_PLEASE_SHUTUP
           THEN ps_turnoff_sporthlet(ps, last) ELSE ps
  /\ last' = ps.next[last] /\ rounds' = rounds - 1
  /\ unseen' = unseen \ {last}
  /\ UNCHANGED <<pc, count, do_shutup, prev_noteoff, due>>

Computed ==
  /\ pc = "shutup" /\ rounds = 0 /\ pc' = "idle" /\ Forgotten
  /\ UNCHANGED <<ps, prev_noteoff, due>>

Next ==
  \/ \E id \in Ids :
       \/ ps_eval(id) \/ ps_turnoff(id) \/ ps_noteoff(id) \/ ps_noteoff_mode(id)
       \/ \E dur \in Durations : ps_turnon(id, dur)
       \/ \E to \in Ids, dur \in Durations : Note(id, to, dur)
  \/ Loaded \/ Tick \/ Events \/ Clock
  \/ Compute \/ Voice \/ Shutup \/ Silence \/ Computed

\* The driver keeps asking for samples, a load and a tick come to an end,
\* and the clock of the patch keeps ticking.
Fairness ==
  /\ WF_vars(Loaded \/ Events \/ Clock \/ Compute \/ Voice \/ Shutup \/ Silence \/ Computed)
  /\ SF_vars(Tick)

Spec == Init /\ [][Next]_vars /\ Fairness

---------------------------------------------------------------------------
(* Properties.                                                             *)

\* Type invariant.
TypeOK ==
  /\ ps \in [state : [Ids -> States], dur : [Ids -> Int], noteoff : [Ids -> BOOLEAN],
             next : [Ids \cup {Root} -> Ids \cup {Nil}],
             prev : [Ids -> Ids \cup {Nil}], nvoices : 0 .. ninstances]
  /\ pc \in {"load", "idle", "events", "clock", "compute", "shutup"}
  /\ last \in Ids \cup {Nil, Root}
  /\ rounds \in 0 .. ninstances /\ count \in 0 .. ninstances
  /\ do_shutup \in BOOLEAN
  /\ prev_noteoff \subseteq Ids
  /\ due \subseteq Ids /\ unseen \subseteq Ids

(* The list is one: nvoices different voices, linked both ways and ended   *)
(* by NULL, the ones that were turned on and not off again.                *)
Linked ==
  /\ Cardinality(Listed) = ps.nvoices /\ Nil \notin Listed
  /\ ps.nvoices > 0 => ps.next[Walk(ps)[ps.nvoices]] = Nil
  /\ \A n \in 2 .. ps.nvoices : ps.prev[Walk(ps)[n]] = Walk(ps)[n - 1]
  /\ \A id \in Ids :
       /\ ps.state[id] \in {PS_ON, PS_PLEASE_SHUTUP} => id \in Listed
       /\ id \in Listed => ps.state[id] \in {PS_ON, PS_NOTEOFF, PS_PLEASE_SHUTUP}

\* The invariant of the list.
Inv == TypeOK /\ Linked

(* A loop visits every voice that was in the list when it began, each of   *)
(* them once, and follows no NULL, whatever it removes on its way.         *)
EachOnce ==
  /\ pc \in {"clock", "shutup"} =>
       rounds = Cardinality(unseen) /\ (rounds > 0 => last \in unseen)
  /\ pc = "compute" =>
       /\ rounds = Cardinality(unseen)
       /\ rounds > 0 => last # Nil /\ get_next_voice_id \in unseen

(* A note plays as long as it was meant to: while it has time left nothing *)
(* ends it but its own patch or scheme code; find_free_voice leaves it.    *)
NotStolen ==
  [][\A id \in Ids :
       ps.state[id] = PS_ON /\ ps.dur[id] # 0 =>
         \/ ps'.state[id] = PS_ON
            /\ ps'.dur[id] = ps.dur[id] - (IF pc = "clock" /\ id = last /\ ps.dur[id] > 0
                                          THEN 1 ELSE 0)
         \/ ps'.state[id] = PS_PLEASE_SHUTUP /\ pc = "compute"
         \/ Scheme /\ (ps_turnoff(id) \/ ps_noteoff(id))]_vars

(* A note does not hang: with a clock that ticks, a voice that is on with  *)
(* a finite time left moves on, in the end to being off, or to a note off, *)
(* or to another note.                                                     *)
Ages ==
  \A id \in Ids : \A d \in {x \in Durations : x >= 0} :
    (ps.state[id] = PS_ON /\ ps.dur[id] = d)
      ~> (ps.state[id] # PS_ON \/ ps.dur[id] # d)

(* A voice whose patch asked to be turned off is turned off before the     *)
(* same sample ends: none is left behind by the loop that removes them.    *)
Silenced == pc \in {"idle", "events", "clock"} =>
  \A id \in Ids : ps.state[id] # PS_PLEASE_SHUTUP

(* examples/10_noteoff.scm:4: "When the timer goes to 0, instead of        *)
(* turning off the sporthlet, it sends a noteoff tick signal": when a      *)
(* voice is computed after that, its offtick gives 1, for which the state  *)
(* it saw the last time must have been another.                            *)
OfftickSent ==
  pc = "compute" /\ rounds > 0 =>
    LET id == get_next_voice_id IN
    id \in due /\ ps.state[id] = PS_NOTEOFF => id \notin prev_noteoff
===========================================================================
