------------------------------- MODULE Events -------------------------------
(***************************************************************************)
(* The events of PolySporth: notes and metanotes, which call a function.   *)
(*                                                                         *)
(* Scheme code collects events, with absolute times, in the vector tmp     *)
(* (polysporth/f.c).  The end of a noteblock sorts tmp, turns times into   *)
(* differences and merges it into the vector events (dvector.c).  Each     *)
(* tick of the clock takes what is due from events (ps_tick in ps.c), and  *)
(* merges what the functions it calls have collected meanwhile.            *)
(*                                                                         *)
(* A vector is a chain of nodes with a length, a reading position and how  *)
(* much is left to read; the heap of nodes is explicit, because the code   *)
(* relinks nodes in place and leaves some of these fields unset.  A field  *)
(* that is read unset is zero or something else: the build decides.        *)
(***************************************************************************)
EXTENDS Integers, Sequences, FiniteSets, SequencesExt

CONSTANTS
  Styles,     \* of scheme code; each has the calls it makes while it is loaded,
              \* whether they are bracketed, as in the examples, the function
              \* for after loading, what malloc may leave in a link, and as a
              \* bound the most events that it creates while it is loaded
  Body,       \* of each function: the calls it makes
  MaxTicks,   \* bounds the ticks of the clock
  MaxDelay    \* bounds ps->delay

Nil == 0
Unset == -1

\* The calls of scheme code; no start and no delay is negative.
Calls ==
  [op : {"begin", "end", "clear"}]
    \union [op : {"note", "delay", "add"}, at : Nat]
    \union [op : {"metanote"}, at : Nat, func : DOMAIN Body]

ASSUME EventsAssumption ==
  /\ MaxTicks \in Nat /\ MaxDelay \in Nat
  /\ \A f \in DOMAIN Body : Body[f] \in Seq(Calls)
  /\ \A s \in Styles : /\ s.bracketed \in BOOLEAN
                        /\ s.calls \subseteq Calls
                        /\ s.oninit \in DOMAIN Body \union {"none"}
                        /\ s.garbage \subseteq {Nil, Unset}
                        /\ s.most \in Nat

VARIABLES
  style,
  heap,       \* the nodes, in the order of their creation
  events,
  tmp,
  noteblock,
  delay,      \* ps->delay, added to the start of a note
  phase,      \* load, init, idle, tick, cleaned, crashed
  clock,      \* ps->time
  asked,      \* history: nodes that are to happen
  played      \* history: the nodes that happened, in their order

data == <<heap, events, tmp, noteblock, delay, asked>>
vars == <<style, data, phase, clock, played>>

\* What scheme code works on, as one record.
State ==
  [heap |-> heap, events |-> events, tmp |-> tmp, noteblock |-> noteblock,
   delay |-> delay, asked |-> asked, crashed |-> FALSE]

Becomes(s, next) ==
  /\ heap' = s.heap /\ events' = s.events /\ tmp' = s.tmp
  /\ noteblock' = s.noteblock /\ delay' = s.delay /\ asked' = s.asked
  /\ phase' = IF s.crashed THEN "crashed" ELSE next
-----------------------------------------------------------------------------
(* dvector.c                                                               *)

\* ps is allocated with calloc.
Zeroed == [size |-> 0, first |-> Nil, last |-> Nil, pos |-> 0, top |-> Nil]

\* Wrong: the place to append at is kept.
Emptied_KeepsLast(v) == [v EXCEPT !.size = 0, !.first = Nil]

\* dvector_init leaves pos and top alone.
Emptied(v) == [v EXCEPT !.size = 0, !.first = Nil, !.last = Nil]

\* The nodes of a vector, as far as its size goes.
Chain(h, v) ==
  LET c[i \in 0 .. v.size] ==
        IF i = 0 THEN <<>>
        ELSE Append(c[i - 1], IF i = 1 THEN v.first ELSE h[c[i - 1][i - 1]].next)
  IN  c[v.size]

Place(c, n) == CHOOSE i \in DOMAIN c : c[i] = n

\* The heap with other links, and other deltas, for the nodes of a chain.
Linked(h, c, end) ==
  [n \in DOMAIN h |->
     IF n \notin ToSet(c) THEN h[n]
     ELSE LET i == Place(c, n)
          IN  [h[n] EXCEPT !.next = IF i = Len(c) THEN end ELSE c[i + 1]]]

Differences(h, c, time) ==
  [n \in DOMAIN h |->
     IF n \notin ToSet(c) THEN h[n]
     ELSE LET i == Place(c, n)
          IN  [h[n] EXCEPT !.delta = time[i] - (IF i = 1 THEN 0 ELSE time[i - 1])]]

\* The first node is linked from the root, to which last points at first.
dvector_append_value(s, n) ==
  [s EXCEPT !.heap = IF s.tmp.last = Nil THEN @ ELSE [@ EXCEPT ![s.tmp.last].next = n],
            !.tmp = [first |-> IF @.last = Nil THEN n ELSE @.first, last |-> n,
                     size |-> @.size + 1, pos |-> @.pos, top |-> @.top]]

\* Behind every node that is not later.
Insert(h, sorted, n) ==
  LET before == {i \in DOMAIN sorted : h[sorted[i]].delta <= h[n].delta}
  IN  InsertAt(sorted, Cardinality(before) + 1, n)

Sorted(h, c) ==
  LET sorted[i \in 0 .. Len(c)] == IF i = 0 THEN <<>> ELSE Insert(h, sorted[i - 1], c[i])
  IN  sorted[Len(c)]

\* The loop runs to the end of the chain, whatever the size says; last stays.
dvector_time_sort(s) ==
  LET c == Chain(s.heap, s.tmp)
      sorted == Sorted(s.heap, c)
  IN  IF c = <<>> THEN s
      ELSE IF s.heap[Last(c)].next = Unset THEN [s EXCEPT !.crashed = TRUE]
      ELSE [s EXCEPT !.heap = Linked(@, sorted, Nil), !.tmp.first = sorted[1]]

\* Wrong: the times are kept as they are.
dvector_time_to_delta_Not(h, v) == h

dvector_time_to_delta(h, v) ==
  LET c == Chain(h, v)
  IN  Differences(h, c, [i \in DOMAIN c |-> h[c[i]].delta])

Times(h, c) ==
  LET t[i \in 0 .. Len(c)] == IF i = 0 THEN 0 ELSE t[i - 1] + h[c[i]].delta
  IN  [i \in DOMAIN c |-> t[i]]

\* One round of the loop that merges: i nodes of c1 have been taken, and j of
\* c2.  In a tie c1 goes first.
Round(m, c1, t1, c2, t2) ==
  IF m.i < Len(c1) /\ (m.j = Len(c2) \/ t1[m.i + 1] <= t2[m.j + 1])
  THEN [i |-> m.i + 1, j |-> m.j,
        out |-> Append(m.out, [node |-> c1[m.i + 1], time |-> t1[m.i + 1]])]
  ELSE [i |-> m.i, j |-> m.j + 1,
        out |-> Append(m.out, [node |-> c2[m.j + 1], time |-> t2[m.j + 1]])]

\* Both vectors in the order of their times.
Merged(c1, t1, c2, t2) ==
  LET m[k \in 0 .. Len(c1) + Len(c2)] ==
        IF k = 0 THEN [i |-> 0, j |-> 0, out |-> <<>>] ELSE Round(m[k - 1], c1, t1, c2, t2)
  IN  m[Len(c1) + Len(c2)].out

\* The vector that is returned: a copy of the one that is not empty, or a new
\* one, in which nothing sets pos and top.  The nodes are relinked in place.
dvector_merge(s) ==
  LET swap == s.events.size < s.tmp.size
      v1 == IF swap THEN s.tmp ELSE s.events
      v2 == IF swap THEN s.events ELSE s.tmp
      c1 == Chain(s.heap, v1)
      c2 == Chain(s.heap, v2)
      m == Merged(c1, Times(s.heap, c1), c2, Times(s.heap, c2))
      c == [i \in DOMAIN m |-> m[i].node]
  IN  IF v2.size = 0 THEN [s EXCEPT !.events = v1]
      ELSE [s EXCEPT
              !.heap = Linked(Differences(@, c, [i \in DOMAIN m |-> m[i].time]),
                              c, s.heap[Last(c)].next),
              !.events = [size |-> Len(c), first |-> c[1], last |-> Last(c),
                          pos |-> Unset, top |-> Unset]]

\* What both users of dvector_merge do.
Merge(s) ==
  IF s.tmp.size = 0 THEN s
  ELSE [dvector_merge(s) EXCEPT !.tmp = Emptied(@),
                                !.asked = @ \union ToSet(Chain(s.heap, s.tmp))]

\* The nodes are freed.  A metanote has no nargs, yet it decides whether args,
\* which it does not have either, is freed.
dvector_free(s) ==
  [s EXCEPT !.crashed = \E n \in ToSet(Chain(s.heap, s.events)) : s.heap[n].nargs = Unset]
-----------------------------------------------------------------------------
(* The calls of scheme code (f.c).                                         *)

Create(s, start, func, garbage) ==
  dvector_append_value(
    [s EXCEPT !.heap = Append(@, [delta |-> start, next |-> garbage, nargs |-> garbage,
                                  func |-> func, when |-> clock + start])],
    Len(s.heap) + 1)

scm_note(s, start) == Create(s, start + s.delay, "none", Nil)

scm_metanote(s, start, func, garbage) == Create(s, start, func, garbage)

\* tmp is emptied before the flag is looked at.
scm_noteblock_begin(s) == [s EXCEPT !.tmp = Emptied(@), !.noteblock = TRUE]

scm_noteblock_end(s) ==
  LET sorted == dvector_time_sort(s)
  IN  IF ~s.noteblock THEN s
      ELSE IF sorted.crashed THEN sorted
      ELSE Merge([sorted EXCEPT !.heap = dvector_time_to_delta(@, sorted.tmp),
                                !.noteblock = FALSE])

\* What is left to read is not forgotten; the node to be read next is gone.
scm_clear_events(s) ==
  [dvector_free(s) EXCEPT !.events = [Emptied(@) EXCEPT !.top = Unset],
                          !.asked = {}]

Call(s, c, garbage) ==
  CASE c.op = "note"     -> scm_note(s, c.at)
    [] c.op = "metanote" -> scm_metanote(s, c.at, c.func, garbage)
    [] c.op = "begin"    -> scm_noteblock_begin(s)
    [] c.op = "end"      -> scm_noteblock_end(s)
    [] c.op = "clear"    -> scm_clear_events(s)
    [] c.op = "delay"    -> [s EXCEPT !.delay = c.at]
    [] c.op = "add"      -> [s EXCEPT !.delay = @ + c.at]

Run(s, func, garbage) ==
  LET calls == IF func = "none" THEN <<>> ELSE Body[func]
      after[i \in 0 .. Len(calls)] ==
        IF i = 0 THEN s
        ELSE IF after[i - 1].crashed THEN after[i - 1]
        ELSE Call(after[i - 1], calls[i], garbage)
  IN  after[Len(calls)]

Creates(c) == c.op \in {"note", "metanote"}

\* The order of the examples: events are created inside of noteblocks, which
\* are not nested, and cleared only when none is left.
Ordered(c) ==
  /\ Creates(c) \/ c.op = "end" => noteblock
  /\ c.op = "begin" => ~noteblock
  /\ c.op = "clear" => asked = {}
-----------------------------------------------------------------------------
Init ==
  /\ style \in Styles
  /\ heap = <<>> /\ events = Zeroed /\ tmp = Zeroed
  /\ noteblock = FALSE /\ delay = 0
  /\ phase = "load" /\ clock = 0
  /\ asked = {} /\ played = <<>>

Load ==
  /\ phase = "load"
  /\ \E c \in style.calls, garbage \in style.garbage :
       /\ style.bracketed => Ordered(c)
       /\ Creates(c) => Len(heap) < style.most
       /\ c.op = "add" => delay + c.at <= MaxDelay
       /\ Becomes(Call(State, c, garbage), "load")
  /\ UNCHANGED <<style, clock, played>>

\* Wrong: the events are read from where the first noteblock left them.
Loaded_Unread ==
  /\ phase = "load" /\ phase' = "init"
  /\ style.bracketed => ~noteblock
  /\ UNCHANGED <<style, data, clock, played>>

\* The end of ps_scm_load.
Loaded ==
  /\ phase = "load" /\ phase' = "init"
  /\ style.bracketed => ~noteblock
  /\ events' = [events EXCEPT !.top = events.first, !.pos = events.size]  \* dvector_rewind
  /\ UNCHANGED <<style, heap, tmp, noteblock, delay, asked, clock, played>>

ps_init ==
  /\ phase = "init"
  /\ \E s \in {Run(State, style.oninit, garbage) : garbage \in style.garbage} :
       Becomes(s, "idle")
  /\ UNCHANGED <<style, clock, played>>

Tick ==
  /\ phase = "idle" /\ clock < MaxTicks /\ phase' = "tick"
  /\ UNCHANGED <<style, data, clock, played>>

\* ps_tick: dvector_pop has an event that is due.  A note sounds, a metanote
\* calls its function; what was collected meanwhile is merged.
Event ==
  /\ phase = "tick" /\ events.pos > 0
  /\ \/ /\ events.top = Unset /\ phase' = "crashed"
        /\ UNCHANGED <<data, played>>
     \/ /\ events.top # Unset /\ heap[events.top].delta = 0
        /\ LET n == events.top
               s == [State EXCEPT !.events.pos = @ - 1, !.events.top = heap[n].next]
           IN  /\ \E t \in {Merge(Run(s, heap[n].func, garbage)) : garbage \in style.garbage} :
                    Becomes(t, "tick")
               /\ played' = Append(played, n)
  /\ UNCHANGED <<style, clock>>

\* Wrong: the next event does not come nearer.
Later_Still ==
  /\ phase = "tick" /\ phase' = "idle" /\ clock' = clock + 1
  /\ \/ events.pos = 0
     \/ events.pos > 0 /\ events.top # Unset /\ heap[events.top].delta # 0
  /\ UNCHANGED <<style, heap, events, tmp, noteblock, delay, asked, played>>

\* Nothing is left to read, or the next event has time.
Later ==
  /\ phase = "tick" /\ phase' = "idle" /\ clock' = clock + 1
  /\ \/ events.pos = 0 /\ UNCHANGED heap
     \/ /\ events.pos > 0 /\ events.top # Unset /\ heap[events.top].delta # 0
        /\ heap' = [heap EXCEPT ![events.top].delta = @ - 1]
  /\ UNCHANGED <<style, events, tmp, noteblock, delay, asked, played>>

\* pos was never set: it is zero, or it is not and so top, never set either,
\* is followed.
Uninitialised ==
  /\ phase = "tick" /\ events.pos = Unset
  /\ \/ events' = [events EXCEPT !.pos = 0] /\ UNCHANGED phase
     \/ phase' = "crashed" /\ UNCHANGED events
  /\ UNCHANGED <<style, heap, tmp, noteblock, delay, asked, clock, played>>

ps_clean ==
  /\ phase = "idle"
  /\ Becomes(dvector_free(State), "cleaned")
  /\ UNCHANGED <<style, clock, played>>

ps_tick == Event \/ Later \/ Uninitialised

ps == ps_init \/ Tick \/ ps_tick

Next == Load \/ Loaded \/ ps \/ ps_clean

\* Where the ugen ps is called, it can go on.
Playing == phase \in {"init", "tick"} \/ (phase = "idle" /\ clock < MaxTicks)

\* A load comes to its end; the clock goes on and so does a tick.  The second
\* is WF_vars(ps), spelled out, because TLC is slow to see that ps is enabled.
Fairness ==
  /\ WF_vars(Loaded)
  /\ []<>~Playing \/ []<><<ps>>_vars

Spec == Init /\ [][Next]_vars /\ Fairness
-----------------------------------------------------------------------------
(* Properties.                                                             *)

Nodes == 1 .. Len(heap)

Vectors ==
  LET upto == 0 .. Len(heap)
  IN  [size : upto, first : upto, last : upto,
       pos : upto \union {Unset}, top : upto \union {Unset}]

TypeOK ==
  /\ style \in Styles
  /\ \A n \in Nodes : /\ heap[n].delta \in Nat /\ heap[n].when \in Nat
                      /\ heap[n].next \in Nodes \union {Nil, Unset}
                      /\ heap[n].func \in DOMAIN Body \union {"none"}
  /\ events \in Vectors /\ tmp \in Vectors
  /\ noteblock \in BOOLEAN /\ delay \in Nat
  /\ phase \in {"load", "init", "idle", "tick", "cleaned", "crashed"}
  /\ clock \in 0 .. MaxTicks
  /\ asked \subseteq Nodes /\ ToSet(played) \subseteq Nodes

\* What is left to read, with the differences added up, says when each event
\* is to happen: the sort, the merges of several noteblocks and the ticks that
\* count the first difference down agree (dvector.c:74-198).
Agree ==
  style.bracketed /\ phase \in {"idle", "tick"} =>
    LET rest == Chain(heap, [size |-> events.pos, first |-> events.top])
        time == Times(heap, rest)
    IN  \A i \in DOMAIN rest : heap[rest[i]].when = clock + time[i]

\* The promise of a note list, kept by scheme code that is bracketed.
Promise ==
  INSTANCE Schedule WITH
    now <- IF style.bracketed THEN clock ELSE 0,
    pending <- IF style.bracketed
               THEN {[id |-> n, time |-> heap[n].when] : n \in asked \ ToSet(played)}
               ELSE {},
    done <- IF style.bracketed THEN Len(played) ELSE 0

Kept == Promise!Spec

\* Every event that such a file asks for happens in the end.
Happens ==
  \A n \in 1 .. Max({s.most : s \in Styles}) :
    style.bracketed /\ n \in asked /\ phase = "idle" ~> n \in ToSet(played) \/ phase = "cleaned"

\* "Metanotes allow you to schedule functions as events in time. These
\* metanotes can actual notes, or even metanotes."
\* (polysporth/examples/03_metanotes.scm:2-3): after a tick, what was asked
\* for it has happened, whoever asked for it.
OnTime ==
  phase = "idle" => \A n \in asked : heap[n].when < clock => n \in ToSet(played)

\* Whatever the scheme code does, no node is in both vectors or twice in one,
\* and the next node is appended where the chain of tmp ends
\* (dvector.c:23-28, 55-60, 74-167).
Separate ==
  phase # "crashed" =>
    LET e == Chain(heap, events)
        t == Chain(heap, tmp)
    IN  /\ ToSet(e \o t) \subseteq Nodes /\ IsInjective(e \o t)
        /\ tmp.last = IF t = <<>> THEN Nil ELSE Last(t)

\* The invariant of the vectors.
Inv == TypeOK /\ Separate
=============================================================================
