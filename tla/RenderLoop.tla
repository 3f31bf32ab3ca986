----------------------------- MODULE RenderLoop -----------------------------
(***************************************************************************)
(* The loops that render without a sound card (plumber.c): into a file,    *)
(* in blocks (plumber_sp_process), or into nothing, sample by sample       *)
(* (plumber_process_null), which goes on until the user interrupts it when *)
(* no length is given.                                                     *)
(*                                                                         *)
(* What is left to render is counted down in sp->len, an unsigned integer. *)
(* The ugen setdurs sets it when it is created: usually before the loop    *)
(* begins, and from the callback when a voice of PolySporth is compiled    *)
(* during an event.                                                        *)
(***************************************************************************)
EXTENDS Integers

CONSTANTS
  Width,        \* of sp->len, in bits
  SP_BUFSIZE,   \* samples of a block
  Lengths,      \* that a patch may be given
  MaxChanges,   \* bounds how often the patch sets its length on the way
  MaxSamples    \* bounds the loop that has no end

ASSUME RenderLoopAssumption ==
  /\ Width \in Nat \ {0} /\ 2 ^ Width \in Nat
  /\ SP_BUFSIZE \in 1 .. 2 ^ Width - 1
  /\ Lengths \subseteq 0 .. 2 ^ Width - 1
  /\ MaxChanges \in Nat /\ MaxSamples \in Nat

VARIABLES
  driver,     \* file, null, or endless: the null driver without a length
  len, pos,   \* of sp_data
  numsamps, i,
  running,    \* cleared by the handler of SIGINT
  pc,         \* start, test, block, done
  changes,
  rendered,   \* history: how often the callback was called
  written,    \* history: samples given to the files
  due,        \* history: how many samples the patch was last told to have
  cut         \* history: that was less than the loop had already begun

vars == <<driver, len, pos, numsamps, i, running, pc, changes, rendered, written, due, cut>>

Wrapped(n) == n % 2 ^ Width

Init ==
  /\ driver \in {"file", "null"} /\ len \in Lengths
  /\ pos = 0 /\ numsamps = 0 /\ i = 0
  /\ running = TRUE /\ pc = "start"
  /\ changes = 0 /\ rendered = 0 /\ written = 0 /\ due = len /\ cut = FALSE

\* The null driver looks at the length once to choose its loop.
Start ==
  /\ pc = "start" /\ pc' = "test"
  /\ driver' = IF driver = "null" /\ len = 0 THEN "endless" ELSE driver
  /\ UNCHANGED <<len, pos, numsamps, i, running, changes, rendered, written, due, cut>>

\* The callback: a sample, and perhaps a setdurs.  The patch means a length
\* that counts from base; owed is what the loop is about to take off.
Callback(base, owed, taken) ==
  /\ rendered' = rendered + 1
  /\ \/ len' = Wrapped(len - taken) /\ UNCHANGED <<changes, due, cut>>
     \/ /\ changes < MaxChanges /\ changes' = changes + 1
        /\ \E d \in Lengths : /\ len' = Wrapped(d - taken)
                              /\ due' = base + d
                              /\ cut' = (d < owed)

Block ==
  /\ driver = "file" /\ pc = "test" /\ len > 0 /\ pc' = "block"
  /\ numsamps' = IF len < SP_BUFSIZE THEN len ELSE SP_BUFSIZE
  /\ i' = 0
  /\ UNCHANGED <<driver, len, pos, running, changes, rendered, written, due, cut>>

Sample ==
  /\ pc = "block" /\ i < numsamps
  /\ Callback(rendered - i, numsamps, 0)
  /\ i' = i + 1 /\ pos' = pos + 1
  /\ UNCHANGED <<driver, numsamps, running, pc, written>>

\* Wrong: a block of the full size is taken off.
Write_Full ==
  /\ pc = "block" /\ i = numsamps /\ pc' = "test"
  /\ written' = written + numsamps
  /\ len' = Wrapped(len - SP_BUFSIZE)
  /\ UNCHANGED <<driver, pos, numsamps, i, running, changes, rendered, due, cut>>

\* Wrong: the whole buffer is written.
Write_All ==
  /\ pc = "block" /\ i = numsamps /\ pc' = "test"
  /\ written' = written + SP_BUFSIZE
  /\ len' = Wrapped(len - numsamps)
  /\ UNCHANGED <<driver, pos, numsamps, i, running, changes, rendered, due, cut>>

\* What the callback has set is reduced by the whole block.
Write ==
  /\ pc = "block" /\ i = numsamps /\ pc' = "test"
  /\ written' = written + numsamps
  /\ len' = Wrapped(len - numsamps)
  /\ UNCHANGED <<driver, pos, numsamps, i, running, changes, rendered, due, cut>>

\* A round of the loops of plumber_process_null.
Null ==
  /\ driver = "null" /\ pc = "test" /\ len > 0
  /\ Callback(rendered, 1, 1)
  /\ pos' = pos + 1
  /\ UNCHANGED <<driver, numsamps, i, running, pc, written>>

Endless ==
  /\ driver = "endless" /\ pc = "test" /\ running /\ rendered < MaxSamples
  /\ Callback(rendered, 1, 1)
  /\ UNCHANGED <<driver, pos, numsamps, i, running, pc, written>>

\* The handler is installed by the endless loop only.
plumber_interrupt ==
  /\ driver = "endless" /\ pc = "test" /\ running' = FALSE
  /\ UNCHANGED <<driver, len, pos, numsamps, i, pc, changes, rendered, written, due, cut>>

\* Wrong: the endless loop looks at the length as well.
Done_Both ==
  /\ pc = "test" /\ pc' = "done"
  /\ IF driver = "endless" THEN ~running /\ len = 0 ELSE len = 0
  /\ UNCHANGED <<driver, len, pos, numsamps, i, running, changes, rendered, written, due, cut>>

Done ==
  /\ pc = "test" /\ pc' = "done"
  /\ IF driver = "endless" THEN ~running ELSE len = 0
  /\ UNCHANGED <<driver, len, pos, numsamps, i, running, changes, rendered, written, due, cut>>

Loop == Start \/ Block \/ Sample \/ Write \/ Null \/ Endless \/ Done

Next == Loop \/ plumber_interrupt

Spec == Init /\ [][Next]_vars /\ WF_vars(Loop)
-----------------------------------------------------------------------------
(* Properties.                                                             *)

TypeOK ==
  /\ driver \in {"file", "null", "endless"}
  /\ len \in 0 .. 2 ^ Width - 1
  /\ pos \in Nat /\ rendered \in Nat /\ written \in Nat /\ due \in Nat
  /\ numsamps \in 0 .. SP_BUFSIZE /\ i \in 0 .. numsamps
  /\ running \in BOOLEAN /\ cut \in BOOLEAN
  /\ pc \in {"start", "test", "block", "done"}
  /\ changes \in 0 .. MaxChanges

\* A patch is rendered for as long as it was last told: from the start, or, if
\* it was told on the way, from the beginning of the block (of the sample,
\* without a file) in which that happened.  Told to have ended before the
\* block has, it goes on for the whole range of the counter (plumber.c:704-706,
\* 767-789; setdurs in ugens/basic.c:1244).
Total ==
  pc = "done" /\ driver # "endless" =>
    rendered = IF cut THEN due + 2 ^ Width ELSE due

\* No sample is left out of the files, and none written that was not rendered
\* (plumber.c:774-789).
AllWritten == driver = "file" /\ pc # "block" => written = rendered

\* The counters stay in their ranges, and the files are complete.
Inv == TypeOK /\ AllWritten

\* The loops end: the endless one after the interrupt, the others by
\* themselves, whatever the patch does to its length.
Ends ==
  /\ driver # "endless" ~> pc = "done" \/ driver = "endless"
  /\ ~running ~> pc = "done"
=============================================================================
