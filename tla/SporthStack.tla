---------------------------- MODULE SporthStack ----------------------------
(***************************************************************************)
(* The value stack of Sporth (stack.c, sporth_check_args of func.c).       *)
(*                                                                         *)
(* A patch is a postfix program, and one stack carries its data in every   *)
(* pass: while it is parsed, while it is initialised and once per sample.  *)
(* What a value IS matters to nothing stated here, only whether it is a    *)
(* float or a string, and, for a string, which one, since strings name the *)
(* tables of a patch.  `error' stands for stack->error > 0, the only test  *)
(* the code makes of that counter.                                         *)
(***************************************************************************)
EXTENDS Integers, Sequences, FiniteSets

CONSTANTS
  SPORTH_STACK_SIZE,   \* number of slots (32 in h/sporth.h)
  Strings              \* the strings a patch may push

FLOAT == "float"       \* any float: its value is abstracted away

ASSUME StackAssumption ==
  /\ SPORTH_STACK_SIZE \in Nat \ {0}
  /\ FLOAT \notin Strings

Values == Strings \cup {FLOAT}
Types == {"f", "s"}
TypeOf(v) == IF v = FLOAT THEN "f" ELSE "s"

\* The nth value from the top, 1 being the top itself.
FromTop(vals, n) == vals[Len(vals) + 1 - n]

Stacks == [vals : {s \in Seq(Values) : Len(s) <= SPORTH_STACK_SIZE},
           error : BOOLEAN]

sporth_stack_init == [vals |-> <<>>, error |-> FALSE]

Raise(st) == [st EXCEPT !.error = TRUE]

---------------------------------------------------------------------------
(* One push or pop.  Once the error counter is set they do nothing.        *)

\* Wrong: one slot too many.
PushOver(st, v) ==
  IF st.error THEN st
  ELSE IF Len(st.vals) <= SPORTH_STACK_SIZE
       THEN [st EXCEPT !.vals = Append(@, v)]
       ELSE Raise(st)

Push(st, v) ==
  IF st.error THEN st
  ELSE IF Len(st.vals) < SPORTH_STACK_SIZE
       THEN [st EXCEPT !.vals = Append(@, v)]
       ELSE Raise(st)

Pop(st, type) ==
  IF st.error THEN st
  ELSE IF st.vals # <<>> /\ TypeOf(FromTop(st.vals, 1)) = type
       THEN [st EXCEPT !.vals = SubSeq(@, 1, Len(@) - 1)]
       ELSE Raise(st)

---------------------------------------------------------------------------
(* What a handler does is a run of pops followed by a run of pushes, each  *)
(* given here in closed form; BenchMC compares them with one call at a     *)
(* time.                                                                   *)

\* How many of the pops succeed before one finds the wrong value or none.
Popped(vals, types) ==
  Cardinality({n \in 1 .. Len(types) :
                 /\ n <= Len(vals)
                 /\ \A i \in 1 .. n : TypeOf(FromTop(vals, i)) = types[i]})

PopAll(st, types) ==
  LET n == Popped(st.vals, types) IN
  IF st.error THEN st
  ELSE [vals |-> SubSeq(st.vals, 1, Len(st.vals) - n), error |-> n < Len(types)]

PushAll(st, vs) ==
  LET room == SPORTH_STACK_SIZE - Len(st.vals) IN
  IF st.error THEN st
  ELSE IF Len(vs) <= room
       THEN [st EXCEPT !.vals = @ \o vs]
       ELSE [vals |-> st.vals \o SubSeq(vs, 1, room), error |-> TRUE]

\* Wrong: the letters are compared from the top down.
check_args_Reversed(st, args) ==
  /\ ~st.error
  /\ Len(args) <= Len(st.vals)
  /\ \A i \in 1 .. Len(args) : args[i] = "n" \/ args[i] = TypeOf(FromTop(st.vals, i))

(* sporth_check_args: are the topmost values those the letters of args ask *)
(* for?  "n" accepts either type.  It pops nothing; when the answer is no  *)
(* it raises the error, which its callers here do with Raise.              *)
sporth_check_args(st, args) ==
  /\ ~st.error
  /\ Len(args) <= Len(st.vals)
  /\ \A i \in 1 .. Len(args) :
       args[i] = "n" \/ args[i] = TypeOf(st.vals[Len(st.vals) - Len(args) + i])
===========================================================================
