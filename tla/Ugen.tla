-------------------------------- MODULE Ugen --------------------------------
(***************************************************************************)
(* The shape every unit generator ("ugen") handler of ugens/*.c has.  A    *)
(* handler is one C function with a switch on pd->mode:                    *)
(*                                                                         *)
(*   CREATE   allocate, add a pipe, sporth_check_args, pop the arguments,  *)
(*            look tables up or add them, push the results                 *)
(*   INIT     pop the arguments, set up, push the results                  *)
(*   COMPUTE  pop the float arguments, compute a sample, push it           *)
(*   DESTROY  free what CREATE allocated                                   *)
(*                                                                         *)
(* Signal processing is abstracted away: what remains of a handler is its  *)
(* signature, a record of what it does to the stack and the table map in   *)
(* each mode.  UgenTable gives the signatures of the real handlers.        *)
(***************************************************************************)
EXTENDS SporthStack

PLUMBER_CREATE  == "create"
PLUMBER_INIT    == "init"
PLUMBER_COMPUTE == "compute"
PLUMBER_DESTROY == "destroy"
Modes == {PLUMBER_CREATE, PLUMBER_INIT, PLUMBER_COMPUTE, PLUMBER_DESTROY}

PTYPE_TABLE    == "table"
PTYPE_USERDATA == "userdata"
PTypes == {PTYPE_TABLE, PTYPE_USERDATA}

\* An entry of a table map.  owned: to_delete, the map frees the data.
Entries == [name : Strings, type : PTypes, owned : BOOLEAN]

(* What a handler does in one mode: the types it pops, in popping order;   *)
(* the names, given by their place in that order, it looks up and those it *)
(* adds entries under; the values it pushes.                               *)
Finds == [arg : Nat, type : PTypes]
Adds == [arg : Nat, type : PTypes, owned : BOOLEAN]
Effects ==
  {e \in [pop : Seq(Types), finds : SUBSET Finds, adds : Seq(Adds), push : Seq(Values)] :
     /\ \A f \in e.finds : f.arg \in 1 .. Len(e.pop) /\ e.pop[f.arg] = "s"
     /\ \A i \in 1 .. Len(e.adds) :
          e.adds[i].arg \in 1 .. Len(e.pop) /\ e.pop[e.adds[i].arg] = "s"}

Signatures ==
  [guard   : BOOLEAN,               \* starts with `if(stack->error > 0) return'
   checked : BOOLEAN,               \* CREATE calls sporth_check_args
   late    : BOOLEAN,               \* and adds its pipe only after that
   args    : Seq(Types \cup {"n"}), \* with these letters
   create  : Effects,
   init    : Effects,
   compute : Effects,
   fails   : BOOLEAN,               \* CREATE may refuse for an outside reason:
                                    \* a file, a library, a key
   quits   : BOOLEAN,               \* INIT may return without pushing anything
   shares  : BOOLEAN]               \* DESTROY reads data the table map owns

---------------------------------------------------------------------------

(* plumber_search and the type test of its two callers: the first entry of *)
(* that name decides, whatever follows it.                                 *)
Found(entries, name, type) ==
  \E i \in 1 .. Len(entries) :
    /\ entries[i].name = name
    /\ entries[i].type = type
    /\ \A j \in 1 .. i - 1 : entries[j].name # name

\* Every table the handler asks for in this mode is there.
FindsAll(effect, st, entries) ==
  \A f \in effect.finds : Found(entries, FromTop(st.vals, f.arg), f.type)

\* plumber_add: the entries the handler appends in this mode, in order.
Added(effect, st) ==
  [i \in 1 .. Len(effect.adds) |->
     [name  |-> FromTop(st.vals, effect.adds[i].arg),
      type  |-> effect.adds[i].type,
      owned |-> effect.adds[i].owned]]

\* The handler gets everything it pops.
Supplied(effect, st) == ~PopAll(st, effect.pop).error

\* The stack after a handler that ran to its end.
Apply(effect, st) == PushAll(PopAll(st, effect.pop), effect.push)

\* How often x is in a sequence, and a sequence of nothing else.
Times(x, seq) == Cardinality({i \in 1 .. Len(seq) : seq[i] = x})
Repeated(x, n) == [i \in 1 .. n |-> x]
\* The handler does to the stack in INIT what it did in CREATE, and COMPUTE
\* does the same without the strings; INIT does not depend on anything else.
Even(sig) ==
  /\ sig.checked /\ Len(sig.args) = Len(sig.create.pop)
  /\ sig.init.pop = sig.create.pop /\ sig.init.push = sig.create.push
  /\ sig.compute.pop = Repeated("f", Times("f", sig.create.pop))
  /\ sig.compute.push = Repeated(FLOAT, Times(FLOAT, sig.create.push))
  /\ sig.init.finds = {} /\ ~sig.quits
===========================================================================
