------------------------------- MODULE BenchMC -------------------------------
(***************************************************************************)
(* The parts that run without the engine, on the bench: the stack, the     *)
(* signatures of the ugens on it, and lsys, the ugen with a language of    *)
(* its own.                                                                *)
(*                                                                         *)
(* The stack is called one push or pop at a time, from empty and from      *)
(* nearly full.  The grammars are all those of two symbols with short      *)
(* definitions, and the two of the comment in lsys.c.                      *)
(***************************************************************************)
EXTENDS UgenTable, LSys

VARIABLE stack

Rule(key, value) == [key |-> key, value |-> value]
Words(n) == UNION {[1 .. k -> {"a", "b"}] : k \in 0 .. n}
Shortest == [axiom |-> <<>>, rules |-> <<>>]

Small ==
  {[axiom |-> w, rules |-> r] :
     w \in Words(2),
     r \in {<<>>} \union {<<Rule(k, v)>> : k \in {"a", "b"}, v \in Words(2)}
           \union {<<Rule("a", v), Rule("b", w2)>> : v \in Words(2), w2 \in Words(2)}
           \union {<<Rule("b", v), Rule("a", w2)>> : v \in Words(2), w2 \in Words(1)}}

Documented ==
  {[axiom |-> <<"a">>, rules |-> <<Rule("a", <<"a", "b">>), Rule("b", <<"a">>)>>],
   [axiom |-> <<"0", "1">>,
    rules |-> <<Rule("0", <<"1", "2", "1">>), Rule("1", <<"0", "1">>), Rule("2", <<"1">>)>>]}

MCSymbols == {"0", "1", "2", "a", "b"}
MCGrammars == Small \union Documented
MCOrders == 1 .. 4
MCStrings == {"t", TEXT}

---------------------------------------------------------------------------

\* Bound: the stack stays so near to where it began.
Depth == 4

Filled == [vals |-> Outs(SPORTH_STACK_SIZE - 2), error |-> FALSE]

\* While the stack is tried, lsys rests.
Resting == phase = "init" /\ grammar = Shortest /\ ord = 1

Init ==
  /\ lsys_CREATE
  /\ stack = sporth_stack_init \/ (Resting /\ stack = Filled)

Call ==
  /\ Resting
  /\ \/ /\ Len(stack.vals) < Depth \/ Len(stack.vals) > SPORTH_STACK_SIZE - Depth
        /\ \E v \in Values : stack' = Push(stack, v)
     \/ \E t \in Types : stack' = Pop(stack, t)
     \/ stack' = sporth_stack_init
  /\ UNCHANGED lsys_vars

Lsys == stack = sporth_stack_init /\ lsys_Next /\ UNCHANGED stack

Next == Call \/ Lsys

Spec == Init /\ [][Next]_<<stack, lsys_vars>>

---------------------------------------------------------------------------

\* Bound: a handler with up to so many letters.
Letters == UNION {[1 .. n -> Types] : n \in 0 .. Depth + 1}

(* CREATE handlers ignore what their pops return: sporth_check_args has to *)
(* promise that popping its letters, the last first, succeeds, and to      *)
(* refuse nothing that would (func.c:42).                                  *)
ArgsChecked ==
  Resting /\ ~stack.error =>
    \A args \in Letters :
      sporth_check_args(stack, args) <=> ~FoldLeft(Pop, stack, Reverse(args)).error

\* Handlers whose modes disagree about the stack: CREATE pops nothing in
\* butbp, butbr, eqfil, expon, line and switch, INIT pops nothing in metro,
\* and INIT may give up in spa.
Uneven == {"butbp", "butbr", "eqfil", "expon", "line", "switch", "metro", "spa"}

\* One call at a time.
Run(effect, st) == FoldLeft(Push, FoldLeft(Pop, st, effect.pop), effect.push)

\* The arguments of a handler, the first one first.
Supply(sig) ==
  LET pops == IF sig.create.pop # <<>> THEN sig.create.pop ELSE sig.init.pop
  IN  [n \in DOMAIN pops |-> IF Reverse(pops)[n] = "f" THEN FLOAT ELSE TEXT]

OnlyFloats(vs) == SelectSeq(vs, LAMBDA v : v = FLOAT)

\* Words whose line in h/ugens.h declares other numbers than the handler has.
Misdeclared == {"abs", "cdbload", "incr", "oscmorph4", "pst", "rpt", "slist",
                "sqrt", "square", "vdelay"}

(* The modes of a handler are written apart and must pop and push alike,   *)
(* or each later word reads wrong values: given its arguments, on top of   *)
(* anything, CREATE accepts, INIT leaves what CREATE left, and a sample    *)
(* the floats of it, unless the stack overflows; and these are as many as  *)
(* h/ugens.h declares.  The closed form in which the rest of the project   *)
(* applies a handler does what its pops and pushes do, also when an        *)
(* argument is missing or there is no room.                                *)
ModesAgree ==
  Resting =>
    \A u \in DOMAIN UgenSig :
      LET sig == UgenSig[u]
          given == FoldLeft(Push, stack, Supply(sig))
          floats == FoldLeft(Push, [stack EXCEPT !.vals = OnlyFloats(@)],
                             OnlyFloats(Supply(sig)))
          made == Run(sig.create, given)
      IN  /\ \A e \in {sig.create, sig.init, sig.compute} :
               \A st \in {stack, given, floats} : Apply(e, st) = Run(e, st)
          /\ ~made.error /\ u \notin Uneven =>
               /\ sig.checked => sporth_check_args(given, sig.args)
               /\ Run(sig.init, given) = made
               /\ Run(sig.compute, floats).vals = OnlyFloats(made.vals)
               /\ u \notin Misdeclared =>
                    /\ Len(Supply(sig)) = Registered[u].in
                    /\ Len(made.vals) = Len(stack.vals) + Registered[u].out
===========================================================================
