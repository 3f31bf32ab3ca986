-------------------------------- MODULE LSys --------------------------------
(***************************************************************************)
(* The ugen lsys (ugens/lsys.c): a tiny language for L-systems.  In        *)
(* a|a:ab|b:a the axiom is a, and a is rewritten to ab, b to a.            *)
(*                                                                         *)
(* The code is read once, from left to right, into slices: of the axiom    *)
(* and of each symbol, where in the text its definition begins and ends.   *)
(* The list for an order is made by walking the slices to that depth.      *)
(* Each trigger steps through the list, whose field last, set up for       *)
(* appending, is used again as the place of the reader.                    *)
(***************************************************************************)
EXTENDS Integers, Sequences, SequencesExt

CONSTANTS
  Symbols,    \* the characters that stand for themselves
  Grammars,   \* what programs are written for
  Orders,
  MaxTriggers \* bounds the triggers that are counted

ASSUME LSysAssumption ==
  /\ Symbols \intersect {"|", ":", "axiom"} = {}
  /\ \A g \in Grammars : /\ g.axiom \in Seq(Symbols)
                          /\ g.rules \in Seq([key : Symbols, value : Seq(Symbols)])
                          /\ \A i, j \in DOMAIN g.rules :
                               g.rules[i].key = g.rules[j].key => i = j
  /\ Orders \subseteq Nat \ {0}
  /\ MaxTriggers \in Nat

Axiom == "axiom"   \* ent[0]
Unset == -1        \* the link of the last item was never set

VARIABLES
  phase,     \* what the ugen waits for: init, compute; destroyed, crashed
  grammar, code, ord,
  list,      \* the symbols of the items, in order
  last,      \* the item that the reader is at; Unset behind the list
  pos,
  out,       \* what the ugen pushes: a symbol, or a number before a trigger
  triggers   \* history

lsys_vars == <<phase, grammar, code, ord, list, last, pos, out, triggers>>
-----------------------------------------------------------------------------
(* lsys_parse, one call per character and one for the NUL at the end.      *)

\* lsys_init: the axiom comes first, every symbol is defined as nothing.
lsys_init ==
  [pos |-> 0, cur |-> Axiom, mode |-> "value",
   ent |-> [e \in Symbols \union {Axiom} |->
              IF e = Axiom THEN [start |-> 1, end |-> 0] ELSE [start |-> 1, end |-> 1]]]

Character(c, i) == IF i <= Len(c) THEN c[i] ELSE "NUL"

\* Wrong: a bar takes the last symbol off the definition.
ParseOne_Short(c, ls, i) ==
  CASE ls.mode = "key" /\ Character(c, i) = ":" ->
         [ls EXCEPT !.pos = i, !.cur = c[i - 1], !.ent[c[i - 1]].start = i + 1, !.mode = "value"]
    [] ls.mode = "value" /\ Character(c, i) = "|" ->
         [ls EXCEPT !.pos = i, !.ent[ls.cur].end = i - 1, !.mode = "key"]
    [] OTHER -> [ls EXCEPT !.pos = i]

\* The key is the character in front of the colon.
ParseOne(c, ls, i) ==
  CASE ls.mode = "key" /\ Character(c, i) = ":" ->
         [ls EXCEPT !.pos = i, !.cur = c[i - 1], !.ent[c[i - 1]].start = i + 1, !.mode = "value"]
    [] ls.mode = "value" /\ Character(c, i) = "|" ->
         [ls EXCEPT !.pos = i, !.ent[ls.cur].end = i, !.mode = "key"]
    [] OTHER -> [ls EXCEPT !.pos = i]

\* The end of the text ends the last definition.
lsys_parse(c) ==
  LET p[i \in 0 .. Len(c) + 1] ==
        IF i = 0 THEN lsys_init ELSE ParseOne(c, p[i - 1], i)
      ls == p[Len(c) + 1]
  IN  [ls EXCEPT !.ent[ls.cur].end = ls.pos].ent

lsys_make_list(c, n) ==
  LET ent == lsys_parse(c)
      Slice(e) == SubSeq(c, ent[e].start, ent[e].end - 1)
      made[e \in Symbols \union {Axiom}, k \in 0 .. n] ==
        IF k = 0 THEN <<e>>
        ELSE FlattenSeq([i \in DOMAIN Slice(e) |-> made[Slice(e)[i], k - 1]])
  IN  made[Axiom, n]
-----------------------------------------------------------------------------
(* The ugen.                                                               *)

\* axiom|key:value|key:value
Written(g) ==
  g.axiom \o FlattenSeq([i \in DOMAIN g.rules |->
                            <<"|", g.rules[i].key, ":">> \o g.rules[i].value])

\* CREATE only takes the arguments off the stack.
lsys_CREATE ==
  /\ phase = "init" /\ grammar \in Grammars /\ code = Written(grammar) /\ ord \in Orders
  /\ list = <<>> /\ last = Unset /\ pos = 0 /\ out = "0" /\ triggers = 0

\* The list of no items has no first one to go back to.
lsys_list_reset(l) == IF l = <<>> THEN Unset ELSE 1

lsys_INIT ==
  /\ phase = "init" /\ phase' = "compute"
  /\ list' = lsys_make_list(code, ord)
  /\ last' = lsys_list_reset(list') /\ pos' = 0
  /\ UNCHANGED <<grammar, code, ord, out, triggers>>

\* A trigger: lsys_list_iter.  Behind the last item the link was never set; it
\* is replaced before it is followed.
Trigger ==
  /\ phase = "compute" /\ Len(list) > 0 /\ triggers < MaxTriggers
  /\ LET at == IF pos = 0 THEN lsys_list_reset(list) ELSE last
     IN  IF at = Unset THEN out' = "wild" /\ last' = Unset
         ELSE out' = list[at] /\ last' = IF at = Len(list) THEN Unset ELSE at + 1
  /\ pos' = (pos + 1) % Len(list)
  /\ triggers' = triggers + 1
  /\ UNCHANGED <<phase, grammar, code, ord, list>>

\* No trigger, or nothing to step through: the same again.
Hold ==
  /\ phase = "compute"
  /\ out' = IF triggers = 0 THEN "-1" ELSE out
  /\ UNCHANGED <<phase, grammar, code, ord, list, last, pos, triggers>>

\* If the patch was refused there was no INIT and the list has no length yet.
lsys_DESTROY ==
  /\ phase \in {"init", "compute"}
  /\ phase' \in IF phase = "init" THEN {"destroyed", "crashed"} ELSE {"destroyed"}
  /\ UNCHANGED <<grammar, code, ord, list, last, pos, out, triggers>>

lsys_Next == lsys_INIT \/ Trigger \/ Hold \/ lsys_DESTROY
-----------------------------------------------------------------------------
(* Properties.                                                             *)

\* What a grammar means: all symbols are rewritten at once; one without a
\* rule vanishes.
Rewritten(g, word) ==
  FlattenSeq([i \in DOMAIN word |->
    IF \E r \in DOMAIN g.rules : g.rules[r].key = word[i]
    THEN g.rules[CHOOSE r \in DOMAIN g.rules : g.rules[r].key = word[i]].value
    ELSE <<>>])

Meaning(g, n) ==
  LET m[k \in 1 .. n] == IF k = 1 THEN g.axiom ELSE Rewritten(g, m[k - 1])
  IN  m[n]

(* Triggers step through the list of order N and around it, and that list  *)
(* is the axiom, rewritten N - 1 times, however the slices were cut and    *)
(* walked; the reader never follows the link that appending left unset     *)
(* (lsys.c:136-238; the table of lsys.c:18-26).                            *)
Derives ==
  LET means == Meaning(grammar, ord) IN
  /\ phase = "compute" => list = means
  /\ triggers > 0 => out = means[((triggers - 1) % Len(means)) + 1]
=============================================================================
