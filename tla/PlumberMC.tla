----------------------------- MODULE PlumberMC -----------------------------
(***************************************************************************)
(* Plumber for TLC: the real ugens and patches of the kinds that           *)
(* examples/api/recompile_string.c and the documentation use, together     *)
(* with the mistakes a live coder makes.                                   *)
(***************************************************************************)
EXTENDS Plumber, UgenTable

Float == [type |-> "float", ud |-> FLOAT]
Str(s) == [type |-> "string", ud |-> s]
Fn(u) == [type |-> "func", ud |-> u]
Comment == [type |-> "other", ud |-> FLOAT]

MCStrings == {"sine", "r", TEXT}
MCGlobals == {"sine"}

\* 'sine' 4096 gen_sine
GenSine == <<Str("sine"), Float, Fn("gen_sine")>>
\* 440 0.1 0 'sine' osc
Osc == <<Float, Float, Float, Str("sine"), Fn("osc")>>

\* Patches that compile and run.
Sine == <<Float, Fn("p"), Float, Fn("sine")>>
Table == GenSine \o Osc
\* 'sine' 'file' cdbload 'r' ref 440 mtof
Userdata == <<Str("sine"), Str(TEXT), Fn("cdbload"), Str("r"), Fn("ref"), Float, Fn("mtof")>>

MCSig == [u \in {"p", "sine", "add", "mtof", "gen_sine", "osc", "cdbload", "ref",
                 "drop", "loadwav", "spa", "tseq", "ampdb"} |-> UgenSig[u]]

MCPrograms ==
  {Sine, Table, Userdata,
   Osc,                                      \* only with the host's table
   <<Str("sine"), Str(TEXT), Fn("loadwav")>> \o Osc,      \* the file may be missing
   <<Comment, Float, Fn("sine")>>,           \* too few arguments
   <<Float, Float>>,                         \* one value too many
   [i \in 1 .. SPORTH_STACK_SIZE + 1 |-> Float],          \* the stack overflows
   <<Float, Fn("sien")>>}                    \* no such word

\* Files are parsed without the stack check: mistakes only a pass shows.
MCFilePrograms ==
  {Sine, Table,
   [i \in 1 .. SPORTH_STACK_SIZE + 1 |-> Float],
   <<Fn("drop")>> \o GenSine \o Osc,         \* an error, and nothing refused
   <<Str(TEXT), Fn("spa"), Fn("ampdb")>>,    \* INIT may not find the file
   <<Fn("drop"), Float, Fn("mtof")>>,        \* a word that does nothing under an error
   <<Fn("ampdb")>>,
   <<Float, Float, Str(TEXT), Fn("tseq")>>,  \* INIT does not find the table
   <<Str(TEXT)>>}                            \* nothing to play

---------------------------------------------------------------------------
(* What a program compiles to, written apart from the engine: one fold of  *)
(* single pushes and pops over its tokens for CREATE, and one for INIT.    *)

\* A handler in one mode: pop, look up, add, push.
Run(s, e) ==
  LET after == FoldLeft(Pop, s.stack, e.pop)
      Name(n) == FromTop(s.stack.vals, n)
      missing == ~after.error /\ \E f \in e.finds : ~Found(s.tables, Name(f.arg), f.type)
      new == [i \in DOMAIN e.adds |->
                [name |-> Name(e.adds[i].arg), type |-> e.adds[i].type,
                 owned |-> e.adds[i].owned]]
  IN  IF after.error THEN [s EXCEPT !.stack = after]
      ELSE IF missing THEN [s EXCEPT !.stack = Raise(after), !.ok = FALSE]
      ELSE [s EXCEPT !.stack = FoldLeft(Push, after, e.push), !.tables = @ \o new]

\* CREATE stops at the first refusal, INIT goes on.
CreateToken(s, t) ==
  IF ~s.ok \/ t.type = "other" THEN s
  ELSE IF t.type # "func" THEN [s EXCEPT !.stack = Push(@, t.ud)]
  ELSE IF \/ t.ud \notin DOMAIN MCSig
          \/ MCSig[t.ud].guard /\ s.stack.error
          \/ MCSig[t.ud].checked /\ ~sporth_check_args(s.stack, MCSig[t.ud].args)
       THEN [s EXCEPT !.ok = FALSE]
  ELSE Run(s, MCSig[t.ud].create)

InitToken(s, t) ==
  IF t.type = "other" THEN s
  ELSE IF t.type # "func" THEN [s EXCEPT !.stack = Push(@, t.ud)]
  ELSE IF MCSig[t.ud].guard /\ s.stack.error THEN s
  ELSE Run(s, MCSig[t.ud].init)

\* first: sporth_run starts INIT on the stack that the parse left.
Compile(prog, globals, first) ==
  LET start == [stack |-> sporth_stack_init, tables |-> globals, ok |-> TRUE]
      parsed == FoldLeft(CreateToken, start, prog)
      played == FoldLeft(InitToken,
                         IF first THEN parsed ELSE [parsed EXCEPT !.stack = sporth_stack_init],
                         IF parsed.ok THEN prog ELSE <<>>)
  IN  [ok    |-> parsed.ok,
       patch |-> [text |-> [i \in DOMAIN SelectSeq(prog, LAMBDA t : t.type # "other") |->
                    LET t == SelectSeq(prog, LAMBDA x : x.type # "other")[i]
                    IN  [type |-> IF t.type = "func" THEN "ugen" ELSE t.type, ud |-> t.ud]],
                  tables |-> played.tables]]

GlobalTables ==
  {<<>>} \cup {<<[name |-> g, type |-> PTYPE_TABLE, owned |-> TRUE]>> : g \in Globals}

MCPatches ==
  {c.patch : c \in {x \in {Compile(p, g, f) : p \in Programs, g \in GlobalTables, f \in BOOLEAN} : x.ok}}

Swap == INSTANCE HotSwap WITH phase <- Phase, patch <- Patch, Patches <- MCPatches

(* The engine keeps the promise of HotSwap, whatever a program contains    *)
(* and wherever its parse is refused: the patch heard and its tables are   *)
(* always those of one program, and only a commit changes them.            *)
HotSwapSpec == Swap!Spec
===========================================================================
