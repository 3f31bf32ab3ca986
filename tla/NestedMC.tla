------------------------------ MODULE NestedMC ------------------------------
(***************************************************************************)
(* Small programs that use each other, and some that use themselves.       *)
(***************************************************************************)
EXTENDS Nested, UgenTable

Float == [type |-> "float", ud |-> FLOAT]
Str(s) == [type |-> "string", ud |-> s]
Fn(u) == [type |-> "func", ud |-> u]
With(s, u) == <<Str(s), Fn(u)>>

Sine == <<Float, Float, Fn("sine")>>
GenSine == <<Str("t"), Float, Fn("gen_sine")>>
Wrong == <<Float, Fn("sine")>>

MCSig == [u \in {"sine", "gen_sine", "loadwav", "tbldur", "mtof", "ampdb"} |-> UgenSig[u]]

\* "" is a program that is no file, "t" a table and, as a program, empty.
MCFiles ==
  [part   |-> GenSine \o With("one", "eval"),       \* a table and a value
   lookup |-> With("t", "tbldur"),
   both   |-> With("part", "render") \o With("one", "load") \o <<Fn("sine")>>,
   one    |-> <<Float>>,
   wrong  |-> With("part", "render") \o <<Fn("sine")>>,
   self   |-> With("self", "load"),
   mirror |-> With("mirror", "render")]

MCStrings == DOMAIN MCFiles \union {"t", "code", TEXT}

MCCodes ==
  [s \in MCStrings |->
     IF s \in {"t", TEXT} THEN <<>>
     ELSE IF s = "code" THEN With("one", "eval") \o With("both", "render") \o <<Fn("sine")>>
     ELSE MCFiles[s]]

MCPatches ==
  {Sine, Wrong, <<Float, Fn("eval")>>, <<Fn("load")>>, <<Fn("render")>>,
   With("code", "eval"), With("both", "load"), With("both", "render"),
   GenSine \o With("lookup", "eval"), GenSine \o With("lookup", "render"),
   With("part", "load") \o With("lookup", "load") \o <<Fn("sine")>>,
   With("part", "render") \o With("t", "tbldur"),
   With("part", "render") \o With("one", "load") \o <<Fn("sine")>>,
   <<Float>> \o With("one", "eval") \o <<Fn("sine")>>,      \* only in the end is one left
   With("t", "load"), <<Float>> \o With("code", "render"),  \* no such files
   With("wrong", "load"), With("wrong", "render"), With("part", "render") \o Wrong,
   [i \in 1 .. SPORTH_STACK_SIZE + 1 |-> Float],
   [i \in 1 .. SPORTH_STACK_SIZE + 1 |-> Float] \o <<Fn("mtof")>>, <<Fn("ampdb")>>,
   <<Str("t"), Str(TEXT), Fn("loadwav")>> \o With("t", "tbldur"),     \* a file of sound
   With("self", "load"), With("self", "eval"), With("mirror", "render")}
-----------------------------------------------------------------------------
(* What a program means, without frames and fields: eval and load insert a *)
(* program where they stand, a render is a program by itself, with tables  *)
(* of its own, that shares the stack.                                      *)

Part(ud, sub) == [ud |-> ud, sub |-> sub]

RECURSIVE Compile(_, _, _)
Compile(s, prog, open) ==
  LET Token1(c, t) ==
        LET name == FromTop(c.stack.vals, 1)
            popped == [c EXCEPT !.stack = Pop(@, "s")]
            room == name \in DOMAIN Files /\ open < MaxOpen
            apart == Compile([popped EXCEPT !.parts = <<>>, !.tables = {}], Files[name], open + 1)
        IN  CASE ~c.ok -> c
              [] t.type # "func" ->
                   [c EXCEPT !.parts = Append(@, Part(t.ud, <<>>)), !.stack = Push(@, t.ud)]
              [] t.ud \in DOMAIN Sig ->
                   IF sporth_check_args(c.stack, Sig[t.ud].args)
                      /\ (t.ud = "tbldur" => name \in c.tables)
                   THEN [c EXCEPT !.parts = Append(@, Part(t.ud, <<>>)),
                                  !.stack = Apply(Sig[t.ud].create, @),
                                  !.tables = IF t.ud \in {"gen_sine", "loadwav"}
                                             THEN @ \union {FromTop(c.stack.vals, 2)} ELSE @]
                   ELSE [c EXCEPT !.ok = FALSE]
              [] ~sporth_check_args(c.stack, <<"s">>) -> [c EXCEPT !.ok = FALSE]
              [] t.ud = "eval" ->
                   Compile([popped EXCEPT !.parts = Append(@, Part("eval", <<>>))], Codes[name], open)
              [] ~room -> [c EXCEPT !.ok = FALSE]
              [] t.ud = "load" ->
                   Compile([popped EXCEPT !.parts = Append(@, Part("load", <<>>))], Files[name], open + 1)
              [] t.ud = "render" ->
                   [apart EXCEPT !.parts = Append(c.parts, Part("render", apart.parts)),
                                 !.tables = c.tables]
  IN  FoldLeft(Token1, s, prog)

Meaning(prog, open) ==
  Compile([stack |-> sporth_stack_init, parts |-> <<>>, tables |-> {}, ok |-> TRUE], prog, open)

RECURSIVE Built(_)
Built(p) ==
  [i \in DOMAIN plumbings[p].pipes |->
     LET q == plumbings[p].pipes[i] IN Part(q.ud, IF q.d = 0 THEN <<>> ELSE Built(q.d))]

Parsed == host = "parse" /\ frames = <<>>

\* A word that may find no file.
Unsure == \E t \in ToSet(program) : t.type = "func" /\ t.ud \in DOMAIN Sig /\ Sig[t.ud].fails

(* The plumbing that the parse builds is what the program means, and so is *)
(* what it leaves on the stack; the tables of a loaded file are global and *)
(* those of a rendered one private ("loads a sporth file (global           *)
(* variables/tables)", "renders a sporth file (private variables/tables)", *)
(* ugen_reference.txt:861-869).  Without the check of the stack, whatever  *)
(* means something is accepted, if the files it needs are there.           *)
Transparent ==
  Parsed =>
    LET m == Meaning(program, Cardinality(opened))
    IN  /\ ~err => /\ m.ok /\ Built(Main) = m.parts /\ stack = m.stack
                   /\ {e.name : e \in ToSet(plumbings[Main].entries)} = m.tables
        /\ err => ~m.ok \/ stacksize = nchan \/ Unsure

=============================================================================
