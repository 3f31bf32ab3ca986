------------------------------- MODULE Nested -------------------------------
(***************************************************************************)
(* Programs inside programs: eval parses a string, load a file, into the   *)
(* plumbing being parsed; render parses a file into a plumbing of its own, *)
(* with tables of its own, and passes over it whenever its own pipe is     *)
(* passed over (ugens/eval.c, load.c, render.c).                           *)
(*                                                                         *)
(* The parser and the pass are plain recursive functions (parse.c,         *)
(* plumber.c) that talk to the handlers through fields of plumber_data,    *)
(* fp, ftmap, tmp, pipes and next.  Every call saves some of them in       *)
(* locals, sets them and puts them back.  Here the C stack is a sequence   *)
(* of frames; a frame has the locals of a parse or a pass and of the       *)
(* handler that called it.  Plumber has the engine without nesting and     *)
(* recompilation, gen_eval runs an engine of its own.                      *)
(***************************************************************************)
EXTENDS Ugen, SequencesExt

CONSTANTS
  Sig,         \* the ordinary ugens, a function from names to signatures
  Codes,       \* of each string: the program it is
  Files,       \* of each file there is: the program in it
  Patches,     \* what a host may hand over
  MaxOpen,     \* how many files may be open at a time
  nchan        \* what a host may ask for with plumber_check_stack

Nesting == {"eval", "load", "render"}

Tokens == [type : {"float"}, ud : {FLOAT}] \union [type : {"string"}, ud : Strings]
          \union [type : {"func"}, ud : DOMAIN Sig \union Nesting]

\* Letter by letter, the arguments of a handler are what it pops, the last first.
Lettered(sig) == \A i \in 1 .. Len(sig.args) : sig.create.pop[i] = sig.args[Len(sig.args) + 1 - i]

ASSUME NestedAssumption ==
  /\ \A u \in DOMAIN Sig :
       Sig[u] \in Signatures /\ Even(Sig[u]) /\ Lettered(Sig[u])
  /\ DOMAIN Sig \intersect Nesting = {}
  /\ Codes \in [Strings -> Seq(Tokens)]
  /\ DOMAIN Files \subseteq Strings /\ \A f \in DOMAIN Files : Files[f] \in Seq(Tokens)
  /\ Patches \subseteq Seq(Tokens)
  /\ MaxOpen \in Nat \ {0} /\ nchan \in Nat \ {0}

VARIABLES
  plumbings,  \* pd->main and then one of each render: pipes, table map and
              \* whether these were set up and were freed
  stack, fp, ftmap, tmp, pipes, next, mode,    \* fields of plumber_data
  stacksize,   \* another: -1 without the check of the stack
  opened,     \* the open files
  frames,     \* the calls under way
  err,        \* what the last parse returned
  host,       \* parse, idle, init, compute, destroy, cleaned, crashed
  program,    \* history: what the host handed over
  left,       \* history: the stack after the parse
  visited     \* history: the pipes that this pass has come to

fields == <<stack, fp, ftmap, tmp, pipes, next, mode, stacksize>>
vars == <<plumbings, fields, opened, frames, err, host, program, left, visited>>

Main == 1      \* pd->main and ft1
NoFile == 0    \* a NULL file pointer

plumbing_init == [pipes |-> <<>>, entries |-> <<>>, set |-> TRUE, freed |-> FALSE]
Malloced == [plumbing_init EXCEPT !.set = FALSE]

\* One record for both kinds of calls; what is not used keeps these values.
NoCall ==
  [do |-> "parse", by |-> "host", on |-> Main, todo |-> <<>>, own |-> NoFile,
   n |-> 1, pipe |-> <<Main, 1>>,
   fp |-> NoFile, ftmap |-> Main, tmp |-> Main, prev |-> Main, next |-> <<Main, 1>>]

\* The host has a file, or a string.
Init ==
  /\ plumbings = <<plumbing_init>>
  /\ stack = sporth_stack_init /\ mode = PLUMBER_CREATE
  /\ fp \in {NoFile, 1} /\ opened = {fp} \ {NoFile}
  /\ ftmap = Main /\ tmp = Main /\ pipes = Main /\ next = <<Main, 1>>
  /\ program \in Patches /\ stacksize \in {-1, nchan}
  /\ frames = <<[NoCall EXCEPT !.todo = program, !.own = fp]>>
  /\ err = FALSE /\ host = "parse" /\ left = sporth_stack_init /\ visited = <<>>
-----------------------------------------------------------------------------
(* The parse: plumbing_parse, plumbing_parse_string, plumber_lexer.        *)

Top == Last(frames)
Parsing == host = "parse" /\ frames # <<>> /\ ~err /\ Top.todo # <<>>
Token == Head(Top.todo)
Word(u) == Parsing /\ Token.type = "func" /\ Token.ud = u

AddPipe(p, type, ud, d) ==
  [plumbings EXCEPT ![p].pipes = Append(@, [type |-> type, ud |-> ud, d |-> d])]

Taken == [frames EXCEPT ![Len(frames)].todo = Tail(@)]

\* Floats and strings go to the plumbing that the parse was given.
LexValue ==
  /\ Parsing /\ Token.type # "func"
  /\ plumbings' = AddPipe(Top.on, Token.type, Token.ud, 0)
  /\ stack' = Push(stack, Token.ud)
  /\ frames' = Taken
  /\ UNCHANGED <<fp, ftmap, tmp, pipes, next, mode, opened, err, host, stacksize, program, left, visited>>

\* Ugens go to tmp, and their tables to ftmap.
Lex(u) ==
  LET e == Sig[u].create IN
  /\ Word(u) /\ sporth_check_args(stack, Sig[u].args)
  /\ FindsAll(e, stack, plumbings[ftmap].entries)
  /\ plumbings' = [AddPipe(tmp, "ugen", u, 0) EXCEPT ![ftmap].entries = @ \o Added(e, stack)]
  /\ stack' = Apply(e, stack)
  /\ frames' = Taken
  /\ UNCHANGED <<fp, ftmap, tmp, pipes, next, mode, opened, err, host, stacksize, program, left, visited>>

\* plumber_lexer raises the error, and no parse takes another token.
Refused ==
  /\ stack' = Raise(stack) /\ err' = TRUE
  /\ UNCHANGED <<fp, ftmap, tmp, pipes, next, mode, opened, frames, host, stacksize, program, left, visited>>

\* Wrong arguments, no such table, or a file that is missing.  A handler that
\* looks at the error first, or at its arguments, has not added its pipe then.
LexRefused(u) ==
  LET fits == sporth_check_args(stack, Sig[u].args) IN
  /\ Word(u)
  /\ ~fits \/ Sig[u].fails \/ ~FindsAll(Sig[u].create, stack, plumbings[ftmap].entries)
  /\ IF (Sig[u].guard /\ stack.error) \/ (Sig[u].late /\ ~fits) THEN UNCHANGED plumbings
     ELSE plumbings' = AddPipe(tmp, "ugen", u, 0)
  /\ Refused

Argument == FromTop(stack.vals, 1)
Given == sporth_check_args(stack, <<"s">>)
CanOpen == Argument \in DOMAIN Files /\ Cardinality(opened) < MaxOpen
Handle == CHOOSE h \in 1 .. MaxOpen : h \notin opened

\* eval and load parse into the plumbing that is being parsed.
sporth_eval ==
  /\ Word("eval") /\ Given
  /\ plumbings' = AddPipe(tmp, "ugen", "eval", 0)
  /\ stack' = Pop(stack, "s")
  /\ frames' = Append(Taken, [NoCall EXCEPT !.by = "eval", !.on = tmp, !.todo = Codes[Argument],
                                            !.tmp = tmp])
  /\ UNCHANGED <<fp, ftmap, tmp, pipes, next, mode, opened, err, host, stacksize, program, left, visited>>

sporth_load ==
  /\ Word("load") /\ Given /\ CanOpen
  /\ plumbings' = AddPipe(tmp, "ugen", "load", 0)
  /\ stack' = Pop(stack, "s")
  /\ fp' = Handle /\ opened' = opened \union {Handle}
  /\ frames' = Append(Taken, [NoCall EXCEPT !.by = "load", !.on = tmp, !.todo = Files[Argument],
                                            !.own = Handle, !.tmp = tmp, !.fp = fp])
  /\ UNCHANGED <<ftmap, tmp, pipes, next, mode, err, host, stacksize, program, left, visited>>

\* Wrong: the tables go to the map of the caller.
sporth_render_Global ==
  LET d == Len(plumbings) + 1 IN
  /\ Word("render") /\ Given /\ CanOpen
  /\ plumbings' = Append(AddPipe(tmp, "ugen", "render", d), plumbing_init)
  /\ stack' = Pop(stack, "s")
  /\ fp' = Handle /\ opened' = opened \union {Handle}
  /\ tmp' = d
  /\ frames' = Append(Taken, [NoCall EXCEPT !.by = "render", !.on = d, !.todo = Files[Argument],
                                            !.own = Handle, !.tmp = tmp, !.fp = fp, !.ftmap = ftmap])
  /\ UNCHANGED <<ftmap, pipes, next, mode, err, host, stacksize, program, left, visited>>

sporth_render ==
  LET d == Len(plumbings) + 1 IN
  /\ Word("render") /\ Given /\ CanOpen
  /\ plumbings' = Append(AddPipe(tmp, "ugen", "render", d), plumbing_init)
  /\ stack' = Pop(stack, "s")
  /\ fp' = Handle /\ opened' = opened \union {Handle}
  /\ ftmap' = d /\ tmp' = d
  /\ frames' = Append(Taken, [NoCall EXCEPT !.by = "render", !.on = d, !.todo = Files[Argument],
                                            !.own = Handle, !.tmp = tmp, !.fp = fp, !.ftmap = ftmap])
  /\ UNCHANGED <<pipes, next, mode, err, host, stacksize, program, left, visited>>

\* No string, or no such file.  A render has its memory, as malloc left it.
NotNested ==
  \/ /\ Word("eval") /\ ~Given
     /\ plumbings' = AddPipe(tmp, "ugen", "eval", 0) /\ Refused
  \/ /\ Word("load") /\ ~(Given /\ CanOpen)
     /\ plumbings' = AddPipe(tmp, "ugen", "load", 0) /\ Refused
  \/ /\ Word("render") /\ ~(Given /\ CanOpen)
     /\ plumbings' = Append(AddPipe(tmp, "ugen", "render", Len(plumbings) + 1), Malloced)
     /\ Refused

\* A string is checked against the stack when it ends, a file is not.
Balanced == Top.own # NoFile \/ stacksize <= 0 \/ Len(stack.vals) = stacksize

\* Wrong: load and render return at once when the parse was refused.
Return_Eager ==
  /\ host = "parse" /\ frames # <<>> /\ (err \/ Top.todo = <<>>)
  /\ err' = (err \/ ~Balanced)
  /\ frames' = Front(frames)
  /\ tmp' = Top.tmp
  /\ fp' = IF ~err /\ Top.by \in {"load", "render"} THEN Top.fp ELSE fp
  /\ opened' = IF ~err /\ Top.by \in {"load", "render"} THEN opened \ {Top.own} ELSE opened
  /\ ftmap' = IF Top.by = "render" THEN Top.ftmap ELSE ftmap
  /\ stack' = IF err' /\ Top.by # "host" THEN Raise(stack) ELSE stack
  /\ UNCHANGED <<plumbings, pipes, next, mode, host, stacksize, program, left, visited>>

\* Wrong: a refused token does not end the parse.
Return_AtEnd ==
  /\ host = "parse" /\ frames # <<>> /\ Top.todo = <<>>
  /\ err' = (err \/ ~Balanced)
  /\ frames' = Front(frames)
  /\ tmp' = Top.tmp
  /\ fp' = IF Top.by \in {"load", "render"} THEN Top.fp ELSE fp
  /\ opened' = IF Top.by \in {"load", "render"} THEN opened \ {Top.own} ELSE opened
  /\ ftmap' = IF Top.by = "render" THEN Top.ftmap ELSE ftmap
  /\ stack' = IF err' /\ Top.by # "host" THEN Raise(stack) ELSE stack
  /\ UNCHANGED <<plumbings, pipes, next, mode, host, stacksize, program, left, visited>>

\* The end of a parse, and of the handler that called it.  The lexer that
\* called the handler raises the error again.
Return ==
  /\ host = "parse" /\ frames # <<>> /\ (err \/ Top.todo = <<>>)
  /\ err' = (err \/ ~Balanced)
  /\ frames' = Front(frames)
  /\ tmp' = Top.tmp
  /\ fp' = IF Top.by \in {"load", "render"} THEN Top.fp ELSE fp
  /\ opened' = IF Top.by \in {"load", "render"} THEN opened \ {Top.own} ELSE opened
  /\ ftmap' = IF Top.by = "render" THEN Top.ftmap ELSE ftmap
  /\ stack' = IF err' /\ Top.by # "host" THEN Raise(stack) ELSE stack
  /\ UNCHANGED <<plumbings, pipes, next, mode, host, stacksize, program, left, visited>>
-----------------------------------------------------------------------------
(* The pass: plumbing_compute.                                             *)

Pass(by, p) ==
  [NoCall EXCEPT !.do = "pass", !.by = by, !.on = p, !.pipe = <<p, 1>>,
                 !.prev = pipes, !.tmp = tmp, !.ftmap = ftmap]

\* The host asks for a pass over the main plumbing.
Enter(m) ==
  /\ frames' = <<[Pass("host", Main) EXCEPT !.next = next]>>
  /\ mode' = m /\ host' = m /\ visited' = <<>>
  /\ stack' = IF m = PLUMBER_DESTROY THEN sporth_stack_init ELSE stack
  /\ UNCHANGED <<plumbings, fp, ftmap, tmp, pipes, next, opened, err, stacksize, program>>

Passing == host \in Modes /\ frames # <<>>
InPass == Passing /\ Top.n <= Len(plumbings[Top.on].pipes)
Pipe == plumbings[Top.pipe[1]].pipes[Top.pipe[2]]
Following == <<Top.pipe[1], Top.pipe[2] + 1>>

Onward(f, spot) == [f EXCEPT !.n = @ + 1, !.pipe = spot]

\* The next pipe was looked up before the handler was called.
Stepped ==
  /\ next' = Following
  /\ frames' = [frames EXCEPT ![Len(frames)] = Onward(@, Following)]
  /\ visited' = Append(visited, Top.pipe)
  /\ UNCHANGED <<plumbings, fp, ftmap, tmp, pipes, mode, opened, err, host, stacksize, program, left>>

StepValue ==
  /\ InPass /\ Pipe.type # "ugen"
  /\ stack' = IF mode = PLUMBER_INIT \/ (mode = PLUMBER_COMPUTE /\ Pipe.type = "float")
              THEN Push(stack, Pipe.ud) ELSE stack
  /\ Stepped

\* Under an error Apply does nothing, and nor does a guarded handler.
StepUgen ==
  /\ InPass /\ Pipe.type = "ugen" /\ Pipe.ud \in DOMAIN Sig
  /\ stack' = CASE mode = PLUMBER_INIT    -> Apply(Sig[Pipe.ud].init, stack)
                [] mode = PLUMBER_COMPUTE -> Apply(Sig[Pipe.ud].compute, stack)
                [] OTHER                  -> stack
  /\ Stepped

\* Wrong: the string is popped in every mode.
StepInline_Always ==
  /\ InPass /\ Pipe.type = "ugen" /\ Pipe.ud \in {"eval", "load"}
  /\ stack' = Pop(stack, "s")
  /\ Stepped

\* Their own pipe does nothing: what was parsed follows it.
StepInline ==
  /\ InPass /\ Pipe.type = "ugen" /\ Pipe.ud \in {"eval", "load"}
  /\ stack' = IF mode = PLUMBER_INIT THEN Pop(stack, "s") ELSE stack
  /\ Stepped

AtRender == InPass /\ Pipe.type = "ugen" /\ Pipe.ud = "render"

\* A pass of the same mode over the plumbing of the render.
StepRender ==
  /\ AtRender /\ plumbings[Pipe.d].set
  /\ ftmap' = Pipe.d /\ pipes' = Pipe.d
  /\ stack' = CASE mode = PLUMBER_INIT    -> Pop(stack, "s")
                [] mode = PLUMBER_DESTROY -> sporth_stack_init
                [] OTHER                  -> stack
  /\ next' = Following
  /\ frames' = Append(frames, [Pass("render", Pipe.d) EXCEPT !.next = Following])
  /\ visited' = Append(visited, Top.pipe)
  /\ UNCHANGED <<plumbings, fp, tmp, mode, opened, err, host, stacksize, program, left>>

\* DESTROY reads a plumbing that was never set up, and finds nothing in it or
\* follows what it finds.
StepUnset ==
  /\ AtRender /\ ~plumbings[Pipe.d].set
  /\ \/ host' = "crashed"
        /\ UNCHANGED <<plumbings, fields, opened, frames, err, program, left, visited>>
     \/ UNCHANGED stack /\ Stepped

\* Wrong: plumb->next is not put back.
Rendered_Here ==
  /\ Passing /\ ~InPass /\ Top.by = "render"
  /\ pipes' = Top.prev /\ next' = next /\ tmp' = Top.tmp /\ ftmap' = Top.ftmap
  /\ plumbings' = IF mode = PLUMBER_DESTROY THEN [plumbings EXCEPT ![Top.on].freed = TRUE]
                  ELSE plumbings
  /\ frames' = [Front(frames) EXCEPT ![Len(frames) - 1] = Onward(@, next')]
  /\ UNCHANGED <<stack, fp, mode, opened, err, host, stacksize, program, left, visited>>

\* The pass is over; so is the render, and the pass that called it goes on
\* with what plumb->next is now.
Rendered ==
  /\ Passing /\ ~InPass /\ Top.by = "render"
  /\ pipes' = Top.prev /\ next' = Top.next /\ tmp' = Top.tmp /\ ftmap' = Top.ftmap
  /\ plumbings' = IF mode = PLUMBER_DESTROY THEN [plumbings EXCEPT ![Top.on].freed = TRUE]
                  ELSE plumbings
  /\ frames' = [Front(frames) EXCEPT ![Len(frames) - 1] = Onward(@, next')]
  /\ UNCHANGED <<stack, fp, mode, opened, err, host, stacksize, program, left, visited>>

Over(m) ==
  /\ host = m /\ Passing /\ ~InPass /\ Top.by = "host"
  /\ pipes' = Top.prev /\ next' = Top.next /\ tmp' = Top.tmp
  /\ frames' = <<>>
  /\ UNCHANGED <<fp, ftmap, mode, err, stacksize, program, left>>
-----------------------------------------------------------------------------
(* The host: parse, init, as many samples as it wants, clean.              *)

Start ==
  /\ host = "parse" /\ frames = <<>> /\ ~err
  /\ left' = stack
  /\ Enter(PLUMBER_INIT)

Started ==
  /\ Over(PLUMBER_INIT) /\ host' = "idle"
  /\ stack' = [stack EXCEPT !.vals = <<>>]
  /\ UNCHANGED <<plumbings, opened, visited>>

Sample == host = "idle" /\ Enter(PLUMBER_COMPUTE) /\ UNCHANGED left

Sampled ==
  /\ Over(PLUMBER_COMPUTE) /\ host' = "idle"
  /\ stack' = PopAll(stack, [c \in 1 .. nchan |-> "f"])
  /\ UNCHANGED <<plumbings, opened, visited>>

plumber_clean ==
  /\ host = "idle" \/ (host = "parse" /\ frames = <<>> /\ err)
  /\ Enter(PLUMBER_DESTROY) /\ UNCHANGED left

Cleaned ==
  /\ Over(PLUMBER_DESTROY) /\ host' = "cleaned"
  /\ plumbings' = [plumbings EXCEPT ![Main].freed = TRUE]
  /\ opened' = opened \ {fp}
  /\ UNCHANGED <<stack, visited>>

Parse ==
  \/ LexValue \/ sporth_eval \/ sporth_load \/ sporth_render \/ NotNested \/ Return
  \/ \E u \in DOMAIN Sig : Lex(u) \/ LexRefused(u)

Step == StepValue \/ StepUgen \/ StepInline \/ StepRender \/ StepUnset \/ Rendered

Next == Parse \/ Step \/ Start \/ Started \/ Sample \/ Sampled \/ plumber_clean \/ Cleaned

\* What was begun goes on; the host need not ask for anything else.
Spec == Init /\ [][Next]_vars /\ WF_vars(Parse \/ Step \/ Started \/ Sampled \/ Cleaned)
-----------------------------------------------------------------------------
(* Properties.                                                             *)

\* Only the pipe of a render has a plumbing of its own.
Pipes ==
  [type : {"float"}, ud : {FLOAT}, d : {0}] \union [type : {"string"}, ud : Strings, d : {0}]
  \union [type : {"ugen"}, ud : DOMAIN Sig \union {"eval", "load"}, d : {0}]
  \union [type : {"ugen"}, ud : {"render"}, d : Nat \ {0}]

TypeOK ==
  /\ \A p \in DOMAIN plumbings :
       /\ plumbings[p].pipes \in Seq(Pipes) /\ plumbings[p].entries \in Seq(Entries)
       /\ \A k \in DOMAIN plumbings[p].pipes : plumbings[p].pipes[k].d <= Len(plumbings)
       /\ plumbings[p].set \in BOOLEAN /\ plumbings[p].freed \in BOOLEAN
  /\ stack.vals \in Seq(Values) /\ Len(stack.vals) <= SPORTH_STACK_SIZE /\ stack.error \in BOOLEAN
  /\ fp \in 0 .. MaxOpen /\ opened \subseteq 1 .. MaxOpen
  /\ {ftmap, tmp, pipes} \subseteq DOMAIN plumbings
  /\ mode \in Modes /\ err \in BOOLEAN /\ stacksize \in {-1, nchan}
  /\ host \in (Modes \ {PLUMBER_CREATE}) \union {"parse", "idle", "cleaned", "crashed"}

\* Of the calls under way, the last of these kinds.
Innermost(kinds) ==
  frames[CHOOSE i \in DOMAIN frames :
           /\ frames[i].by \in kinds
           /\ \A j \in i + 1 .. Len(frames) : frames[j].by \notin kinds]

(* The fields that the parser, the passes and the handlers share say at    *)
(* each moment what the innermost call means: a value and a ugen go to the *)
(* same plumbing, tables to the map of the innermost render, and the files *)
(* that are open are those being read; a call that is refused half-way     *)
(* through puts everything back (load.c:30-36, render.c:38-50, 53-77;      *)
(* plumber.c:73-112; parse.c:403-422).                                     *)
Context ==
  /\ host = "parse" /\ frames # <<>> =>
       /\ tmp = Top.on
       /\ ftmap = Innermost({"host", "render"}).on
       /\ fp = Innermost({"host", "load", "render"}).own
       /\ opened = {frames[i].own : i \in DOMAIN frames} \ {NoFile}
       /\ pipes = Main
  /\ host \in Modes /\ frames # <<>> => pipes = Top.on /\ ftmap = Top.on /\ tmp = Main
  /\ frames = <<>> => pipes = Main /\ ftmap = Main /\ tmp = Main /\ opened \subseteq {fp}

\* The calls nest, and what they find in the fields is well formed.
Inv == TypeOK /\ Context

\* The pipes of p in the order of a pass, those of its renders with theirs,
\* where the plumbings are P.
Walk(P, p) ==
  LET From[i \in 1 .. Len(P)] ==   \* a render comes after its caller
        LET q == P[i].pipes
        IN  FlattenSeq([k \in DOMAIN q |->
              <<<<i, k>>>> \o IF q[k].d > 0 /\ P[q[k].d].set THEN From[q[k].d] ELSE <<>>])
  IN  From[p]

(* A pass comes to every pipe once, in the order of the program, though    *)
(* all passes advance by the one plumb->next (plumber.c:75-110).           *)
InOrder ==
  /\ \A i \in DOMAIN frames :
       frames[i].do = "pass" /\ frames[i].n <= Len(plumbings[frames[i].on].pipes) =>
         frames[i].pipe = <<frames[i].on, frames[i].n>>
  /\ host \in {"idle", "cleaned"} => visited = Walk(plumbings, Main)

(* A sample leaves on the stack what the parse left there, with the words  *)
(* of eval and load doing nothing and the pipes they made in their place.  *)
RunsAsParsed ==
  host = PLUMBER_COMPUTE /\ Passing /\ ~InPass /\ Top.by = "host"
    /\ left = [vals |-> [c \in 1 .. nchan |-> FLOAT], error |-> FALSE] =>
       stack = left

(* Whatever was refused on the way, when plumber_clean is done no file is  *)
(* open and every plumbing that was set up is freed; only after a render   *)
(* that was refused may it be lost in memory nobody set (load.c:35,        *)
(* render.c:22-46, 67-77).                                                 *)
AllReleased ==
  /\ host = "cleaned" =>
       opened = {} /\ \A p \in DOMAIN plumbings : plumbings[p].set => plumbings[p].freed
  /\ host = "crashed" => err

(* Parsing ends even for a file that loads itself, since the files run out *)
(* (load.c:26-30).                                                         *)
Ends == []<>(frames = <<>> \/ host = "crashed")
=============================================================================
