------------------------------ MODULE Plumber ------------------------------
(***************************************************************************)
(* The engine of Sporth (plumber.c, parse.c, ftmap.c): a patch is parsed   *)
(* into a plumbing, a list of pipes, and run by passes over that list.     *)
(*                                                                         *)
(* Two plumbings, main and alt, and two table maps, ft1 and ft2, make it   *)
(* possible to replace the patch while it plays.  A recompilation selects  *)
(* the pair that is not playing, parses into it, and then either commits:  *)
(* it destroys the old patch and starts the new one; or reverts: it        *)
(* destroys what it made and lets the old patch play on.  Six pointers and *)
(* flags say which pair is which, a single stack serves every pass, and    *)
(* all memory is freed by hand.                                            *)
(*                                                                         *)
(* The steps are the tokens of a parse and the pipes of a pass, so every   *)
(* handler call sees the state the calls before it left.  Freed memory     *)
(* keeps its contents and is marked, so a use after free shows.            *)
(***************************************************************************)
EXTENDS Ugen

CONSTANTS
  Sig,         \* the registered ugens, a function from names to signatures
  Programs,    \* the patches a host may hand over, sequences of tokens
  Globals,     \* table names a host may add before a recompilation parses
  nchan,       \* output channels, values taken from the stack per sample
  CheckStack   \* the host called plumber_check_stack(pd, nchan)

Ugens == DOMAIN Sig

Tokens == [type : {"float"}, ud : {FLOAT}] \cup [type : {"string"}, ud : Strings]
          \cup [type : {"func"}, ud : STRING] \cup [type : {"other"}, ud : {FLOAT}]

ASSUME PlumberAssumption ==
  /\ Sig \in [Ugens -> Signatures]
  /\ Programs \subseteq Seq(Tokens)
  /\ Globals \subseteq Strings
  /\ nchan \in Nat \ {0}
  /\ CheckStack \in BOOLEAN

VARIABLES
  plumbing,      \* main and alt: their pipes, and whether these were freed
  ft,            \* ft1 and ft2: their entries, and whether these were freed
  current_pipe,  \* 0: main and ft1 are current, 1: alt and ft2
  pipes, tmp,    \* the plumbing that plays, and the one being built
  ftmap, ftold, ftnew,
  fp,            \* whether the patch is read from a file
  mode, stack,
  pc,            \* what the host's thread is doing
  todo, err,     \* of a parse: the tokens left, and whether one was refused
  pass,          \* of a pass: plumbing, place, caller's pipes, what follows
  left           \* history: the stack when the patch that plays was accepted

vars == <<plumbing, ft, current_pipe, pipes, tmp, ftmap, ftold, ftnew, fp,
          mode, stack, pc, todo, err, pass, left>>

pointers == <<current_pipe, pipes, tmp, ftmap, ftold, ftnew>>

PlumbingNames == {"main", "alt"}
MapNames == {"ft1", "ft2"}
Lives == {"created", "ready", "gone"}

\* plumbing_choose pairs main with ft1 and alt with ft2.
PlumbingOf(c) == IF c = 0 THEN "main" ELSE "alt"
MapOf(c) == IF c = 0 THEN "ft1" ELSE "ft2"
PairedMap(p) == IF p = "main" THEN "ft1" ELSE "ft2"
Other(p) == IF p = "main" THEN "alt" ELSE "main"

NewPipe(type, ud) == [type |-> type, ud |-> ud, life |-> "created"]
plumbing_init == [pipes |-> <<>>, freed |-> FALSE]
plumber_ftmap_init == [entries |-> <<>>, freed |-> FALSE]
Unused(r) == [r EXCEPT !.freed = TRUE]

NoPass == [on |-> "main", at |-> 1, prev |-> "main", then |-> "none"]

---------------------------------------------------------------------------
(* plumber_init, and the host's choice of a file or a string to parse.     *)

Init ==
  /\ plumbing = [main |-> plumbing_init, alt |-> Unused(plumbing_init)]
  /\ ft = [ft1 |-> plumber_ftmap_init, ft2 |-> Unused(plumber_ftmap_init)]
  /\ current_pipe = 0 /\ pipes = "main" /\ tmp = "main"
  /\ ftmap = "ft1" /\ ftold = "ft1" /\ ftnew = "ft1"
  /\ fp \in BOOLEAN
  /\ mode = PLUMBER_CREATE /\ stack = sporth_stack_init
  /\ pc = "parse" /\ todo \in Programs /\ err = FALSE
  /\ pass = NoPass /\ left = sporth_stack_init

---------------------------------------------------------------------------
(* plumber_lexer: one token, in plumbing_parse or plumbing_parse_string.   *)
(* plumber_add_ugen and both plumber_add_... append to the same plumbing,  *)
(* since the parse has set tmp to its argument.                            *)

Parsing == pc \in {"parse", "reparse"} /\ todo # <<>> /\ ~err
Token == Head(todo)

AddPipe(type, ud) ==
  plumbing' = [plumbing EXCEPT ![tmp].pipes = Append(@, NewPipe(type, ud))]

Accept ==
  /\ todo' = Tail(todo)
  /\ UNCHANGED <<pointers, fp, mode, pc, err, pass, left>>

\* plumber_lexer raises the error and returns PLUMBER_NOTOK.
Refuse(st) ==
  /\ stack' = Raise(st)
  /\ err' = TRUE
  /\ UNCHANGED <<pointers, ft, fp, mode, pc, todo, pass, left>>

LexValue ==
  /\ Parsing /\ Token.type \in {"float", "string"}
  /\ AddPipe(Token.type, Token.ud)
  /\ stack' = Push(stack, Token.ud)
  /\ Accept /\ UNCHANGED ft

\* Neither a value nor a word: comments, and what the lexer cannot place.
LexOther ==
  /\ Parsing /\ Token.type = "other"
  /\ Accept /\ UNCHANGED <<plumbing, ft, stack>>

\* sporth_exec finds no such function.
LexUnknown ==
  /\ Parsing /\ Token.type = "func" /\ Token.ud \notin Ugens
  /\ Refuse(stack) /\ UNCHANGED plumbing

CanCreate(u) == Parsing /\ Token.type = "func" /\ Token.ud = u

\* The handler returns before it does anything.
CreateSkipped(u) ==
  /\ CanCreate(u) /\ Sig[u].guard /\ stack.error
  /\ Refuse(stack) /\ UNCHANGED plumbing

Entered(u) == ~(Sig[u].guard /\ stack.error)

ArgsFail(u) == Sig[u].checked /\ ~sporth_check_args(stack, Sig[u].args)

\* Most handlers have added their pipe when the arguments turn out wrong.
CreateBadArgs(u) ==
  /\ CanCreate(u) /\ Entered(u) /\ ArgsFail(u)
  /\ IF Sig[u].late THEN UNCHANGED plumbing ELSE AddPipe("ugen", u)
  /\ Refuse(stack)

CreateMissing(u) ==
  LET e == Sig[u].create IN
  /\ CanCreate(u) /\ Entered(u) /\ ~ArgsFail(u)
  /\ Supplied(e, stack) /\ ~FindsAll(e, stack, ft[ftmap].entries)
  /\ AddPipe("ugen", u)
  /\ Refuse(PopAll(stack, e.pop))

\* Everything the handler asked of Sporth was there, and a file was not.
CreateFailed(u) ==
  LET e == Sig[u].create IN
  /\ CanCreate(u) /\ Entered(u) /\ ~ArgsFail(u) /\ Sig[u].fails
  /\ Supplied(e, stack) => FindsAll(e, stack, ft[ftmap].entries)
  /\ AddPipe("ugen", u)
  /\ Refuse(PopAll(stack, e.pop))

CreateDone(u) ==
  LET e == Sig[u].create IN
  /\ CanCreate(u) /\ Entered(u) /\ ~ArgsFail(u)
  /\ Supplied(e, stack) => FindsAll(e, stack, ft[ftmap].entries)
  /\ AddPipe("ugen", u)
  /\ ft' = [ft EXCEPT ![ftmap].entries =
              IF Supplied(e, stack) THEN @ \o Added(e, stack) ELSE @]
  /\ stack' = Apply(e, stack)
  /\ Accept

Lex ==
  \/ LexValue \/ LexOther \/ LexUnknown
  \/ \E u \in Ugens :
       CreateSkipped(u) \/ CreateBadArgs(u) \/ CreateMissing(u)
       \/ CreateFailed(u) \/ CreateDone(u)

---------------------------------------------------------------------------
(* plumbing_compute: a pass over the pipes of p, in mode m, after which    *)
(* the caller goes on with `next'.  plumb->pipes is p until the pass ends, *)
(* and then again prev, what it was.                                       *)

\* Wrong: DESTROY on the stack that the last pass left, errors included.
BeginDirty(p, m, next, prev) ==
  /\ pc' = "pass"
  /\ pass' = [on |-> p, at |-> 1, prev |-> prev, then |-> next]
  /\ mode' = m
  /\ pipes' = p
  /\ UNCHANGED stack

Begin(p, m, next, prev) ==
  /\ pc' = "pass"
  /\ pass' = [on |-> p, at |-> 1, prev |-> prev, then |-> next]
  /\ mode' = m
  /\ pipes' = p
  /\ stack' = IF m = PLUMBER_DESTROY THEN sporth_stack_init ELSE stack

InPass == pc = "pass" /\ pass.at <= Len(plumbing[pass.on].pipes)
Pipe == plumbing[pass.on].pipes[pass.at]

Advance ==
  /\ pass' = [pass EXCEPT !.at = @ + 1]
  /\ UNCHANGED <<pointers, fp, mode, pc, todo, err, left>>

Live(life) ==
  plumbing' = [plumbing EXCEPT ![pass.on].pipes[pass.at].life = life]

StepValue ==
  /\ InPass /\ Pipe.type \in {"float", "string"}
  /\ stack' = IF \/ mode = PLUMBER_INIT
                 \/ mode = PLUMBER_COMPUTE /\ Pipe.type = "float"
              THEN Push(stack, Pipe.ud) ELSE stack
  /\ Advance /\ UNCHANGED <<plumbing, ft>>

InHandler(m) == InPass /\ Pipe.type = "ugen" /\ mode = m

\* A guarded handler does nothing in any mode once the error is raised.
StepSkipped ==
  /\ InPass /\ Pipe.type = "ugen" /\ ~Entered(Pipe.ud)
  /\ Advance /\ UNCHANGED <<plumbing, ft, stack>>

\* An INIT handler ignores failed pops, but not a failed lookup.
StepInit ==
  LET e == Sig[Pipe.ud].init IN
  /\ InHandler(PLUMBER_INIT) /\ Entered(Pipe.ud)
  /\ Supplied(e, stack) => FindsAll(e, stack, ft[ftmap].entries)
  /\ ft' = [ft EXCEPT ![ftmap].entries =
              IF Supplied(e, stack) THEN @ \o Added(e, stack) ELSE @]
  /\ stack' = Apply(e, stack)
  /\ Live("ready") /\ Advance

StepInitMissing ==
  LET e == Sig[Pipe.ud].init IN
  /\ InHandler(PLUMBER_INIT) /\ Entered(Pipe.ud)
  /\ Supplied(e, stack) /\ ~FindsAll(e, stack, ft[ftmap].entries)
  /\ stack' = Raise(PopAll(stack, e.pop))
  /\ Advance /\ UNCHANGED <<plumbing, ft>>

\* What INIT needs from outside is not there: it pops and returns, and since
\* plumbing_compute ignores what a handler returns, the pass goes on.
StepInitQuits ==
  LET e == Sig[Pipe.ud].init IN
  /\ InHandler(PLUMBER_INIT) /\ Entered(Pipe.ud) /\ Sig[Pipe.ud].quits
  /\ stack' = PopAll(stack, e.pop)
  /\ Advance /\ UNCHANGED <<plumbing, ft>>

StepCompute ==
  /\ InHandler(PLUMBER_COMPUTE) /\ Entered(Pipe.ud)
  /\ stack' = Apply(Sig[Pipe.ud].compute, stack)
  /\ Advance /\ UNCHANGED <<plumbing, ft>>

StepDestroy ==
  /\ InHandler(PLUMBER_DESTROY) /\ Entered(Pipe.ud)
  /\ Live("gone")
  /\ Advance /\ UNCHANGED <<ft, stack>>

Step ==
  \/ StepValue \/ StepSkipped
  \/ StepInit \/ StepInitMissing \/ StepInitQuits
  \/ StepCompute \/ StepDestroy

PassOver(next) ==
  pc = "pass" /\ pass.at > Len(plumbing[pass.on].pipes) /\ pass.then = next

FreePipes(p) == plumbing' = [plumbing EXCEPT ![p].freed = TRUE]
FreeMap(m) == ft' = [ft EXCEPT ![m].freed = TRUE]

Rest == pc' = "idle" /\ pass' = NoPass

---------------------------------------------------------------------------
(* What follows the parse of the first patch (sporth_run and its like).    *)

ParseOver == \/ pc \in {"parse", "reparse"} /\ (todo = <<>> \/ err)

\* Wrong: plumber_reparse ignores what the parse returns.
AcceptedRefused == ParseOver

\* plumbing_parse_string, not plumbing_parse, checks what is left.
Balanced == CheckStack /\ ~fp => Len(stack.vals) = nchan
Accepted == ParseOver /\ ~err /\ Balanced

Start ==
  /\ pc = "parse" /\ Accepted
  /\ left' = stack
  /\ Begin(pipes, PLUMBER_INIT, "start", pipes)
  /\ todo' = <<>> /\ err' = FALSE
  /\ UNCHANGED <<plumbing, ft, current_pipe, tmp, ftmap, ftold, ftnew, fp>>

\* Wrong: the stack is initialised, errors of the INIT pass included.
StartedCleared ==
  /\ PassOver("start")
  /\ pipes' = pass.prev
  /\ stack' = sporth_stack_init
  /\ Rest
  /\ UNCHANGED <<plumbing, ft, current_pipe, tmp, ftmap, ftold, ftnew, fp,
                 mode, todo, err, left>>

\* pd->sporth.stack.pos = 0, which leaves the error alone.
Started ==
  /\ PassOver("start")
  /\ pipes' = pass.prev
  /\ stack' = [stack EXCEPT !.vals = <<>>]
  /\ Rest
  /\ UNCHANGED <<plumbing, ft, current_pipe, tmp, ftmap, ftold, ftnew, fp,
                 mode, todo, err, left>>

---------------------------------------------------------------------------
(* process() of sporth.c: one sample.                                      *)

Sample ==
  /\ pc = "idle"
  /\ Begin(pipes, PLUMBER_COMPUTE, "sample", pipes)
  /\ UNCHANGED <<plumbing, ft, current_pipe, tmp, ftmap, ftold, ftnew, fp, todo, err, left>>

\* Wrong: the host leaves the channels on the stack.
SampledUnread ==
  /\ PassOver("sample")
  /\ pipes' = pass.prev
  /\ Rest
  /\ UNCHANGED <<plumbing, ft, current_pipe, tmp, ftmap, ftold, ftnew, fp,
                 mode, stack, todo, err, left>>

Sampled ==
  /\ PassOver("sample")
  /\ pipes' = pass.prev
  /\ stack' = PopAll(stack, [c \in 1 .. nchan |-> "f"])
  /\ Rest
  /\ UNCHANGED <<plumbing, ft, current_pipe, tmp, ftmap, ftold, ftnew, fp,
                 mode, todo, err, left>>

---------------------------------------------------------------------------
(* plumber_recompile and plumber_recompile_string, with their _v2 forms:   *)
(* plumber_reinit, the callback, plumber_reparse, plumber_swap.            *)

\* fp: an open file is read again, and a string puts NULL in its place.
plumber_reinit ==
  /\ pc = "idle"
  /\ fp' \in {FALSE, fp}
  /\ current_pipe' = 1 - current_pipe
  /\ ftold' = MapOf(current_pipe)
  /\ ftnew' = MapOf(1 - current_pipe)
  /\ ftmap' = MapOf(1 - current_pipe)
  /\ tmp' = PlumbingOf(1 - current_pipe)
  /\ plumbing' = [plumbing EXCEPT ![PlumbingOf(1 - current_pipe)] = plumbing_init]
  /\ \E g \in {<<>>} \cup {<<name>> : name \in Globals} :
       ft' = [ft EXCEPT ![MapOf(1 - current_pipe)] =
                [plumber_ftmap_init EXCEPT !.entries =
                   [i \in 1 .. Len(g) |->
                      [name |-> g[i], type |-> PTYPE_TABLE, owned |-> TRUE]]]]
  /\ stack' = sporth_stack_init
  /\ mode' = PLUMBER_CREATE
  /\ pc' = "reparse" /\ todo' \in Programs /\ err' = FALSE
  /\ UNCHANGED <<pipes, pass, left>>

\* plumber_swap(plumb, PLUMBER_NOTOK), up to the end of its DESTROY pass.
Revert ==
  /\ pc = "reparse" /\ ParseOver /\ ~Accepted
  /\ Begin(tmp, PLUMBER_DESTROY, "revert", pipes)
  /\ todo' = <<>> /\ err' = FALSE
  /\ UNCHANGED <<plumbing, ft, current_pipe, tmp, ftmap, ftold, ftnew, fp, left>>

\* Wrong: current_pipe is not turned back.
RevertedHalf ==
  /\ PassOver("revert")
  /\ FreePipes(tmp)
  /\ stack' = sporth_stack_init
  /\ FreeMap(ftmap)
  /\ ftmap' = ftold
  /\ pipes' = PlumbingOf(1 - current_pipe)
  /\ Rest
  /\ UNCHANGED <<current_pipe, tmp, ftold, ftnew, fp, mode, todo, err, left>>

\* Wrong: the map that was destroyed stays the current one.
RevertedSameMap ==
  /\ PassOver("revert")
  /\ FreePipes(tmp)
  /\ stack' = sporth_stack_init
  /\ FreeMap(ftmap)
  /\ current_pipe' = 1 - current_pipe
  /\ pipes' = PlumbingOf(1 - current_pipe)
  /\ Rest
  /\ UNCHANGED <<tmp, ftmap, ftold, ftnew, fp, mode, todo, err, left>>

Reverted ==
  /\ PassOver("revert")
  /\ FreePipes(tmp)
  /\ stack' = sporth_stack_init
  /\ FreeMap(ftmap)
  /\ ftmap' = ftold
  /\ current_pipe' = 1 - current_pipe
  /\ pipes' = PlumbingOf(1 - current_pipe)
  /\ Rest
  /\ UNCHANGED <<tmp, ftold, ftnew, fp, mode, todo, err, left>>

\* plumber_swap(plumb, PLUMBER_OK): its DESTROY pass, then its INIT pass.
Commit ==
  /\ pc = "reparse" /\ Accepted
  /\ left' = stack
  /\ Begin(pipes, PLUMBER_DESTROY, "commit", pipes)
  /\ todo' = <<>> /\ err' = FALSE
  /\ UNCHANGED <<plumbing, ft, current_pipe, tmp, ftmap, ftold, ftnew, fp>>

\* Wrong: INIT looks its tables up in the map that was destroyed.
CommittedOldMap ==
  /\ PassOver("commit")
  /\ FreePipes(pass.prev)
  /\ FreeMap(ftold)
  /\ ftmap' = ftold
  /\ Begin(tmp, PLUMBER_INIT, "resume", tmp)
  /\ UNCHANGED <<current_pipe, tmp, ftold, ftnew, fp, todo, err, left>>

Committed ==
  /\ PassOver("commit")
  /\ FreePipes(pass.prev)
  /\ FreeMap(ftold)
  /\ ftmap' = ftnew
  /\ Begin(tmp, PLUMBER_INIT, "resume", tmp)
  /\ UNCHANGED <<current_pipe, tmp, ftold, ftnew, fp, todo, err, left>>

\* Unlike sporth_run, plumber_swap leaves on the stack what INIT put there.
Resumed ==
  /\ PassOver("resume")
  /\ pipes' = pass.prev
  /\ Rest
  /\ UNCHANGED <<plumbing, ft, current_pipe, tmp, ftmap, ftold, ftnew, fp,
                 mode, stack, todo, err, left>>

---------------------------------------------------------------------------
(* plumber_clean: at the end, or at once when the first parse failed.      *)

Clean ==
  /\ pc = "idle" \/ (pc = "parse" /\ ParseOver /\ ~Accepted)
  /\ Begin(pipes, PLUMBER_DESTROY, "clean", pipes)
  /\ todo' = <<>> /\ err' = FALSE
  /\ UNCHANGED <<plumbing, ft, current_pipe, tmp, ftmap, ftold, ftnew, fp, left>>

Cleaned ==
  /\ PassOver("clean")
  /\ pipes' = pass.prev
  /\ FreePipes(pass.prev)
  /\ FreeMap(ftmap)
  /\ fp' = FALSE
  /\ pc' = "stopped" /\ pass' = NoPass
  /\ UNCHANGED <<current_pipe, tmp, ftmap, ftold, ftnew, mode, stack, todo, err, left>>

Next ==
  \/ Lex \/ Step
  \/ Start \/ Started
  \/ Sample \/ Sampled
  \/ plumber_reinit \/ Revert \/ Reverted \/ Commit \/ Committed \/ Resumed
  \/ Clean \/ Cleaned

Spec == Init /\ [][Next]_vars

---------------------------------------------------------------------------
(* Properties.                                                             *)

Pipes == [type : {"float", "string"}, ud : Values, life : Lives]
         \cup [type : {"ugen"}, ud : Ugens, life : Lives]
Plumbings == [pipes : Seq(Pipes), freed : BOOLEAN]
Maps == [entries : Seq(Entries), freed : BOOLEAN]
Passes == [on : PlumbingNames, at : Nat \ {0}, prev : PlumbingNames,
           then : {"none", "start", "sample", "revert", "commit", "resume", "clean"}]

\* Type invariant.
TypeOK ==
  /\ plumbing \in [PlumbingNames -> Plumbings]
  /\ ft \in [MapNames -> Maps]
  /\ current_pipe \in {0, 1}
  /\ pipes \in PlumbingNames /\ tmp \in PlumbingNames
  /\ ftmap \in MapNames /\ ftold \in MapNames /\ ftnew \in MapNames
  /\ fp \in BOOLEAN /\ mode \in Modes
  /\ stack \in Stacks /\ left \in Stacks
  /\ pc \in {"parse", "reparse", "pass", "idle", "stopped"}
  /\ todo \in Seq(Tokens) /\ err \in BOOLEAN
  /\ pass \in Passes

(* Between calls the pointers agree: plumb->pipes and plumb->ftmap are the *)
(* pair that current_pipe says, both are live, and the other pair is freed *)
(* (plumbing_choose, plumber_swap).  The next recompilation compiles into  *)
(* the other pair and plumber_swap tells the pairs apart by current_pipe,  *)
(* so a disagreement would free the patch that plays.                      *)
Paired ==
  pc = "idle" =>
    /\ pipes = PlumbingOf(current_pipe) /\ ftmap = MapOf(current_pipe)
    /\ ~plumbing[pipes].freed /\ ~ft[ftmap].freed
    /\ plumbing[Other(pipes)].freed /\ ft[PairedMap(Other(pipes))].freed

(* No handler runs over freed memory: the plumbing being parsed or passed  *)
(* over is live, and so is the table map its handlers point into, which is *)
(* the map that a handler looking a name up consults.  Until its DESTROY   *)
(* pass ends a map stays: cdbload and slist use there what the map owns.   *)
NoUseAfterFree ==
  /\ pc \in {"parse", "reparse"} =>
       ~plumbing[tmp].freed /\ ~ft[ftmap].freed /\ ftmap = PairedMap(tmp)
  /\ pc = "pass" =>
       /\ ~plumbing[pass.on].freed /\ ~ft[PairedMap(pass.on)].freed
       /\ mode = PLUMBER_INIT => ftmap = PairedMap(pass.on)

(* Nothing is freed twice: plumber_swap and plumber_clean free the map of  *)
(* the plumbing they destroyed, once, and DESTROY reaches each pipe once.  *)
FreedOnce ==
  pc = "pass" /\ mode = PLUMBER_DESTROY =>
    /\ \A i \in 1 .. Len(plumbing[pass.on].pipes) :
         i >= pass.at => plumbing[pass.on].pipes[i].life # "gone"
    /\ pass.then \in {"revert", "clean"} => ftmap = PairedMap(pass.on)
    /\ pass.then = "commit" => ftold = PairedMap(pass.on) /\ ftnew = PairedMap(tmp)

AllGone(p) ==
  \A i \in 1 .. Len(plumbing[p].pipes) :
    plumbing[p].pipes[i].type = "ugen" => plumbing[p].pipes[i].life = "gone"

(* Nothing is leaked: a plumbing is freed only when DESTROY has reached    *)
(* every ugen in it, plumbing_init and plumber_ftmap_init only ever        *)
(* overwrite what was freed, and when plumber_clean returns all of it is.  *)
NothingLeaked ==
  [][/\ \A p \in PlumbingNames :
          /\ plumbing'[p].freed /\ ~plumbing[p].freed => AllGone(p)
          /\ Len(plumbing'[p].pipes) < Len(plumbing[p].pipes) => plumbing[p].freed
     /\ \A m \in MapNames :
          Len(ft'[m].entries) < Len(ft[m].entries) => ft[m].freed
     /\ pc' = "stopped" => /\ \A p \in PlumbingNames : plumbing'[p].freed
                           /\ \A m \in MapNames : ft'[m].freed]_vars

\* How deep the stack is after each pipe of q, from an empty stack.
Depths(q) ==
  LET Gain(x) == IF x.type # "ugen" THEN 1
                 ELSE Len(Sig[x.ud].create.push) - Len(Sig[x.ud].create.pop)
      depth[n \in 0 .. Len(q)] == IF n = 0 THEN 0 ELSE depth[n - 1] + Gain(q[n])
  IN  {depth[n] : n \in 0 .. Len(q)}

\* The patch was accepted with one float for each channel and no error, its
\* handlers do the same to the stack in every mode, and it leaves room for
\* the nchan values that INIT may start on (sporth_run) or leave behind
\* (plumber_swap).
Sound(p) ==
  /\ left = [vals |-> [c \in 1 .. nchan |-> FLOAT], error |-> FALSE]
  /\ \A i \in 1 .. Len(plumbing[p].pipes) :
       plumbing[p].pipes[i].type = "ugen" => Even(Sig[plumbing[p].pipes[i].ud])
  /\ \A d \in Depths(plumbing[p].pipes) : d + nchan <= SPORTH_STACK_SIZE

(* What the parse accepted runs, if it is Sound: INIT, every sample, a     *)
(* refused or accepted recompilation and the samples after it raise no     *)
(* error, though one stack serves them all, and between samples it holds   *)
(* nothing but what INIT left, at most a value per channel (plumber_swap   *)
(* does not clear it).                                                     *)
RunsClean ==
  /\ pc = "pass" /\ mode \in {PLUMBER_INIT, PLUMBER_COMPUTE} /\ Sound(pass.on) => ~stack.error
  /\ pc = "idle" /\ Sound(pipes) =>
       stack.vals \in {<<>>, left.vals} /\ ~stack.error

\* When INIT of u gives up, nothing keeps COMPUTE from it: no error is
\* raised, or u does not look at errors.
Exposed(u) == Sig[u].quits \/ (Sig[u].init.finds # {} /\ ~Sig[u].guard)

(* An INIT pass that goes wrong leaves ugens that were never set up (a     *)
(* guarded handler skips its INIT once the stack is in error), and nothing *)
(* but that error, which no sample takes back, keeps the guarded ones from *)
(* COMPUTE.  It is lifted in one way, and that is a fault of the code: a   *)
(* later recompilation that is refused resets the stack (parse.c:509) and  *)
(* leaves tmp where it built, and the patch that plays on computes an osc  *)
(* that osc_init never saw (osc.c:13).  Whatever else is computed without  *)
(* INIT is a ugen like spa, whose INIT may give up in silence (spa.c:25).  *)
(* A patch that is Sound computes nothing that is not set up, refusals or  *)
(* not.                                                                    *)
ReadyUntilRefused ==
  InHandler(PLUMBER_COMPUTE) /\ Entered(Pipe.ud) /\ Pipe.life # "ready" =>
    /\ ~Sound(pass.on)
    /\ Exposed(Pipe.ud) \/ tmp # pass.on

---------------------------------------------------------------------------
(* Why the pointers never go astray: in each phase every pointer and flag  *)
(* has one value, given by current_pipe.  PlumberProofs proves that this   *)
(* is inductive and implies Paired, NoUseAfterFree, FreedOnce and          *)
(* NothingLeaked.                                                          *)

Cur == PlumbingOf(current_pipe)
Old == PlumbingOf(1 - current_pipe)
CurMap == MapOf(current_pipe)
OldMap == MapOf(1 - current_pipe)

OneLive ==
  /\ ~plumbing[Cur].freed /\ ~ft[CurMap].freed
  /\ plumbing[Old].freed /\ ft[OldMap].freed
BothLive ==
  /\ ~plumbing[Cur].freed /\ ~ft[CurMap].freed
  /\ ~plumbing[Old].freed /\ ~ft[OldMap].freed

\* Between plumber_reinit and the end of plumber_swap's DESTROY pass.
Compiled == tmp = Cur /\ ftmap = CurMap /\ ftnew = CurMap /\ ftold = OldMap /\ BothLive

PassRoles ==
  CASE pass.then \in {"start", "sample", "clean"} ->
         /\ pass.on = Cur /\ pass.prev = Cur /\ ftmap = CurMap /\ OneLive
         /\ mode = CASE pass.then = "start"  -> PLUMBER_INIT
                     [] pass.then = "sample" -> PLUMBER_COMPUTE
                     [] OTHER                -> PLUMBER_DESTROY
    [] pass.then = "revert" ->
         pass.on = Cur /\ pass.prev = Old /\ Compiled /\ mode = PLUMBER_DESTROY
    [] pass.then = "commit" ->
         pass.on = Old /\ pass.prev = Old /\ Compiled /\ mode = PLUMBER_DESTROY
    [] pass.then = "resume" ->
         /\ pass.on = Cur /\ pass.prev = Cur /\ ftmap = CurMap /\ OneLive
         /\ mode = PLUMBER_INIT
    [] OTHER -> FALSE

Roles ==
  /\ pc = "parse"   => /\ pipes = Cur /\ tmp = Cur /\ ftmap = CurMap /\ OneLive
  /\ pc = "idle"    => /\ pipes = Cur /\ ftmap = CurMap /\ OneLive
  /\ pc = "reparse" => /\ pipes = Old /\ Compiled
  /\ pc = "pass"    => PassRoles
  /\ pc = "stopped" => /\ plumbing[Cur].freed /\ plumbing[Old].freed
                       /\ ft[CurMap].freed /\ ft[OldMap].freed

\* The pipes of a live plumbing are not gone, but for those that a DESTROY
\* pass over it has left behind; nothing keeps that pass from its handlers.
Destroying(p) == pc = "pass" /\ mode = PLUMBER_DESTROY /\ p = pass.on

Lifetimes ==
  /\ pc = "pass" /\ mode = PLUMBER_DESTROY => stack = sporth_stack_init
  /\ \A p \in PlumbingNames : ~plumbing[p].freed =>
       \A i \in 1 .. Len(plumbing[p].pipes) :
         IF Destroying(p) /\ i < pass.at
         THEN plumbing[p].pipes[i].type = "ugen" => plumbing[p].pipes[i].life = "gone"
         ELSE plumbing[p].pipes[i].life # "gone"

Inv == TypeOK /\ Roles /\ Lifetimes

---------------------------------------------------------------------------
(* The patch that plays, for HotSwap: while a recompilation is under way,  *)
(* the old one, whose records keep their contents after they are freed.    *)

Swapping == pc = "reparse" \/ pass.then \in {"revert", "commit", "resume"}
Playing == PlumbingOf(IF Swapping THEN 1 - current_pipe ELSE current_pipe)

Phase ==
  IF pc = "stopped" \/ pass.then = "clean" THEN "stopped"
  ELSE IF pc = "parse" \/ pass.then = "start" THEN "loading"
  ELSE "playing"

NoPatch == [text |-> <<>>, tables |-> <<>>]
Patch ==
  IF Phase # "playing" THEN NoPatch
  ELSE [text   |-> [i \in 1 .. Len(plumbing[Playing].pipes) |->
                      [type |-> plumbing[Playing].pipes[i].type,
                       ud   |-> plumbing[Playing].pipes[i].ud]],
        tables |-> ft[PairedMap(Playing)].entries]
===========================================================================
