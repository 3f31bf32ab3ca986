# Sporth: a verification development

Sporth is a small stack language for sound. A *patch* such as

    'sine' 4096 gen_sine  440 0.1 0 'sine' osc

is parsed once into a list of *pipes* (`plumber.c`, `parse.c`), and that list is
then run in four modes: `CREATE` while it is parsed, `INIT` once, `COMPUTE` for
every sample, and `DESTROY` at the end. The words are *unit generators* ("ugens",
about 190 of them under `ugens/`), each one C function with a `switch` on the
mode. One value stack serves all of it. While a patch plays it can be replaced
by another (live coding); the engine keeps two plumbings and two table maps for
that and frees everything by hand.

This directory holds TLA+ modules translated from that code, TLC runs that check
them on small instances, and TLAPS proofs for every instance.

Contents: [inventory](#inventory) · [modules](#modules) · [how the modules correspond to the code](#how-plumber-corresponds-to-the-code) ·
[runs](#runs) · [proofs](#proofs) · [what the checks brought to light](#what-the-checks-brought-to-light) ·
[not modelled](#not-modelled) · [plan](#plan)

## Inventory

| part | code | state | operations | model |
|---|---|---|---|---|
| Value stack | `stack.c`, `func.c:42` | slots, position, sticky error counter | push, pop, `sporth_check_args` | `SporthStack` |
| Engine | `plumber.c`, `parse.c`, `sporth.c` | two plumbings, six pointers and flags, mode, stack | lexer per token, `plumbing_compute` in four modes, recompilation (`plumber_reinit`, `plumber_reparse`, `plumber_swap`), `plumber_clean` | `Plumber` |
| Table map | `ftmap.c`, `plumber.c:353-395` | named tables and user data, who owns each | add, search, destroy | in `Ugen`, `Plumber` |
| Unit generators | `ugens/*.c`, `h/ugens.h` | what CREATE allocates | one handler each | `Ugen`, `UgenTable` |
| Nested parsing | `ugens/eval.c`, `load.c`, `render.c` | shares stack, `fp`, `ftmap`, `tmp`, `pipes`, `next` and the stack check with the outer parse or pass | a parse, or a whole pass, inside a handler | `Nested` |
| Listener, JACK driver | `util/listener.c`, `util/sp_jack.c`, `sporth.c:8-30` | two message buffers, `pd->str`, `pd->recompile`, `sl->start` | datagram thread, audio callback, start and stop | `Listener`, `LiveCoding` |
| Polysporth voices | `ugens/polysporth/ps.c` | voices with a state each, a linked list of the sounding ones, counts | turn on, turn off, note off, steal, tick, compute | `Voices` |
| Polysporth events | `ugens/polysporth/dvector.c` | linked queue of delta times with a read position | append, sort, to delta, merge, pop, rewind | `Events`, `Schedule` |
| Polysporth scheme bindings | `ugens/polysporth/f.c` | note block flag, delay, release | 50 foreign functions | those that change a voice in `Voices`, those that collect events in `Events` |
| Tokenizer, lexer | `parse.c:8-390` | position, the line of a file | `sporth_tokenizer`, `sporth_lexer`, `sporth_getline`, `plumber_lexer` | `Lexer`; `Plumber` and `Nested` begin with its tokens |
| L-system | `ugens/lsys.c` | slices of the text, a list and its reader | parse, expand, trigger | `LSys` |
| Render loops | `plumber.c:690-800` | `sp->len`, `sp->pos` | file and null driver, interrupt | `RenderLoop` |
| Pure Data external | `util/pd/sporth~.c` | two text buffers, `please_parse`, `pd->fp` | messages, the block, free | `PdHost` |
| Other hosts, tools, vendored code | `util/`, `ugens/cdb/`, scheme, jsmn | | | out of scope |

How the parts interact. The parser calls a handler in CREATE mode for every word
it reads; a handler adds its pipe to `pd->tmp`, pops and pushes the one stack and
reads or extends the one table map. A pass calls the handlers again in list
order, on the same stack. What a handler *returns* matters only to the parser:
`plumbing_compute` ignores it. The error counter is sticky: once it is positive
every push and pop is a no-op until the stack is initialised again, which
happens only at the start of a recompilation, at the start of a DESTROY pass,
and when a recompilation is refused. `sporth_run` resets the position of the
stack after INIT, `plumber_swap` does not. The listener thread writes `pd->str`
and `pd->recompile`, the audio thread reads them.

What is hard about it, and what makes each part correct:

* *Stack*: bounds; a failed push or pop must change nothing but the error; the
  argument check has to promise exactly what the pops behind it need, because
  CREATE handlers ignore what their pops return.
* *Unit generators*: three modes written by hand must pop and push alike, or each
  later word reads wrong values, in a pass in which nothing is checked.
* *Engine*: a sequence of accepted and refused recompilations must never free what
  plays, use what is freed, leak, or let a half compiled patch be heard; a patch
  that the parser accepted must be able to run.
* *Tables*: a map must live exactly as long as the pipes that point into it.
* *Nested parsing*: every handler saves fields, sets them, and has to put them back
  also when the parse in it is refused at some depth; then nesting means substitution.
* *Listener*: no patch may be lost or garbled between the two threads, which share
  two plain variables and no lock.
* *Voices*: the list and its count agree with the states of the voices, whatever
  turns voices on and off, and stealing and note off may race with the end of a note.
* *Events*: every note sounds once, at its time, also when a list is merged into one
  that is being played.
* *Lexer*: a count kept next to a position must never part from it, and a text
  means the same from a file and from a string.
* *Render loops*: the countdown is unsigned, and the patch may change it on the way.
* *Pd*: messages come between blocks, and what the block finds must be the last of them.

The hazards are listed line by line in `PROJECT.json`, each with the properties
that would catch it, or the reason why there is none.

## Modules

    SporthStack <-- Ugen <-- UgenTable <---+-- BenchMC --> LSys
        ^            ^                     |
        |            +---- Plumber <-------+-- PlumberMC --INSTANCE--> HotSwap
        |            |       ^             |
        |            |       +-- UgenProofs <-- PlumberProofs
        +------------+---- Nested <--------+-- NestedMC
                             ^--- NestedProofs --> UgenProofs

    Lexer <-- LexerMC       Listener <-- ListenerMC    (Listener --INSTANCE--> LiveCoding)
    Voices <-- VoicesMC     Events <-- EventsMC        (Events --INSTANCE--> Schedule)
    RenderLoop <-- RenderLoopMC     PdHost <-- PdHostMC
    Voices, Events, Listener, RenderLoop, PdHost
        <-- VoicesProofs, EventsProofs, ListenerProofs, RenderLoopProofs, PdHostProofs

| module | what it is |
|---|---|
| `SporthStack` | one push, one pop, runs of them, `sporth_check_args` |
| `Ugen` | the shape of a handler: a *signature*, what it does to the stack and the table map in each mode |
| `UgenTable` | the signatures of 175 handlers, read off `ugens/*.c`, and the table of `h/ugens.h` |
| `Plumber` | the engine as a state machine: one step per token and per pipe, for any table of signatures and any programs |
| `HotSwap` | what the engine promises: one whole patch plays, and it is replaced in one step or not at all |
| `Voices` | the voices of PolySporth as a state machine: the linked list, its three loops, notes, note off |
| `Nested` | `eval`, `load` and `render`: the recursive parser and pass with an explicit stack of calls |
| `Lexer` | from characters to tokens, from a string and from a file |
| `LSys` | the ugen `lsys`: its parser, its expansion, its reader |
| `Listener` | the three threads of live coding, the coder and the network |
| `LiveCoding` | what live coding promises: what plays was sent, whole, and later ones win |
| `Events` | the heap of event nodes, the two vectors, the scheme calls and ticks that work on them |
| `Schedule` | what a note list promises: every event in the tick it is asked for, once |
| `RenderLoop` | the loops that render without a sound card |
| `PdHost` | the engine inside Pure Data: messages, buffers, blocks |
| the modules named `...MC` | instances for TLC, with patches, reference definitions and bounds |
| `UgenProofs`, `PlumberProofs` | lemmas on stack and handlers, type correctness, the memory invariant, what an accepted patch does in every later pass, the refinement of `HotSwap` |
| `NestedProofs` | programs inside programs at any depth: shared fields, the order of a pass, what a sample leaves on the stack, memory and files given back |
| `VoicesProofs`, `EventsProofs`, `ListenerProofs`, `RenderLoopProofs`, `PdHostProofs` | the invariants of these components, and the refinements of `Schedule` and `LiveCoding` |

Data is abstracted to what the properties tell apart. A value is a float, without
its number, or a string, with its identity, since strings name tables. The error
counter is a Boolean: the code only tests `error > 0`. Signal processing is gone;
a handler is a record of what it pops, looks up, adds and pushes in CREATE, INIT
and COMPUTE, whether it starts with `if(stack->error > 0) return`, whether it
checks its arguments (and with which letters), whether it adds its pipe before
or after that, whether CREATE may refuse for an outside reason (a missing file),
and whether INIT may give up. The hash buckets of the table map are abstracted:
the first entry of a name within its bucket is the first of that name.

## How Plumber corresponds to the code

| model | code |
|---|---|
| `plumbing["main"]`, `["alt"]`, each a list of pipes and a mark `freed` | `pd->main`, `pd->alt`; freed by `plumbing_destroy` |
| `ft["ft1"]`, `["ft2"]`, each a list of entries and a mark `freed` | `pd->ft1`, `pd->ft2`; freed by `plumber_ftmap_destroy` |
| `current_pipe`, `pipes`, `tmp`, `ftmap`, `ftold`, `ftnew` | the pointers of the same names |
| `pipes[i].life`: created, ready, gone | history: which modes have run over the pipe |
| `todo`, `err`, `pass` | the local state of the parse loop and of `plumbing_compute` |
| `left` | history: the stack when the playing patch was accepted |
| `LexValue`, `LexOther`, `LexUnknown`, `Create*` | one round of the token loop: `plumber_lexer` and the handler in CREATE mode |
| `StepValue`, `StepSkipped`, `StepInit*`, `StepCompute`, `StepDestroy` | one round of `plumbing_compute` |
| `Start`, `Started` | `sporth_run` after the parse: INIT, then `stack.pos = 0` |
| `Sample`, `Sampled` | `process()` of `sporth.c`: COMPUTE, then a pop per channel |
| `plumber_reinit` | with the callback of the `_v2` forms, which may add a table |
| `Revert`, `Reverted`, `Commit`, `Committed`, `Resumed` | `plumber_swap` before, between and after its passes |
| `Clean`, `Cleaned` | `plumber_clean` |

All of this runs on one thread; the atomic step is a handler call, so that
every handler sees what the ones before it left. Memory is never dropped in the
model: freed records keep their contents and are marked, so use after free and
double free are states and not undefined. The host is free to take a sample,
recompile any program, or stop, whenever the engine is idle.

## How Voices corresponds to the code

`ps.c` runs inside one ugen (`ps`) of a patch, on the audio thread; scheme code
runs when the file is loaded and from *metanotes*, events that call a function.

| model | code |
|---|---|
| `ps.state`, `.dur`, `.noteoff`, `.next`, `.prev` | the fields of `ps->spl[i]`; `ps.next[Root]` is `ps->root.next`, `Nil` is `NULL` |
| `ps.nvoices` | `ps->nvoices`, the only thing that bounds the loops |
| `last`, `rounds`, `count`, `do_shutup` | `spl` or `ps->last`, `i` and `count` of the loop that is running, `do_shutup` |
| `prev_noteoff` | voices whose `offtick` ugen has `PS_NOTEOFF` in `prev_state` |
| `due`, `unseen` | history: voices released by the clock and not computed since; voices a loop has yet to visit |
| `ps_eval`, `ps_turnon`, `ps_turnoff`, `ps_noteoff`, `ps_noteoff_mode` | the functions scheme code calls (`f.c`), any number of times while `pc` is `load` or `events` |
| `Tick`, `Note`, `Events`, `Clock` | `ps_tick`: events first, then one round per voice |
| `Compute`, `Voice`, `Shutup`, `Silence`, `Computed` | `ps_compute`: one round per voice, and the loop that removes those that asked for it |

Which events a tick finds is left open: any number of notes, for any group of
voices, in any order, as the event vector is a component of its own. `dur` starts as
anything in `Garbage`, since `ps_create` leaves it as `malloc` does. With
`Careful` scheme code only names voices it has allocated; without it, it may
name any. Two things are assumed. Nobody compiles a patch into a voice that sounds
(`ps-eval` would mark it as off while it is in the list). Nobody calls
`ps-clear-events` while voices sound: it sets the count to 0 and the states to off
but leaves `root.next` and the links of the voices (`f.c:484-489`), so the
next voice that is turned on is linked to what was left; its effect on the
events is in `Events`.

## How Nested corresponds to the code

The parser and the pass are recursive C functions. A frame of `frames` has the locals
of one `plumbing_parse`, `plumbing_parse_string` or `plumbing_compute` and those of the
handler that called it: the saved `fp`, `ftmap`, `tmp`, `prev` (`pipes`) and
`next`. `fp`, `ftmap`, `tmp`, `pipes`, `next` are the fields of `plumber_data`.

| model | code |
|---|---|
| `LexValue`, `Lex`, `LexRefused` | `plumber_lexer` for a value and for a ugen without nesting |
| `sporth_eval`, `sporth_load`, `sporth_render`, `NotNested` | CREATE of the three up to the parse they call |
| `Return` | the end of a parse and of the handler around it, refused or not |
| `Enter`, `Step...`, `Rendered`, `Over` | `plumbing_compute`, and the pass that `render` starts inside its own |
| `Start`, `Sample`, `plumber_clean` and their ends | the host |

Values of a string go to the plumbing the parse was given, ugens to `tmp`; that the two are
the same is a conjunct of `Context`, not an assumption. `Files` may contain themselves; `MaxOpen` is the
limit of the process on open files, the only thing that ends such a recursion.

## How Lexer corresponds to the code

A text is a sequence of characters, one for each class that the code tells apart. `Scan` is the
switch of `sporth_tokenizer` (its four modes), with the place where it stops
and the number of characters it counted; `sporth_tokenizer` then copies that many
characters from where the piece *began*, as the code does, so that a count that parts from
the position would show. `sporth_lexer` folds one character at a time
(`LexMode`), `Taken` is `plumber_lexer`, `Getline` `sporth_getline` with its
backslashes. The state machine has the two loops over them.

## How LSys corresponds to the code

`ParseOne` is one call of `lsys_parse`, on positions counted from one; `lsys_make_list`
the recursive expansion, depth first; the list is a sequence, but its field `last` is modelled as the
code uses it: while the list is built the place to append at, later the place of the reader,
which is `Unset` behind the last item.

## How Listener corresponds to the code

| model | code |
|---|---|
| `main`: `sporth_start_listener`, `Start`, `Run`, `plumber_stop_jack` | `sp_process_jack`: the thread is created before `sl->start = 1` |
| `Test`, `Clear`, `Receive`, `StoreStr`, `StoreFlag`, `Again` | one round of `start_listening` |
| `Recompile`, `Parse`, `plumber_swap`, `ClearFlag` | `process()` of `sporth.c` around a recompilation |
| `Send`, `Drop` | the coder and UDP (external) |

A step is one access to shared memory; the text is read in `Pieces`. What a recompilation does with a
whole patch is in `Plumber`; here it succeeds unless the patch is `Bad`. A text put together from
more than one datagram is `Torn`. Two assumptions are variables chosen at the start, so that
one run has all four combinations: `careful`, the coder waits for the effect of each patch, and
`inorder`, the build keeps the two stores of the listener in order.

## How Events corresponds to the code

| model | code |
|---|---|
| `heap[n].delta`, `.next`, `.func` | a `dvalue`; `.when` and `asked` are history: what it was asked for |
| `events`, `tmp` | `ps->events`, `ps->tmp`; every field `dvector_init` leaves alone keeps its value, every field nobody sets is `Unset` |
| `dvector_append_value`, `dvector_time_sort`, `dvector_time_to_delta`, `dvector_merge`, `dvector_free` | the functions of these names, relinking in place |
| `Load`, `Loaded`, `ps_init` | scheme code while the file is loaded, `dvector_rewind` at its end, the init function |
| `Tick`, `Event`, `Later`, `Uninitialised` | `ps_tick` with `dvector_pop` |
| `ps_clean` | `ps_clean` |

Scheme code is any sequence of the calls of its `style`. A style says whether noteblocks are bracketed as
in the examples, and what `malloc` may leave in the link of a metanote. Starts and delays are not
negative (`Calls`): `dvector_pop` waits for a difference of exactly 0, so an event before time 0 would never be due
and would hold back everything behind it. The scheme wrappers convert whatever number they are given.

`Chain` is the walk along `next`, as far as the size goes; `Sorted` and `Merged` have one step per
round of the loops of `dvector_time_sort` and `dvector_merge`, and `Linked` and `Differences` write what these store
into the nodes.

## How RenderLoop and PdHost correspond to the code

`RenderLoop` has one action per round of a loop: a block and each of its samples for the
file driver, a sample for the null driver. Any sample may set a new length (`setdurs`), and `len` is reduced
modulo `2^Width`. In `PdHost` a character is a cell that says which program it is from and where
in it, the two buffers lie next to each other as in the object, and the NUL is
stored where `parse` stores it, one place behind the last space.

## Runs

`tlc -workers 2 -config X.cfg M` in this directory.

| run | module, cfg | states | shows |
|---|---|---|---|
| bench | `BenchMC`, `Bench.cfg` | 49,827 | the parts that need no engine: `sporth_check_args` accepts exactly the stacks on which the pops succeed; INIT of every ugen of the table leaves what CREATE left, a sample the floats of it, as many as `h/ugens.h` declares; `lsys` gives what its grammar derives, and triggers go round it in order |
| string | `PlumberMC`, `PlumberString.cfg` | 35,232 | live coding from strings with the stack check: types, pointers, memory, and the refinement of `HotSwap` |
| file | `PlumberMC`, `PlumberFile.cfg` | 25,785 | files, without the stack check, where errors and surplus values survive the parse: sound patches run clean through all recompilations, and what INIT did not set up is computed only after a refused recompilation has lifted the error, or where INIT may give up unseen |
| nested | `NestedMC`, `Nested.cfg` | 3,260 | programs inside programs, refused and accepted at any depth: shared fields, order of the pass, files and memory given back, nesting means substitution, parsing ends |
| lexer | `LexerMC`, `Lexer.cfg` | 414,586 | every text of up to four characters, and texts written from up to three parts of the language in every layout |
| listener | `ListenerMC`, `Listener.cfg` | 43,789 | the three threads and the network: refinement of `LiveCoding`, what is lost and why, and that patches are compiled |
| voices | `VoicesMC`, `Voices.cfg` | 1,150,701 | the list is one, each loop visits each voice once whatever it removes, no voice that asked for silence is left sounding, the end of a note is signalled |
| notes | `VoicesMC`, `VoicesNotes.cfg` | 21,828 | uninitialised durations and careless scheme code: no note cuts another short; the time of every note passes (liveness) |
| events | `EventsMC`, `Events.cfg` | 171,408 | the vectors stay apart under any calls; note lists are kept as `Schedule` promises, and every event happens |
| render_loop | `RenderLoopMC`, `RenderLoop.cfg` | 6,205 | how long a patch is rendered that changes its own length; that every sample is written once and the loops end |
| pd | `PdHostMC`, `PdHost.cfg` | 9,729 | messages between blocks: what is compiled is what was asked for last, no file is forgotten |
| metanote | `EventsMC`, `EventsMetanote.cfg` | violation | notes that a metanote asks for may never be played |

Bounds, and why they suffice:

* *Stack size.* `string` uses 5 slots. The patch `'sine' 4096 gen_sine 440 0.1 0
  'sine' osc` needs four at its peak and INIT of a first patch starts on the value the parse left,
  so it fits exactly; programs of 6 floats overflow. `file` uses 4 slots: there the
  same patch is accepted by the parse and overflows in INIT, which raises the error in the
  middle of a pass and exercises every path that works under an error. Only
  differences between depth and size matter to the code, so 32 behaves like 4 and 5.
* *Programs.* Each list holds one patch per way a parse or a pass can go: accepted,
  with tables, with user data, with a global of the host, too few arguments, too
  many values, overflow, unknown word, failed file, failed lookup in INIT, nothing
  at all. Any of them may follow any other, arbitrarily often: the state space is
  closed, there is no bound on recompilations or samples.
* *Channels.* `nchan = 1`. A second channel adds a second value to push and pop.
* *bench* tries each ugen alone, on stacks that are reached by pushes and pops within
  `Depth` of empty and of full, so that handlers meet missing arguments and missing room: what one
  handler leaves is all that the next one sees of it. Argument lists have up to five letters, one more than
  such a stack holds. The grammars are all those of two symbols with definitions of up
  to two, to the fourth order, and the two of the comment in `lsys.c`; ten triggers go round every short list.
* *nested*: 26 patches, with every pair of `eval`, `load` and `render` inside one another, and
  programs that contain themselves, with a handler that looks at the error first, one that adds its pipe late, and one that needs a file. Four files may be open, so the recursion meets the limit within and without a render.
* *lexer*: the tokenizer has four modes and looks one character ahead; four
  characters enter and leave each of them. What needs more (a string between two words) is among the written programs.
* *listener*: three patches, of which one does not compile and one fills its buffer, and two
  pieces. Three are needed for the listener to come back to the buffer that is being read.
* *events*: note lists of up to four events in any number of noteblocks, ticks 0 to 4; calls in any order
  for up to three. A merge takes from both vectors in every pattern of two and two.
* *render_loop*: a counter of four bits and blocks of three samples, two changes of the
  length to 0, 1, less than, exactly and more than a block.
* *pd*: four messages, one for each buffer twice; programs of no atom, of one, of as much as fits, and of one more.
* *Voices.* With three voices a first, a middle and a last one can be removed, and
  two neighbours in the same loop. `voices` uses notes that last and notes of one tick;
  `notes` has two voices and notes of no length as well, which is enough for
  stealing, and keeps the liveness check small. More ticks only count a duration down.

`CHECK_DEADLOCK FALSE` is set where the program really stops: a host is done, a text is
read, a file is rendered, an object is freed, a counter has come to its bound. The voices never stop, and
their runs check for deadlock.

Fairness, and why the code justifies it:

* `Plumber`, `Lexer` and `PdHost` assume none, as nothing stated about them is a liveness property.
* `Nested`: a parse or a pass that was begun goes on (plain C recursion); the host need not ask for anything.
* `Voices`: weak fairness of the steps of a load, a tick and a sample, which says
  that loops end and that the driver keeps asking for samples, and strong
  fairness of `Tick`: the clock of the patch is nonzero in some sample again and
  again. Without the second a note may play for ever, as it should. Scheme code, notes and the wish of
  a patch to be turned off are never forced.
* `Listener`: each of the three threads is scheduled. Nobody has to send, and `recv` need not return.
* `Events`: a file comes to its end, and the clock ticks. The second is weak fairness
  of `ps`, written out with `Playing` because TLC is slow at the `ENABLED` of that action.
* `RenderLoop`: a loop that is not blocked goes on. The interrupt is never forced.

`RunsClean` speaks of patches that are `Sound`: accepted
with one float per channel and no error, made of ugens whose modes agree (`Even`), and with room
for their own peak plus one slot per channel. The last condition is not pedantry:
`sporth_run` runs INIT on top of what the parse left and resets only afterwards
(`plumber.c:628-630`), and `plumber_swap` never resets (`parse.c:536`), so a patch that needs all 32 slots
is accepted, then overflows in INIT, and the sticky error silences it.

What becomes of such a patch is the question of `ReadyUntilRefused`, which is about all patches. INIT has
skipped the handlers that look at the error first (`osc.c:13`), and nothing but the error keeps COMPUTE from them. A later
recompilation that is *refused* resets the stack (`parse.c:509`) and lets the old patch play on: the next
sample computes an `osc` that `osc_init` never saw. The property says that this is the only way, besides
a ugen like `spa`, whose INIT may return early with no error to show for it (`Exposed`), and
that a `Sound` patch computes nothing that is not set up. The run reaches both exceptions: without either disjunct it fails.

`HotSwapSpec` maps a state to the text and the tables of the patch that plays.
The set of patches is computed by a second reading of the code (`Compile` in
`PlumberMC`, one fold for CREATE and one for INIT, with single pushes and pops),
so the engine is compared with something that shares none of its steps. In the same way `Transparent` compares the
plumbing that `Nested` builds with `Compile` in `NestedMC`, a recursive reading without frames and fields,
`Derives` the slices of `LSys` with the rewriting of words, and `SameFromFile` a file with the cuts of its text.

`Promise` (`Listener`) and `Kept` (`Events`) are refinements under assumptions on the user: a careful coder with stores
in order, a bracketed note list. For everybody else the abstract machine is mapped to one that rests, and the
other properties of those runs say what is left. `Answered` gives the only other ways a patch can go: lost by the
network, sent to a listener that missed its start (`sp_jack.c:153-154`), or overtaken by the end of the program.

`Total` says what really happens when a patch shortens itself in the middle of a block to less than the
block: `sp->len` goes below zero, that is, around, and rendering goes on for `2^Width` samples more.

Each property has a mutant in `PROJECT.json`: a definition with a plausible bug in
it (the operators marked `Wrong:`), under which the run must fail.

## Proofs

`tlapm M.tla`. Every theorem holds for all values of the constants that the named
assumption of its module admits; TLC evaluates these assumptions in the runs.

| module | for every | assuming |
|---|---|---|
| `PlumberProofs` | table of signatures, set of programs and global names, stack size, number of channels | `StackAssumption`, `PlumberAssumption` |
| `NestedProofs` | table of signatures, set of programs, files and strings that name them, stack size, limit on open files | `StackAssumption`, `NestedAssumption`; `Roomy` for `RunsAsParsedHolds` |
| `VoicesProofs` | number of voices, set of durations and of values a new voice may contain | `VoicesAssumption` |
| `EventsProofs` | set of styles of scheme code, functions, number of events and of ticks | `EventsAssumption`; `Quiet` for `AgreeHolds` and `KeptHolds` |
| `ListenerProofs` | number and length of patches, which of them do not compile or fill their buffer | `ListenerAssumption` |
| `RenderLoopProofs` | width of the counter, size of a block, set of lengths | `RenderLoopAssumption` |
| `PdHostProofs` | size of the buffers, programs and files | `PdHostAssumption` |

The bounds (`MaxSent`, `MaxChanges`, `MaxSamples`, `MaxMessages`) are constants too, any numbers. `RenderLoopAssumption` says
that `2 ^ Width` is a natural number, which is so for every `Width`; the provers do not know it.

### The engine

* `UgenProofs`: what pops, pushes, and whole handlers keep: a stack stays within its
  slots (`PopAllType`, `PushAllType`, `ApplyType`), and a handler that gets its
  arguments adds only entries named by strings it really popped (`AddedType`).
  That needs the argument from the definition of `Popped`: when no error is
  raised, every pop found a value of its type. A second group says exactly what a run of pops and pushes leaves
  when it fits (`Fits`, `Under`, `TimesApplied`), also when it is repeated.
* `TypeCorrect`: `Spec => []TypeOK`.
* `PlumberProofs`: `TypeOK` says nothing about which pointer is which, so the memory
  properties are not inductive. `Inv` adds `Roles`, which gives each pointer its one
  value in every phase as a function of `current_pipe` (between
  `plumber_reinit` and the end of the DESTROY pass both pairs are live, otherwise exactly one), and `Lifetimes`:
  the pipes of a live plumbing are not gone, except those behind the DESTROY pass
  that is under way, and that pass always runs with the stack just initialised,
  so a handler guarded by the error counter cannot skip its DESTROY. `Inv` is inductive; from it follow
  * `PointersPaired` (`Paired`): between calls the pointers name one live pair, and
    the other pair is freed;
  * `NothingUsedAfterFree` (`NoUseAfterFree`);
  * `EverythingFreedOnce` (`FreedOnce`);
  * `NothingIsLeaked` (`NothingLeaked`, an action property).

  These do not depend on what the handlers do: any mistake in `UgenTable` leaves them true.
* `RunsCleanHolds` (`RunsClean`) does. A pass repeats with the stack what the
  parse did, one pipe after the other, so the invariant has to remember the parse. A *trace* of a list of
  pipes (`TraceOf`) is the stack before, between and after them, each following from the one before by what CREATE does there. `PlayInv` adds to `Inv`:
  `ParseTraced`, what is parsed so far without an error has a trace that ends in the stack as it is;
  `LeftTraced`, the same for the stack as the first parse left it, as long as the patch is held;
  `Steady`, for the patch that is held, if it is sound, and each trace of it, how far the pass under way has come along this trace,
  and what is on the stack between samples. The step from one pipe to the next is `InitSteps` and `ComputeSteps`: a handler
  that is even takes the stack of a trace to the next one, with no error, if there is room. The depths
  `DepthsAre` needs are those of a least counterexample, taken from the order of the numbers. A refused parse
  leaves the patch that plays as it was, with its trace and its progress.
* `ReadyUntilRefusedHolds` (`ReadyUntilRefused`) is about every patch, and no handler has to be even for it. The invariant is `Barred`: of the
  pipes that INIT has left behind each is set up, or `Exposed`, or guarded while the stack is in error; between samples and in them
  the same holds of all pipes, or else `tmp` is not the patch that plays. No pipe takes an error back (`StepError`), nor do `Started`, `Resumed` and
  `Sampled`; `Reverted` does, and leaves `tmp` where the refused patch was built. That a sound patch
  is not concerned follows from `PlayInv` (`SoundReady`).
* `HotSwapHolds` is the refinement `Spec => Swap!Spec`, `HeardUntilReplaced` the action property that the patch heard (`Patch`) changes in `Started`,
  `Resumed` and `Clean` only. `HotSwap` needs a set of patches. In the proof it is `WholePatches`: what a whole program of `Programs`
  compiles to, given by what each token (`Compiles`) and each item of the text in INIT (`SetsUp`) does to a text, a stack and a
  table map of its own, without plumbings, pointers and passes. `SwapInv` adds to `Inv` how far each pair has come with its program: `ParsesWhole`,
  the parse under way has made of the pair what the tokens so far make of an empty one; `CommitsWhole`, while the old patch is
  destroyed the new pair is what all tokens make; `StartsWhole`, INIT has come as far as the pass; `PlaysWhole`, what is heard is in `WholePatches`. Each step leaves
  what is heard alone (`LexUnheard`, `StepUnheard`: tokens and INIT write to the pair that `current_pipe` names, which during a
  recompilation is not the one that plays) or is one of the three. Nothing is assumed of the handlers: this too holds whatever is in `UgenTable`.

### Programs inside programs

`NestedProofs`: `Context` says what the fields are for the innermost call only, and nothing of what the calls around it
will find when it returns. `NestedInv` adds this for every frame (`ParseCall`, `PassCall`): what a frame saved is what the
innermost call of its kind *below it* means, so that putting it back restores `Context`, at any depth and wherever the refusal came.
`Tree` says that each plumbing but the first belongs to one pipe of an earlier one, `Freed` that a DESTROY pass
has freed what belongs to the pipes it has left behind, and `Unset` that memory nobody set is left only by a refusal.

* `InvHolds` (`Inv`).
* `AllReleasedHolds` (`AllReleased`): of the plumbings that were set and are not freed take the first; its pipe is in an earlier one, which
  is freed, and everything behind a freed plumbing is freed too.
* `InOrderHolds` (`InOrder`): `InStep` says of a pass under way what had been visited when each of its calls began (`Began`), and that each has
  since visited its plumbing up to the pipe it is at (`Upto`, a prefix of `Walk`). When the call of a render ends it has visited all that its
  plumbing has, which is what the walk of its caller has at that pipe. `Walk` is recursive from a plumbing to later ones: that it
  exists and is what its definition says (`WalksExist`, `WalkIs`) and what `FlattenSeq` computes (`FlattenPrefix`) is shown by a least or greatest counterexample.
* `RunsAsParsedHolds` (`RunsAsParsed`, under `Roomy`): a sample is compared with the parse by a trace, `Ran`, of the stacks along
  a walk, each from the one before by what the pipe there does to it (`Does`); `Leads` says where a walk ends. `Replays` says that the stack of
  a parse is where CREATE leads along `Walk`. A token makes `Walk` longer by one place at its end (`WalkGrows`), since no two pipes
  share a plumbing (`Single`) and what is being parsed hangs at the last pipe of what parses it (`Lined`, `Spine`). A pass is
  where its mode leads along `visited`, which at the end is the walk (`InStep`). So INIT does again what
  CREATE did (`InitAgain`), and each sample ends as the parse did (`ComputeAgain`).

`Roomy` is about the code: `sporth_stack` keeps an error, and INIT runs on top of what CREATE left, so a program that fits
when it is parsed may overflow in INIT, and then the stack counts as broken in every sample after it. `Roomy` says that what the parse left and what the program
needs at any place fit together. The run checks `RunsAsParsed` without it; that its programs leave no error shows that they have the room.

`NestedAssumption` asks of the ordinary ugens that they are even and that their letters are the types they pop, so the theorems
leave out 16 words of the table: those of `Uneven`, those whose INIT looks up a table (`scrubby`, `slice`, `tseq`), and those
whose CREATE checks other arguments than it pops (`adsr`, `bitcrush`) or pops nothing or unchecked (`swap`, `drop`, `voc`). Ordinary ugens may look at the error first, add their pipe late or
need a file.

### The voices

`VoicesProofs`: `Linked` speaks of the walk along `next`, a recursive function, and says nothing about a loop that stands in the middle of the list.
`Good` says of the walk that it names the root and then the voices of the list, each once, with the links both ways,
and which states belong to voices in the list and outside. A step is then followed by giving the new walk, the old one without a place or with one
more, and any function that follows the links is the walk (`WalkIs`). `AtRound` says where each loop stands: the voices it
has still to see are the last `rounds` of the list, and `last`, or `get_next_voice_id`, is the first of them, also after voices
behind or under the cursor were unlinked. `Asked` says which voices may still have asked for their end in each phase: all during the samples,
those not yet seen in the loop that removes them, none afterwards.

* `InvHolds` (`Inv`), `EachOnceHolds` (`EachOnce`), `SilencedHolds` (`Silenced`).
* `NotStolenHolds` (`NotStolen`), an action property: with `VoicesInv`, by the cases of `Next`. The hard one is
  `find_free_voice`, which passes over voices with time left.
* `OfftickSentHolds`: `Spec => []OfftickSent`, under the hypothesis that no note takes 0 ticks (`0 \notin Durations`),
  as in the run; with notes of 0 ticks it is false (see below). The strengthening, `Fresh`, says that a voice
  that plays, and that `offtick` saw in note off the last time, still has time, or its round in this tick is over.

### The events

`EventsProofs`: `Inv` looks at the chains of two vectors, which a call may sort, cut and join. `Chain`, `Sorted`, `Merged`, `Times` and
`Run` are recursive functions, and what they compute is shown for any length by one scheme: a step function
has a run of N steps (`RunExists`), and a set with 0, and with n + 1 whenever it has n, has all numbers up to N (`UpTo`).
So a sort keeps the nodes and orders them, a merge takes each node of both chains once and in the order of their times, and
the differences it writes add up to these times again.

* `InvHolds` (`Inv`), for all styles, also those that nest noteblocks, clear while notes are left or have functions that collect events.
  `Sound` is a claim about one *record* of the variables and its two chains, so that every call of scheme code can be looked
  at as a function from records to records (`CallSound`, `RunSound`). It says more than `Inv`: which of the fields are unset, that
  a chain ends where `last` points, and that what is left to read is the end of the chain of `events`, or `top` is unset.
* `AgreeHolds` (`Agree`) and `KeptHolds` (`Kept`, the refinement `Spec => Promise!Spec`). They hold under `Quiet`: the functions that the
  bracketed styles call collect no events themselves. The run `events` satisfies `Quiet`; `metanote` does not, and there the
  code does lose events, so the hypothesis is needed. `Ledger` keeps account of a bracketed file. While it loads, `Loading` says that every
  node of `tmp` still has its own time and every node of `events` the difference to the one before it; afterwards
  `Reading` says that what was played is the beginning of the chain of `events`, what was asked for is all of it, and the differences of
  the rest count from `clock`. Hence what is at the top is the event to be played first, none is late, and none is played twice.

### Live coding, render loops, Pure Data

* `ListenerProofs`: `Handover` says in which buffer the last patch is while the listener receives, copies and publishes, and that the
  other one is the one it writes to. `InvHolds` (`Inv`) follows. On top of it `Quiet` (what an undisturbed compilation
  has read so far) gives `UndisturbedHolds`, `Followed` (where the last patch is) gives `LostOnlyInRacesHolds`.
  `PromiseHolds` is the refinement `Spec => Promise`: `OneAtATime` says that a careful coder has at most one patch on its way, so that each step of
  the threads is a step of `LiveCoding` or leaves `sent` and `playing` alone.
* `RenderLoopProofs`: `Balance` relates the counter to what was rendered and what is due at every point of a
  block, with `2 ^ Width` more once the counter has to go around; it gives `InvHolds` and `TotalHolds` (`Total`).
* `PdHostProofs`: `Pending` says what the note left for the next block stands for: the file that is at hand or
  the program that is in its buffer, cell by cell. With it `InvHolds` (`Inv`) and `AsSentHolds` (`AsSent`) are inductive.

### What is only model-checked

That what a program compiles to can be computed from it (`HotSwapSpec` has for `Patches` what the folds of `PlumberMC` compute, the theorem
`HotSwapHolds` has the set `WholePatches`); everything about `Lexer` and `LSys`.
`ArgsChecked`, `ModesAgree`, `Derives`, `AsWritten`, `SameFromFile` and `Transparent` compare two recursive
readings of the same data: each would be an induction like those of `EventsProofs`, over both readings at once, and
is not done; `Transparent` also uses `RECURSIVE` operators, for which there is no proof at all. Liveness (`Ages`, `Answered`, `Happens`, `Ends`) and `ENABLED` are out of the prover's reach.

## What the checks brought to light

Run `metanote` keeps the one disagreement that breaks what an example promises. The others were found while the
modules were written, by runs or by comparing the code with its documents; the properties above are stated around them.

*Events.* When a function called by a metanote collects notes, `ps_tick` merges them into the vector it is
reading (`ps.c:166`), and the vector that `dvector_merge` returns has neither `pos` nor `top` set
(`dvector.c:86`): read as 0, the rest of the piece is silent (run `metanote`). A noteblock that ends with a metanote, as in
`examples/03_metanotes.scm:34-35`, is sorted along a `next` that `malloc` left, since
`dvector_append_metanote` (`dvector.c:46-53`) does not set it. `ps-noteblock-begin` in a noteblock warns "Not doing
anything." (`f.c:263`) after it has emptied what was collected (`f.c:258`). `examples/02_notelist.scm` says that there is no sort yet; there is.
The callback that `examples/04_callback.scm` sets is stored (`f.c:119`) and never called.

*Voices.* `ps-noteoff` sets `PS_NOTEOFF` on any voice. If it is not in note off
mode, its clock later calls `ps_turnoff_sporthlet`, which refuses it ("this
shouldn't happen", `ps.c:294`), at every tick from then on; only its own patch
can still end it. Meanwhile its duration is 0, so `find_free_voice` takes it for one that "is about to
be off" (`ps.c:332`), and the note it is found for is lost. `offtick` compares with the state it saw last, in an earlier note: if a note ends in
the tick it starts in, no sample comes between, and there is no offtick; `OfftickSent` is checked for notes that take time. `ps-clear-events` leaves the links of the voices.

*Live coding.* A patch published while another is compiled is lost, because its flag is cleared with the other's
(`sporth.c:17`); with one more the buffer that is being compiled is cleared (`listener.c:56`). A listener that is
quicker than the main thread exits at once.

*Nesting.* `plumbing_parse_string`, which `eval` calls (`eval.c:24`), compares the *whole* stack with what the host wants a
program to leave in the end (`parse.c:449`). So a host that checks the stack refuses `440 "0.5" eval sine`, which one that
does not check accepts, although `ugen_reference.txt:929` says of `eval` "Evaluates sporth string to stack". A render that is refused
before `plumbing_init` is destroyed nonetheless, from memory nobody set. `tick` takes its flag from `plumb->tmp`
(`tick.c:29`); after a refused recompilation that is not the plumbing that plays, which
then ticks again, although `ugen_reference.txt:524` says "trigger at start of file".

*Lexer.* A token that is no number, string, word or comment, such as `440hz`, is passed over without an error (`parse.c:383`);
`examples/api/just_sporth.c:112` says "Otherwise, it throws an error". Single and double quotes close each
other; `-.` is a number; a word that contains quotes goes on behind a blank; a string that spans two
lines, or a backslash, means one thing in a file and another in a string; a backslash at the end of a file yields a junk character.

*Rendering.* See `Total` above.

*Ugens.* Ten words declare in `h/ugens.h` other numbers than their handlers have: `Misdeclared` in `BenchMC` (for
instance `abs`, declared with two inputs, takes one). The engine does not use the numbers, tools do. Handlers whose modes disagree: CREATE of `butbp`, `butbr`, `eqfil`, `expon`,
`line` and `switch` pops nothing (so their arguments stay on the stack of the parse, and
the stack check counts them), INIT of `metro` pops nothing, and INIT of `spa` may give
up without pushing: `Uneven` in `BenchMC`. `lsys` outputs -1 until its first trigger, against its comment (`lsys.c:39-40`).

*Engine.* A patch that fits the stack exactly is accepted and not heard, since INIT overflows; the next refused recompilation clears the error, and
then it computes with what INIT never set up (`ReadyUntilRefused`, above). No document says what should happen. The stack check
of a string counts values of any type and ignores the error.

*Pure Data.* A program may be followed by one character of an older one (`sporth~.c:160`), since the NUL is written one
place too far. A file that cannot be opened is compiled as an empty program before `fclose` is called on what `fopen` gave.
Two messages before one block may lose the file that the first one opened, so `Closed` speaks of one message at a time.

## Not modelled

Vendored code, tools, and the hosts for ChucK and Faust; the scheme interpreter; signal
processing; formatting and printing; the ports and buffers of JACK; `pset`, `in` and `pdsend` of
Pure Data; `psh` and `pst`, which switch the state of a voice without its list; the flag that `tick` reads; the memory that `sporth_getline` grows.
`gen_eval` runs an engine of its own from start to end inside one handler and is a signature in `UgenTable`.
The words `mix` (pops all there is), `print` (takes either type), `f`
and `fe` (call a plug-in) are not in `UgenTable`, because a signature cannot say
what they do. File handles are resources in `Nested` and `PdHost`, not in `Plumber`. `PROJECT.json` lists every component with its status.

## Plan

Done: stack, ugens, engine and hot swap, voices, events, nested parsing, live coding, lexer, `lsys`, render loops and Pure Data,
checked; of the engine, the voices, the events, live coding, the render loops and Pure Data every safety property that the
runs check is proved (`Agree` and `Kept` under `Quiet`), and of nested parsing all but `Transparent` (`RunsAsParsed` under `Roomy`). Left, in this order:

1. `Polysporth`, which composes `Voices` and `Events`; an abstract specification of `Voices`, the set of sounding voices without a list.
2. `AsWritten` of `Lexer`, by the scheme of `EventsProofs`.
