--------------------------- MODULE PlumberProofs ---------------------------
(***************************************************************************)
(* Type correctness.  The safety of the hot swap: Inv of Plumber is        *)
(* inductive, and with it nothing is used after it was freed, freed twice  *)
(* or leaked.  What a parse accepts runs: PlayInv relates the stack of     *)
(* every pass, and the state of every ugen, to the stack of the parse.     *)
(* And the engine keeps the promise of HotSwap: SwapInv says of which      *)
(* program each pair of a plumbing and a table map is, and how far.        *)
(***************************************************************************)
EXTENDS Plumber, UgenProofs, WellFoundedInduction

---------------------------------------------------------------------------
(* Type correctness: one lemma per group of actions, and the theorem.      *)

\* What a ugen's signature is made of.
LEMMA SigType ==
  ASSUME NEW u \in Ugens
  PROVE  /\ Sig[u] \in Signatures
         /\ Sig[u].create \in Effects /\ Sig[u].init \in Effects
         /\ Sig[u].compute \in Effects
<1>1. Sig[u] \in Signatures
  BY PlumberAssumption DEF Ugens
<1> QED
  BY <1>1 DEF Signatures

\* What the parser makes of a value and of a word is a pipe.
LEMMA NewPipeType ==
  /\ \A ud \in Values : \A t \in {"float", "string"} : NewPipe(t, ud) \in Pipes
  /\ \A u \in Ugens : NewPipe("ugen", u) \in Pipes
  BY DEF NewPipe, Pipes, Lives

\* Adding a pipe, and marking one, keep a plumbing well formed.
LEMMA AddPipeType ==
  ASSUME NEW f \in [PlumbingNames -> Plumbings], NEW p \in PlumbingNames, NEW x \in Pipes
  PROVE  [f EXCEPT ![p].pipes = Append(@, x)] \in [PlumbingNames -> Plumbings]
<1>1. f[p] \in Plumbings /\ f[p].pipes \in Seq(Pipes)
  BY DEF Plumbings
<1>2. Append(f[p].pipes, x) \in Seq(Pipes)
  BY <1>1
<1>3. [f[p] EXCEPT !.pipes = Append(f[p].pipes, x)] \in Plumbings
  BY <1>1, <1>2 DEF Plumbings
<1> QED
  BY <1>3

\* ... and so does marking one as live or freed.
LEMMA LiveType ==
  ASSUME NEW f \in [PlumbingNames -> Plumbings], NEW p \in PlumbingNames,
         NEW i \in 1 .. Len(f[p].pipes), NEW life \in Lives
  PROVE  [f EXCEPT ![p].pipes[i].life = life] \in [PlumbingNames -> Plumbings]
<1>1. f[p] \in Plumbings /\ f[p].pipes \in Seq(Pipes)
  BY DEF Plumbings
<1>2. f[p].pipes[i] \in Pipes
  BY <1>1, ElementOfSeq
<1>3. [f[p].pipes[i] EXCEPT !.life = life] \in Pipes
  BY <1>2 DEF Pipes
<1>4. [f[p].pipes EXCEPT ![i] = [f[p].pipes[i] EXCEPT !.life = life]] \in Seq(Pipes)
  BY <1>1, <1>3, ExceptSeq
<1>5. [f[p] EXCEPT !.pipes = [f[p].pipes EXCEPT ![i] = [f[p].pipes[i] EXCEPT !.life = life]]]
        \in Plumbings
  BY <1>1, <1>4 DEF Plumbings
<1> QED
  BY <1>5

\* Adding entries keeps a table map well formed.
LEMMA AddEntriesType ==
  ASSUME NEW f \in [MapNames -> Maps], NEW m \in MapNames, NEW s \in Seq(Entries)
  PROVE  [f EXCEPT ![m].entries = @ \o s] \in [MapNames -> Maps]
<1>1. f[m] \in Maps /\ f[m].entries \in Seq(Entries)
  BY DEF Maps
<1>2. f[m].entries \o s \in Seq(Entries)
  BY <1>1, ConcatProperties
<1>3. [f[m] EXCEPT !.entries = f[m].entries \o s] \in Maps
  BY <1>1, <1>2 DEF Maps
<1> QED
  BY <1>3

\* The pipe a pass has reached.
LEMMA PipeType ==
  ASSUME TypeOK, InPass
  PROVE  /\ pass.on \in PlumbingNames
         /\ pass.at \in 1 .. Len(plumbing[pass.on].pipes) /\ pass.at + 1 \in Nat \ {0}
         /\ Pipe \in Pipes
<1>1. pass.on \in PlumbingNames /\ pass.at \in Nat \ {0}
  BY DEF TypeOK, Passes
<1>2. plumbing[pass.on].pipes \in Seq(Pipes)
  BY <1>1 DEF TypeOK, Plumbings
<1>3. pass.at \in 1 .. Len(plumbing[pass.on].pipes)
  BY <1>1, <1>2 DEF InPass
<1> QED
  BY <1>1, <1>2, <1>3, ElementOfSeq DEF Pipe

\* The token a parse has reached.
LEMMA TokenType ==
  ASSUME TypeOK, Parsing
  PROVE  Token \in Tokens /\ Tail(todo) \in Seq(Tokens)
<1>1. todo \in Seq(Tokens) /\ todo # <<>>
  BY DEF TypeOK, Parsing
<1> QED
  BY <1>1, HeadTailProperties DEF Token

\* What plumbing_init and plumber_ftmap_init make.
LEMMA EmptyType ==
  /\ plumbing_init \in Plumbings /\ Unused(plumbing_init) \in Plumbings
  /\ plumber_ftmap_init \in Maps /\ Unused(plumber_ftmap_init) \in Maps
<1>1. <<>> \in Seq(Pipes) /\ <<>> \in Seq(Entries)
  OBVIOUS
<1>2. plumbing_init \in Plumbings /\ plumber_ftmap_init \in Maps
  BY <1>1 DEF plumbing_init, plumber_ftmap_init, Plumbings, Maps
<1>3. /\ \A r \in Plumbings : Unused(r) \in Plumbings
      /\ \A r \in Maps : Unused(r) \in Maps
  BY DEF Unused, Plumbings, Maps
<1> QED
  BY <1>2, <1>3

\* plumber_init leaves everything well formed.
LEMMA TypeInit == Init => TypeOK
<1> SUFFICES ASSUME Init PROVE TypeOK
  OBVIOUS
<1>1. /\ plumbing_init \in Plumbings /\ Unused(plumbing_init) \in Plumbings
      /\ plumber_ftmap_init \in Maps /\ Unused(plumber_ftmap_init) \in Maps
  BY EmptyType
<1>2. plumbing \in [PlumbingNames -> Plumbings] /\ ft \in [MapNames -> Maps]
  <2>1. /\ plumbing = [main |-> plumbing_init, alt |-> Unused(plumbing_init)]
        /\ ft = [ft1 |-> plumber_ftmap_init, ft2 |-> Unused(plumber_ftmap_init)]
    BY DEF Init
  <2> QED
    BY <1>1, <2>1 DEF PlumbingNames, MapNames
<1>3. todo \in Seq(Tokens)
  BY PlumberAssumption DEF Init
<1>4. stack \in Stacks /\ left \in Stacks
  BY InitStackType DEF Init
<1>5. pass \in Passes
  BY DEF Init, NoPass, Passes, PlumbingNames
<1> QED
  BY <1>2, <1>3, <1>4, <1>5 DEF Init, TypeOK, PlumbingNames, MapNames, Modes

\* One token.
LEMMA TypeLex == TypeOK /\ Lex => TypeOK'
<1> SUFFICES ASSUME TypeOK, Lex PROVE TypeOK'
  OBVIOUS
<1>0. /\ plumbing \in [PlumbingNames -> Plumbings] /\ ft \in [MapNames -> Maps]
      /\ tmp \in PlumbingNames /\ ftmap \in MapNames /\ stack \in Stacks
  BY DEF TypeOK
<1>1. Parsing
  BY DEF Lex, LexValue, LexOther, LexUnknown, CreateSkipped, CreateBadArgs,
         CreateMissing, CreateFailed, CreateDone, CanCreate
<1>2. Token \in Tokens /\ Tail(todo) \in Seq(Tokens)
  BY <1>1, TokenType
<1>3. \A st \in Stacks : Raise(st) \in Stacks
  BY RaiseType
<1>4. ASSUME Accept, plumbing' \in [PlumbingNames -> Plumbings],
             ft' \in [MapNames -> Maps], stack' \in Stacks
      PROVE  TypeOK'
  BY <1>2, <1>4 DEF TypeOK, Accept, pointers
<1>5. ASSUME NEW st \in Stacks, Refuse(st), plumbing' \in [PlumbingNames -> Plumbings]
      PROVE  TypeOK'
  BY <1>3, <1>5 DEF TypeOK, Refuse, pointers
<1>6. CASE LexValue
  <2>1. Token.ud \in Values /\ Token.type \in {"float", "string"}
    BY <1>2, <1>6 DEF LexValue, Tokens, Values
  <2>2. plumbing' \in [PlumbingNames -> Plumbings]
    BY <1>0, <1>6, <2>1, NewPipeType, AddPipeType DEF LexValue, AddPipe
  <2>3. stack' \in Stacks
    BY <1>0, <1>6, <2>1, PushType DEF LexValue
  <2> QED
    BY <1>0, <1>4, <1>6, <2>2, <2>3 DEF LexValue
<1>7. CASE LexOther
  BY <1>0, <1>4, <1>7 DEF LexOther
<1>8. CASE LexUnknown
  BY <1>0, <1>5, <1>8 DEF LexUnknown
<1>9. ASSUME NEW u \in Ugens,
             CreateSkipped(u) \/ CreateBadArgs(u) \/ CreateMissing(u)
               \/ CreateFailed(u) \/ CreateDone(u)
      PROVE  TypeOK'
  <2>1. /\ Sig[u].create \in Effects /\ Sig[u].create.pop \in Seq(Types)
    BY SigType DEF Effects
  <2>2. AddPipe("ugen", u) => plumbing' \in [PlumbingNames -> Plumbings]
    BY <1>0, NewPipeType, AddPipeType DEF AddPipe
  <2>3. PopAll(stack, Sig[u].create.pop) \in Stacks
    BY <1>0, <2>1, PopAllType
  <2>4. CASE CreateSkipped(u)
    BY <1>0, <1>5, <2>4 DEF CreateSkipped
  <2>5. CASE CreateBadArgs(u)
    BY <1>0, <1>5, <2>2, <2>5 DEF CreateBadArgs
  <2>6. CASE CreateMissing(u)
    BY <1>5, <2>2, <2>3, <2>6 DEF CreateMissing
  <2>7. CASE CreateFailed(u)
    BY <1>5, <2>2, <2>3, <2>7 DEF CreateFailed
  <2>8. CASE CreateDone(u)
    <3>1. stack' \in Stacks
      BY <1>0, <2>1, <2>8, ApplyType DEF CreateDone
    <3>2. ft' \in [MapNames -> Maps]
      <4>1. CASE Supplied(Sig[u].create, stack)
        <5>1. ~stack.error
          BY <4>1 DEF Supplied, PopAll
        <5>2. Added(Sig[u].create, stack) \in Seq(Entries)
          BY <1>0, <2>1, <4>1, <5>1, AddedType
        <5> QED
          BY <1>0, <2>8, <4>1, <5>2, AddEntriesType DEF CreateDone
      <4>2. CASE ~Supplied(Sig[u].create, stack)
        <5>1. ft' = [ft EXCEPT ![ftmap].entries = @]
          BY <2>8, <4>2 DEF CreateDone
        <5> QED
          BY <1>0, <5>1 DEF Maps
      <4> QED
        BY <4>1, <4>2
    <3> QED
      BY <1>4, <2>2, <2>8, <3>1, <3>2 DEF CreateDone
  <2> QED
    BY <1>9, <2>4, <2>5, <2>6, <2>7, <2>8
<1> QED
  BY <1>6, <1>7, <1>8, <1>9 DEF Lex

\* One pipe of a pass.
LEMMA TypeStep == TypeOK /\ Step => TypeOK'
<1> SUFFICES ASSUME TypeOK, Step PROVE TypeOK'
  OBVIOUS
<1>0. /\ plumbing \in [PlumbingNames -> Plumbings] /\ ft \in [MapNames -> Maps]
      /\ ftmap \in MapNames /\ stack \in Stacks /\ pass \in Passes
  BY DEF TypeOK
<1>1. InPass
  BY DEF Step, StepValue, StepSkipped, StepInit, StepInitMissing, StepInitQuits,
         StepCompute, StepDestroy, InHandler
<1>2. /\ pass.on \in PlumbingNames /\ pass.at + 1 \in Nat \ {0}
      /\ pass.at \in 1 .. Len(plumbing[pass.on].pipes) /\ Pipe \in Pipes
  BY <1>1, PipeType
<1>3. [pass EXCEPT !.at = @ + 1] \in Passes
  BY <1>0, <1>2 DEF Passes
<1>4. ASSUME Advance, plumbing' \in [PlumbingNames -> Plumbings],
             ft' \in [MapNames -> Maps], stack' \in Stacks
      PROVE  TypeOK'
  BY <1>3, <1>4 DEF TypeOK, Advance, pointers
<1>5. ASSUME NEW life \in Lives, Live(life)
      PROVE  plumbing' \in [PlumbingNames -> Plumbings]
  BY <1>0, <1>2, <1>5, LiveType DEF Live
<1>6. ASSUME Pipe.type = "ugen"
      PROVE  /\ Sig[Pipe.ud].init \in Effects /\ Sig[Pipe.ud].init.pop \in Seq(Types)
             /\ Sig[Pipe.ud].compute \in Effects
  <2>1. Pipe.ud \in Ugens
    BY <1>2, <1>6 DEF Pipes
  <2> QED
    BY <2>1, SigType DEF Effects
<1>7. CASE StepValue
  <2>1. Pipe.ud \in Values
    BY <1>2, <1>7 DEF StepValue, Pipes
  <2>2. stack' \in Stacks
    BY <1>0, <1>7, <2>1, PushType DEF StepValue
  <2> QED
    BY <1>0, <1>4, <1>7, <2>2 DEF StepValue
<1>8. CASE StepSkipped
  BY <1>0, <1>4, <1>8 DEF StepSkipped
<1>9. CASE StepInit
  <2>1. Pipe.type = "ugen"
    BY <1>9 DEF StepInit, InHandler
  <2>2. stack' \in Stacks
    BY <1>0, <1>6, <1>9, <2>1, ApplyType DEF StepInit
  <2>3. plumbing' \in [PlumbingNames -> Plumbings]
    BY <1>5, <1>9 DEF StepInit, Lives
  <2>4. ft' \in [MapNames -> Maps]
    <3>1. CASE Supplied(Sig[Pipe.ud].init, stack)
      <4>1. ~stack.error
        BY <3>1 DEF Supplied, PopAll
      <4>2. Added(Sig[Pipe.ud].init, stack) \in Seq(Entries)
        BY <1>0, <1>6, <2>1, <3>1, <4>1, AddedType
      <4> QED
        BY <1>0, <1>9, <3>1, <4>2, AddEntriesType DEF StepInit
    <3>2. CASE ~Supplied(Sig[Pipe.ud].init, stack)
      <4>1. ft' = [ft EXCEPT ![ftmap].entries = @]
        BY <1>9, <3>2 DEF StepInit
      <4> QED
        BY <1>0, <4>1 DEF Maps
    <3> QED
      BY <3>1, <3>2
  <2> QED
    BY <1>4, <1>9, <2>2, <2>3, <2>4 DEF StepInit
<1>10. CASE StepInitMissing
  <2>1. Pipe.type = "ugen"
    BY <1>10 DEF StepInitMissing, InHandler
  <2>2. stack' \in Stacks
    BY <1>0, <1>6, <1>10, <2>1, PopAllType, RaiseType DEF StepInitMissing
  <2> QED
    BY <1>0, <1>4, <1>10, <2>2 DEF StepInitMissing
<1>11. CASE StepInitQuits
  <2>1. Pipe.type = "ugen"
    BY <1>11 DEF StepInitQuits, InHandler
  <2>2. stack' \in Stacks
    BY <1>0, <1>6, <1>11, <2>1, PopAllType DEF StepInitQuits
  <2> QED
    BY <1>0, <1>4, <1>11, <2>2 DEF StepInitQuits
<1>12. CASE StepCompute
  <2>1. Pipe.type = "ugen"
    BY <1>12 DEF StepCompute, InHandler
  <2>2. stack' \in Stacks
    BY <1>0, <1>6, <1>12, <2>1, ApplyType DEF StepCompute
  <2> QED
    BY <1>0, <1>4, <1>12, <2>2 DEF StepCompute
<1>13. CASE StepDestroy
  BY <1>0, <1>4, <1>5, <1>13 DEF StepDestroy, Lives
<1> QED
  BY <1>7, <1>8, <1>9, <1>10, <1>11, <1>12, <1>13 DEF Step

\* The start of a pass, and the freeing that may follow one.
LEMMA BeginType ==
  ASSUME TypeOK, NEW p \in PlumbingNames, NEW prev \in PlumbingNames, NEW m \in Modes,
         NEW next \in {"start", "sample", "revert", "commit", "resume", "clean"},
         Begin(p, m, next, prev)
  PROVE  /\ pc' \in {"parse", "reparse", "pass", "idle", "stopped"} /\ pass' \in Passes
         /\ mode' \in Modes /\ pipes' \in PlumbingNames /\ stack' \in Stacks
<1>1. stack \in Stacks /\ sporth_stack_init \in Stacks
  BY InitStackType DEF TypeOK
<1> QED
  BY <1>1 DEF Begin, Passes

\* Freeing keeps plumbings and maps well formed.
LEMMA FreeType ==
  /\ \A p : TypeOK /\ FreePipes(p) => plumbing' \in [PlumbingNames -> Plumbings]
  /\ \A m : TypeOK /\ FreeMap(m) => ft' \in [MapNames -> Maps]
<1>1. ASSUME NEW p, TypeOK, FreePipes(p) PROVE plumbing' \in [PlumbingNames -> Plumbings]
  <2>1. plumbing \in [PlumbingNames -> Plumbings]
    BY <1>1 DEF TypeOK
  <2>2. \A q \in PlumbingNames : [plumbing[q] EXCEPT !.freed = TRUE] \in Plumbings
    BY <2>1 DEF Plumbings
  <2> QED
    BY <1>1, <2>1, <2>2 DEF FreePipes
<1>2. ASSUME NEW m, TypeOK, FreeMap(m) PROVE ft' \in [MapNames -> Maps]
  <2>1. ft \in [MapNames -> Maps]
    BY <1>2 DEF TypeOK
  <2>2. \A q \in MapNames : [ft[q] EXCEPT !.freed = TRUE] \in Maps
    BY <2>1 DEF Maps
  <2> QED
    BY <1>2, <2>1, <2>2 DEF FreeMap
<1> QED
  BY <1>1, <1>2

\* Outside a pass the record of it is well formed.
LEMMA NoPassType == NoPass \in Passes
  BY DEF NoPass, Passes, PlumbingNames

\* plumbing_choose turns current_pipe into names.
LEMMA NamesType ==
  \A c \in {0, 1} : /\ 1 - c \in {0, 1}
                    /\ PlumbingOf(c) \in PlumbingNames /\ MapOf(c) \in MapNames
  BY DEF PlumbingOf, MapOf, PlumbingNames, MapNames

\* Everything between the passes.
LEMMA TypeHost ==
  ASSUME TypeOK,
         \/ Start \/ Started \/ Sample \/ Sampled \/ plumber_reinit \/ Revert
         \/ Reverted \/ Commit \/ Committed \/ Resumed \/ Clean \/ Cleaned
  PROVE  TypeOK'
<1>0. /\ plumbing \in [PlumbingNames -> Plumbings] /\ ft \in [MapNames -> Maps]
      /\ current_pipe \in {0, 1} /\ pipes \in PlumbingNames /\ tmp \in PlumbingNames
      /\ ftmap \in MapNames /\ ftold \in MapNames /\ ftnew \in MapNames
      /\ stack \in Stacks /\ left \in Stacks /\ pass \in Passes
      /\ pass.prev \in PlumbingNames
  BY DEF TypeOK, Passes
<1>1. <<>> \in Seq(Tokens) /\ FALSE \in BOOLEAN
  OBVIOUS
<1>2. /\ PLUMBER_INIT \in Modes /\ PLUMBER_COMPUTE \in Modes
      /\ PLUMBER_DESTROY \in Modes /\ PLUMBER_CREATE \in Modes
  BY DEF Modes
<1>3. CASE Start
  BY <1>0, <1>1, <1>2, <1>3, BeginType DEF Start, TypeOK
<1>4. CASE Started
  <2>1. [stack EXCEPT !.vals = <<>>] \in Stacks
    <3>1. <<>> \in Seq(Values) /\ Len(<<>>) <= SPORTH_STACK_SIZE
      BY StackAssumption
    <3> QED
      BY <1>0, <3>1 DEF Stacks
  <2> QED
    BY <1>0, <1>4, <2>1, NoPassType DEF Started, Rest, TypeOK
<1>5. CASE Sample
  BY <1>0, <1>2, <1>5, BeginType DEF Sample, TypeOK
<1>6. CASE Sampled
  <2>1. [c \in 1 .. nchan |-> "f"] \in Seq(Types)
    <3>1. nchan \in Nat /\ [c \in 1 .. nchan |-> "f"] \in [1 .. nchan -> Types]
      BY PlumberAssumption DEF Types
    <3> QED
      BY <3>1
  <2>2. stack' \in Stacks
    BY <1>0, <1>6, <2>1, PopAllType DEF Sampled
  <2> QED
    BY <1>0, <1>6, <2>2, NoPassType DEF Sampled, Rest, TypeOK
<1>7. CASE plumber_reinit
  <2>1. /\ 1 - current_pipe \in {0, 1}
        /\ PlumbingOf(1 - current_pipe) \in PlumbingNames
        /\ MapOf(1 - current_pipe) \in MapNames /\ MapOf(current_pipe) \in MapNames
    BY <1>0, NamesType
  <2>2. plumbing' \in [PlumbingNames -> Plumbings]
    BY <1>0, <1>7, EmptyType DEF plumber_reinit
  <2>3. ft' \in [MapNames -> Maps]
    <3>1. PICK g \in {<<>>} \cup {<<name>> : name \in Globals} :
            ft' = [ft EXCEPT ![MapOf(1 - current_pipe)] =
                     [plumber_ftmap_init EXCEPT !.entries =
                        [i \in 1 .. Len(g) |->
                           [name |-> g[i], type |-> PTYPE_TABLE, owned |-> TRUE]]]]
      BY <1>7 DEF plumber_reinit
    <3>2. g \in Seq(Strings)
      <4>1. <<>> \in Seq(Strings) /\ \A name \in Strings : <<name>> \in Seq(Strings)
        OBVIOUS
      <4> QED
        BY <4>1, PlumberAssumption
    <3>3. [i \in 1 .. Len(g) |-> [name |-> g[i], type |-> PTYPE_TABLE, owned |-> TRUE]]
            \in Seq(Entries)
      <4>1. \A i \in 1 .. Len(g) : g[i] \in Strings
        BY <3>2, ElementOfSeq
      <4>2. [i \in 1 .. Len(g) |-> [name |-> g[i], type |-> PTYPE_TABLE, owned |-> TRUE]]
              \in [1 .. Len(g) -> Entries]
        BY <4>1 DEF Entries, PTypes
      <4> QED
        BY <3>2, <4>2
    <3>4. \A s \in Seq(Entries) : [plumber_ftmap_init EXCEPT !.entries = s] \in Maps
      BY EmptyType DEF Maps
    <3> QED
      BY <1>0, <3>1, <3>3, <3>4
  <2>4. todo' \in Seq(Tokens)
    BY <1>7, PlumberAssumption DEF plumber_reinit
  <2>5. stack' \in Stacks
    BY <1>7, InitStackType DEF plumber_reinit
  <2>6. fp' \in BOOLEAN
    BY <1>7 DEF plumber_reinit, TypeOK
  <2> QED
    BY <1>0, <1>2, <1>7, <2>1, <2>2, <2>3, <2>4, <2>5, <2>6 DEF plumber_reinit, TypeOK
<1>8. CASE Revert
  BY <1>0, <1>1, <1>2, <1>8, BeginType DEF Revert, TypeOK
<1>9. CASE Reverted
  <2>1. plumbing' \in [PlumbingNames -> Plumbings] /\ ft' \in [MapNames -> Maps]
    BY <1>9, FreeType DEF Reverted
  <2> QED
    BY <1>0, <1>9, <2>1, NamesType, NoPassType, InitStackType DEF Reverted, Rest, TypeOK
<1>10. CASE Commit
  BY <1>0, <1>1, <1>2, <1>10, BeginType DEF Commit, TypeOK
<1>11. CASE Committed
  <2>1. plumbing' \in [PlumbingNames -> Plumbings] /\ ft' \in [MapNames -> Maps]
    BY <1>11, FreeType DEF Committed
  <2> QED
    BY <1>0, <1>2, <1>11, <2>1, BeginType DEF Committed, TypeOK
<1>12. CASE Resumed
  BY <1>0, <1>12, NoPassType DEF Resumed, Rest, TypeOK
<1>13. CASE Clean
  BY <1>0, <1>1, <1>2, <1>13, BeginType DEF Clean, TypeOK
<1>14. CASE Cleaned
  <2>1. plumbing' \in [PlumbingNames -> Plumbings] /\ ft' \in [MapNames -> Maps]
    BY <1>14, FreeType DEF Cleaned
  <2> QED
    BY <1>0, <1>14, <2>1, NoPassType DEF Cleaned, TypeOK
<1> QED
  BY <1>3, <1>4, <1>5, <1>6, <1>7, <1>8, <1>9, <1>10, <1>11, <1>12, <1>13, <1>14

\* Types are inductive.
LEMMA TypeNext == TypeOK /\ [Next]_vars => TypeOK'
<1> SUFFICES ASSUME TypeOK, [Next]_vars PROVE TypeOK'
  OBVIOUS
<1>1. CASE UNCHANGED vars
  BY <1>1 DEF TypeOK, vars
<1>2. CASE Lex
  BY <1>2, TypeLex
<1>3. CASE Step
  BY <1>3, TypeStep
<1> QED
  BY <1>1, <1>2, <1>3, TypeHost DEF Next

(* Type correctness, for every set of ugens and every program: the stack   *)
(* stays within its SPORTH_STACK_SIZE slots, every entry of a table map is *)
(* named by a string, and every pipe is one the parser could have added.   *)
THEOREM TypeCorrect == Spec => []TypeOK
  BY TypeInit, TypeNext, PTL DEF Spec

---------------------------------------------------------------------------
(* The pointers, and what is live.                                         *)

\* What tokens and pipes leave alone: no step of a parse or of a pass frees
\* anything.
SameFreed ==
  /\ \A p \in PlumbingNames : plumbing'[p].freed = plumbing[p].freed
  /\ \A m \in MapNames : ft'[m].freed = ft[m].freed

\* plumbing_add_pipe touches the pipes of one plumbing only.
LEMMA AddPipeEffect ==
  ASSUME TypeOK, NEW type, NEW ud, AddPipe(type, ud)
  PROVE  /\ \A p \in PlumbingNames : plumbing'[p].freed = plumbing[p].freed
         /\ \A p \in PlumbingNames : p # tmp => plumbing'[p] = plumbing[p]
         /\ plumbing'[tmp].pipes = Append(plumbing[tmp].pipes, NewPipe(type, ud))
  BY DEF TypeOK, AddPipe, Plumbings

\* Marking a pipe touches that pipe only.
LEMMA LiveEffect ==
  ASSUME TypeOK, InPass, NEW life, Live(life)
  PROVE  /\ \A p \in PlumbingNames : plumbing'[p].freed = plumbing[p].freed
         /\ \A p \in PlumbingNames : p # pass.on => plumbing'[p] = plumbing[p]
         /\ plumbing'[pass.on].pipes =
              [plumbing[pass.on].pipes EXCEPT ![pass.at] = [@ EXCEPT !.life = life]]
  BY PipeType DEF TypeOK, Live, Plumbings

\* What every token leaves alone.
LEMMA LexFrame ==
  ASSUME TypeOK, Lex
  PROVE  /\ SameFreed /\ UNCHANGED <<pointers, pc, mode, pass>>
         /\ pc \in {"parse", "reparse"}
         /\ \/ UNCHANGED plumbing
            \/ \E type, ud : AddPipe(type, ud)
<1>1. ft \in [MapNames -> Maps] /\ ftmap \in MapNames
  BY DEF TypeOK
<1> DEFINE Frame == /\ UNCHANGED <<pointers, pc, mode, pass>> /\ pc \in {"parse", "reparse"}
                    /\ UNCHANGED plumbing \/ \E type, ud : AddPipe(type, ud)
                    /\ \A m \in MapNames : ft'[m].freed = ft[m].freed
<1>2. Frame
  <2>1. CASE LexValue
    BY <2>1 DEF LexValue, Accept, Parsing
  <2>2. CASE LexOther
    BY <2>2 DEF LexOther, Accept, Parsing
  <2>3. CASE LexUnknown
    BY <2>3 DEF LexUnknown, Refuse, Parsing
  <2>4. ASSUME NEW u \in Ugens, CreateSkipped(u)
        PROVE  Frame
    BY <2>4 DEF CreateSkipped, CanCreate, Refuse, Parsing
  <2>5. ASSUME NEW u \in Ugens, CreateBadArgs(u)
        PROVE  Frame
    BY <2>5 DEF CreateBadArgs, CanCreate, Refuse, Parsing
  <2>6. ASSUME NEW u \in Ugens, CreateMissing(u)
        PROVE  Frame
    BY <2>6 DEF CreateMissing, CanCreate, Refuse, Parsing
  <2>7. ASSUME NEW u \in Ugens, CreateFailed(u)
        PROVE  Frame
    BY <2>7 DEF CreateFailed, CanCreate, Refuse, Parsing
  <2>8. ASSUME NEW u \in Ugens, CreateDone(u)
        PROVE  Frame
    <3>1. UNCHANGED <<pointers, pc, mode, pass>> /\ AddPipe("ugen", u) /\ Parsing
      BY <2>8 DEF CreateDone, CanCreate, Accept
    <3>2. \A m \in MapNames : ft'[m].freed = ft[m].freed
      BY <1>1, <2>8 DEF CreateDone, Maps
    <3> QED
      BY <3>1, <3>2 DEF Parsing
  <2> QED
    BY <2>1, <2>2, <2>3, <2>4, <2>5, <2>6, <2>7, <2>8 DEF Lex
<1>3. \A p \in PlumbingNames : plumbing'[p].freed = plumbing[p].freed
  BY <1>2, AddPipeEffect
<1> QED
  BY <1>2, <1>3 DEF SameFreed

\* What every pipe of a pass leaves alone.
LEMMA StepFrame ==
  ASSUME TypeOK, Step
  PROVE  /\ SameFreed /\ UNCHANGED <<pointers, pc, mode>> /\ InPass
         /\ pass' = [pass EXCEPT !.at = @ + 1]
         /\ UNCHANGED plumbing \/ \E life : Live(life)
<1>1. ft \in [MapNames -> Maps] /\ ftmap \in MapNames
  BY DEF TypeOK
<1> DEFINE Frame == /\ Advance /\ InPass
                    /\ UNCHANGED plumbing \/ \E life : Live(life)
                    /\ \A m \in MapNames : ft'[m].freed = ft[m].freed
<1>2. Frame
  <2>1. CASE StepValue
    BY <2>1 DEF StepValue
  <2>2. CASE StepSkipped
    BY <2>2 DEF StepSkipped
  <2>3. CASE StepInit
    <3>1. \A m \in MapNames : ft'[m].freed = ft[m].freed
      BY <1>1, <2>3 DEF StepInit, Maps
    <3> QED
      BY <2>3, <3>1 DEF StepInit, InHandler
  <2>4. CASE StepInitMissing
    BY <2>4 DEF StepInitMissing, InHandler
  <2>5. CASE StepInitQuits
    BY <2>5 DEF StepInitQuits, InHandler
  <2>6. CASE StepCompute
    BY <2>6 DEF StepCompute, InHandler
  <2>7. CASE StepDestroy
    BY <2>7 DEF StepDestroy, InHandler
  <2> QED
    BY <2>1, <2>2, <2>3, <2>4, <2>5, <2>6, <2>7 DEF Step
<1>3. InPass /\ Advance /\ (UNCHANGED plumbing \/ \E life : Live(life))
  BY <1>2
<1>4. \A p \in PlumbingNames : plumbing'[p].freed = plumbing[p].freed
  <2>1. CASE UNCHANGED plumbing
    BY <2>1
  <2>2. ASSUME NEW life, Live(life)
        PROVE  \A p \in PlumbingNames : plumbing'[p].freed = plumbing[p].freed
    BY <1>3, <2>2, LiveEffect
  <2> QED
    BY <1>3, <2>1, <2>2
<1>5. SameFreed
  BY <1>2, <1>4 DEF SameFreed
<1>6. UNCHANGED <<pointers, pc, mode>> /\ pass' = [pass EXCEPT !.at = @ + 1]
  BY <1>3 DEF Advance
<1> QED
  BY <1>3, <1>5, <1>6

\* Tokens and pipes keep every pointer where it is.
LEMMA RolesQuiet ==
  ASSUME Inv, Lex \/ Step
  PROVE  Roles'
<1>1. /\ TypeOK /\ Roles
  BY DEF Inv
<1>2. /\ SameFreed /\ UNCHANGED <<pointers, pc, mode>>
      /\ pc = "pass" => /\ pass'.then = pass.then /\ pass'.on = pass.on
                        /\ pass'.prev = pass.prev
  BY <1>1, LexFrame, StepFrame DEF TypeOK, Passes
<1>3. UNCHANGED <<current_pipe, pipes, tmp, ftmap, ftold, ftnew, mode, pc>>
  BY <1>2 DEF pointers
<1>4. /\ Cur \in PlumbingNames /\ Old \in PlumbingNames
      /\ CurMap \in MapNames /\ OldMap \in MapNames
      /\ Cur' = Cur /\ Old' = Old /\ CurMap' = CurMap /\ OldMap' = OldMap
  BY <1>1, <1>3, NamesType DEF TypeOK, Cur, Old, CurMap, OldMap
<1>5. /\ OneLive' = OneLive /\ BothLive' = BothLive
  BY <1>2, <1>4 DEF SameFreed, OneLive, BothLive
<1>6. Compiled' = Compiled
  BY <1>3, <1>4, <1>5 DEF Compiled
<1>7. ASSUME pc = "pass" PROVE PassRoles'
  <2>1. PassRoles
    BY <1>1, <1>7 DEF Roles
  <2> QED
    BY <1>2, <1>3, <1>4, <1>5, <1>6, <1>7, <2>1 DEF PassRoles
<1>8. /\ plumbing'[Cur].freed = plumbing[Cur].freed /\ plumbing'[Old].freed = plumbing[Old].freed
      /\ ft'[CurMap].freed = ft[CurMap].freed /\ ft'[OldMap].freed = ft[OldMap].freed
  BY <1>2, <1>4 DEF SameFreed
<1> QED
  BY <1>1, <1>3, <1>4, <1>5, <1>6, <1>7, <1>8 DEF Roles

\* A new pipe is not gone, and nothing is being destroyed while a parse runs.
LEMMA LifetimesLex ==
  ASSUME Inv, Lex
  PROVE  Lifetimes'
<1>1. TypeOK /\ Lifetimes
  BY DEF Inv
<1>2. /\ pc \in {"parse", "reparse"} /\ pc' = pc /\ tmp \in PlumbingNames
      /\ SameFreed /\ (UNCHANGED plumbing \/ \E type, ud : AddPipe(type, ud))
  BY <1>1, LexFrame DEF TypeOK
<1>3. SUFFICES ASSUME NEW p \in PlumbingNames, ~plumbing'[p].freed,
                      NEW i \in 1 .. Len(plumbing'[p].pipes)
               PROVE  plumbing'[p].pipes[i].life # "gone"
  BY <1>2 DEF Lifetimes, Destroying
<1>4. /\ \A j \in 1 .. Len(plumbing[p].pipes) : plumbing[p].pipes[j].life # "gone"
      /\ plumbing[p].pipes \in Seq(Pipes)
  <2>1. ~plumbing[p].freed /\ ~Destroying(p)
    BY <1>2, <1>3 DEF Destroying, SameFreed
  <2>2. \A j \in 1 .. Len(plumbing[p].pipes) : plumbing[p].pipes[j].life # "gone"
    BY <1>1, <2>1 DEF Lifetimes
  <2>3. plumbing[p] \in Plumbings
    BY <1>1 DEF TypeOK
  <2> QED
    BY <2>2, <2>3 DEF Plumbings
<1>5. CASE UNCHANGED plumbing
  BY <1>3, <1>4, <1>5
<1>6. ASSUME NEW type, NEW ud, AddPipe(type, ud) PROVE plumbing'[p].pipes[i].life # "gone"
  <2>1. CASE p # tmp
    BY <1>1, <1>3, <1>4, <1>6, <2>1, AddPipeEffect
  <2>2. CASE p = tmp
    <3>1. plumbing'[p].pipes = Append(plumbing[p].pipes, NewPipe(type, ud))
      BY <1>1, <1>6, <2>2, AddPipeEffect
    <3>2. NewPipe(type, ud).life # "gone"
      BY DEF NewPipe
    <3>3. CASE i = Len(plumbing[p].pipes) + 1
      BY <1>4, <3>1, <3>2, <3>3
    <3>4. CASE i \in 1 .. Len(plumbing[p].pipes)
      BY <1>4, <3>1, <3>4
    <3>5. i \in 1 .. Len(plumbing[p].pipes) + 1
      BY <1>3, <1>4, <3>1
    <3> QED
      BY <1>4, <3>3, <3>4, <3>5
  <2> QED
    BY <2>1, <2>2
<1> QED
  BY <1>2, <1>5, <1>6

\* A DESTROY pass reaches every handler, since it starts on a clean stack
\* and leaves it so; the other passes leave no pipe gone.
LEMMA LifetimesStep ==
  ASSUME Inv, Step
  PROVE  Lifetimes'
<1>1. TypeOK /\ Lifetimes
  BY DEF Inv
<1>2. /\ SameFreed /\ UNCHANGED <<pc, mode>> /\ InPass /\ pc = "pass"
      /\ pass' = [pass EXCEPT !.at = @ + 1]
  BY <1>1, StepFrame DEF InPass
<1>3. /\ pass.on \in PlumbingNames /\ pass.at \in 1 .. Len(plumbing[pass.on].pipes)
      /\ pass.at \in Nat /\ pass'.on = pass.on /\ pass'.at = pass.at + 1
      /\ Pipe \in Pipes
  BY <1>1, <1>2, PipeType DEF TypeOK, Passes
<1>4. \A p \in PlumbingNames : plumbing[p].pipes \in Seq(Pipes)
  BY <1>1 DEF TypeOK, Plumbings
<1>5. CASE mode = PLUMBER_DESTROY
  <2>1. ~stack.error
    BY <1>1, <1>2, <1>5 DEF Lifetimes, sporth_stack_init
  <2>2. \/ StepValue /\ Pipe.type # "ugen" /\ UNCHANGED <<plumbing, stack>>
        \/ StepDestroy /\ Live("gone") /\ UNCHANGED stack
    BY <1>5, <2>1 DEF Step, StepValue, StepSkipped, StepInit, StepInitMissing, StepInitQuits,
         StepCompute, StepDestroy, InHandler, Entered,
         PLUMBER_DESTROY, PLUMBER_INIT, PLUMBER_COMPUTE
  <2>3. stack' = sporth_stack_init
    BY <1>1, <1>2, <1>5, <2>2 DEF Lifetimes
  <2>4. ASSUME NEW p \in PlumbingNames, ~plumbing'[p].freed,
               NEW i \in 1 .. Len(plumbing'[p].pipes)
        PROVE  IF p = pass.on /\ i < pass.at + 1
               THEN plumbing'[p].pipes[i].type = "ugen" => plumbing'[p].pipes[i].life = "gone"
               ELSE plumbing'[p].pipes[i].life # "gone"
    <3>1. ~plumbing[p].freed
      BY <1>2, <2>4 DEF SameFreed
    <3>2. \A j \in 1 .. Len(plumbing[p].pipes) :
            IF p = pass.on /\ j < pass.at
            THEN plumbing[p].pipes[j].type = "ugen" => plumbing[p].pipes[j].life = "gone"
            ELSE plumbing[p].pipes[j].life # "gone"
      BY <1>1, <1>2, <1>5, <3>1 DEF Lifetimes, Destroying
    <3>3. CASE StepValue /\ Pipe.type # "ugen" /\ UNCHANGED <<plumbing, stack>>
      BY <1>3, <1>4, <2>4, <3>2, <3>3 DEF Pipe
    <3>4. CASE Live("gone") /\ p # pass.on
      BY <1>1, <1>2, <2>4, <3>2, <3>4, LiveEffect
    <3>5. CASE Live("gone") /\ p = pass.on
      <4>1. plumbing'[p].pipes = [plumbing[p].pipes EXCEPT ![pass.at] = [@ EXCEPT !.life = "gone"]]
        BY <1>1, <1>2, <3>5, LiveEffect
      <4>2. i \in 1 .. Len(plumbing[p].pipes)
        BY <1>4, <2>4, <4>1
      <4>3. CASE i = pass.at
        <5>1. plumbing'[p].pipes[i] = [Pipe EXCEPT !.life = "gone"]
          BY <1>4, <3>5, <4>1, <4>2, <4>3 DEF Pipe
        <5>2. plumbing'[p].pipes[i].life = "gone"
          BY <1>3, <5>1 DEF Pipes
        <5> QED
          BY <1>3, <3>5, <4>3, <5>2
      <4>4. CASE i # pass.at
        <5>1. plumbing'[p].pipes[i] = plumbing[p].pipes[i]
          BY <1>4, <4>1, <4>2, <4>4
        <5> QED
          BY <1>3, <3>2, <3>5, <4>2, <4>4, <5>1
      <4> QED
        BY <4>3, <4>4
    <3> QED
      BY <2>2, <3>3, <3>4, <3>5
  <2> QED
    BY <1>2, <1>3, <1>5, <2>3, <2>4 DEF Lifetimes, Destroying
<1>6. CASE mode # PLUMBER_DESTROY
  <2>1. SUFFICES ASSUME NEW p \in PlumbingNames, ~plumbing'[p].freed,
                        NEW i \in 1 .. Len(plumbing'[p].pipes)
                 PROVE  plumbing'[p].pipes[i].life # "gone"
    BY <1>2, <1>6 DEF Lifetimes, Destroying
  <2>2. \A j \in 1 .. Len(plumbing[p].pipes) : plumbing[p].pipes[j].life # "gone"
    BY <1>1, <1>2, <1>6, <2>1 DEF Lifetimes, Destroying, SameFreed
  <2>3. UNCHANGED plumbing \/ Live("ready")
    BY <1>6 DEF Step, StepValue, StepSkipped, StepInit, StepInitMissing, StepInitQuits,
         StepCompute, StepDestroy, InHandler
  <2>4. CASE UNCHANGED plumbing
    BY <2>1, <2>2, <2>4
  <2>5. CASE Live("ready") /\ p # pass.on
    BY <1>1, <1>2, <2>1, <2>2, <2>5, LiveEffect
  <2>6. CASE Live("ready") /\ p = pass.on
    <3>1. plumbing'[p].pipes = [plumbing[p].pipes EXCEPT ![pass.at] = [@ EXCEPT !.life = "ready"]]
      BY <1>1, <1>2, <2>6, LiveEffect
    <3>2. i \in 1 .. Len(plumbing[p].pipes)
      BY <1>4, <2>1, <3>1
    <3>3. CASE i = pass.at
      <4>1. plumbing'[p].pipes[i] = [Pipe EXCEPT !.life = "ready"]
        BY <1>4, <2>6, <3>1, <3>2, <3>3 DEF Pipe
      <4> QED
        BY <1>3, <4>1 DEF Pipes
    <3>4. CASE i # pass.at
      BY <1>4, <2>2, <3>1, <3>2, <3>4
    <3> QED
      BY <3>3, <3>4
  <2> QED
    BY <2>3, <2>4, <2>5, <2>6
<1> QED
  BY <1>5, <1>6

\* The invariant holds after plumber_init.
LEMMA InvInit == Init => Inv
<1> SUFFICES ASSUME Init PROVE Inv
  OBVIOUS
<1>1. /\ plumbing = [main |-> plumbing_init, alt |-> Unused(plumbing_init)]
      /\ ft = [ft1 |-> plumber_ftmap_init, ft2 |-> Unused(plumber_ftmap_init)]
      /\ current_pipe = 0 /\ pipes = "main" /\ tmp = "main" /\ ftmap = "ft1" /\ pc = "parse"
  BY DEF Init
<1>2. /\ plumbing["main"] = plumbing_init /\ plumbing["alt"] = Unused(plumbing_init)
      /\ ft["ft1"] = plumber_ftmap_init /\ ft["ft2"] = Unused(plumber_ftmap_init)
  BY <1>1
<1>3. /\ plumbing_init.freed = FALSE /\ plumber_ftmap_init.freed = FALSE
      /\ plumbing_init.pipes = <<>>
  BY DEF plumbing_init, plumber_ftmap_init
<1>4. \A r \in Plumbings \cup Maps : Unused(r).freed = TRUE
  BY DEF Unused, Plumbings, Maps
<1>5. Cur = "main" /\ Old = "alt" /\ CurMap = "ft1" /\ OldMap = "ft2"
  BY <1>1 DEF Cur, Old, CurMap, OldMap, PlumbingOf, MapOf
<1>6. Roles
  BY <1>1, <1>2, <1>3, <1>4, <1>5, EmptyType DEF Roles, OneLive
<1>7. Lifetimes
  <2>1. ASSUME NEW p \in PlumbingNames, ~plumbing[p].freed
        PROVE  plumbing[p].pipes = <<>>
    BY <1>2, <1>3, <1>4, <2>1, EmptyType DEF PlumbingNames
  <2> QED
    BY <1>1, <2>1 DEF Lifetimes
<1> QED
  BY <1>6, <1>7, TypeInit DEF Inv

\* plumbing_choose always names two different plumbings and two different maps.
LEMMA PairsDiffer ==
  ASSUME TypeOK
  PROVE  /\ Cur # Old /\ CurMap # OldMap /\ PlumbingNames = {Cur, Old} /\ MapNames = {CurMap, OldMap}
         /\ CurMap = PairedMap(Cur) /\ OldMap = PairedMap(Old)
         /\ Old = Other(Cur) /\ Cur = Other(Old)
         /\ 1 - (1 - current_pipe) = current_pipe
  BY DEF TypeOK, Cur, Old, CurMap, OldMap, PlumbingOf, MapOf, PlumbingNames, MapNames,
         PairedMap, Other

\* Starting a pass puts nothing and no one out of place.
LEMMA BeginLifetimes ==
  ASSUME Inv, NEW p \in PlumbingNames, NEW m \in Modes, NEW next, NEW prev,
         Begin(p, m, next, prev), pc # "pass", UNCHANGED plumbing
  PROVE  Lifetimes'
<1>1. \A q \in PlumbingNames : ~plumbing[q].freed =>
        \A i \in 1 .. Len(plumbing[q].pipes) : plumbing[q].pipes[i].life # "gone"
  BY DEF Inv, Lifetimes, Destroying
<1>2. pass'.at = 1 /\ pass'.on = p /\ mode' = m
  BY DEF Begin
<1>3. mode' = PLUMBER_DESTROY => stack' = sporth_stack_init
  BY <1>2 DEF Begin
<1>4. \A n \in Nat \ {0} : ~(n < 1)
  OBVIOUS
<1>5. \A q \in PlumbingNames : Len(plumbing[q].pipes) \in Nat
  BY DEF Inv, TypeOK, Plumbings
<1> QED
  BY <1>1, <1>2, <1>3, <1>4, <1>5 DEF Lifetimes, Destroying

\* After a DESTROY pass everything in its plumbing is gone.
LEMMA PassDone ==
  ASSUME Inv, NEW next, PassOver(next), mode = PLUMBER_DESTROY, ~plumbing[pass.on].freed
  PROVE  AllGone(pass.on)
<1>1. pc = "pass" /\ pass.at > Len(plumbing[pass.on].pipes)
  BY DEF PassOver
<1>2. pass.on \in PlumbingNames /\ pass.at \in Nat /\ Len(plumbing[pass.on].pipes) \in Nat
  BY DEF Inv, TypeOK, Passes, Plumbings
<1>3. \A i \in 1 .. Len(plumbing[pass.on].pipes) : i < pass.at
  BY <1>1, <1>2
<1> QED
  BY <1>1, <1>2, <1>3 DEF Inv, Lifetimes, Destroying, AllGone

\* Freeing one plumbing and one map, and nothing else.
LEMMA FreeEffect ==
  ASSUME TypeOK
  PROVE  /\ \A p \in PlumbingNames : FreePipes(p) =>
              /\ plumbing'[p].freed = TRUE /\ plumbing'[p].pipes = plumbing[p].pipes
              /\ \A q \in PlumbingNames : q # p => plumbing'[q] = plumbing[q]
         /\ \A m \in MapNames : FreeMap(m) =>
              /\ ft'[m].freed = TRUE /\ ft'[m].entries = ft[m].entries
              /\ \A n \in MapNames : n # m => ft'[n] = ft[n]
  BY DEF TypeOK, FreePipes, FreeMap, Plumbings, Maps

\* When the plumbing that was destroyed is freed, no pipe of the other is gone.
LEMMA FreedLifetimes ==
  ASSUME Inv, NEW next, PassOver(next), mode = PLUMBER_DESTROY, FreePipes(pass.on),
         \/ pc' # "pass"
         \/ pass'.at = 1 /\ mode' # PLUMBER_DESTROY
  PROVE  Lifetimes'
<1>1. pc = "pass" /\ pass.on \in PlumbingNames /\ TypeOK
  BY DEF PassOver, Inv, TypeOK, Passes
<1>2. ASSUME NEW q \in PlumbingNames, ~plumbing'[q].freed
      PROVE  \A i \in 1 .. Len(plumbing'[q].pipes) : plumbing'[q].pipes[i].life # "gone"
  <2>1. q # pass.on /\ plumbing'[q] = plumbing[q]
    BY <1>1, <1>2, FreeEffect
  <2> QED
    BY <1>1, <1>2, <2>1 DEF Inv, Lifetimes, Destroying
<1> QED
  BY <1>2 DEF Lifetimes, Destroying

\* When a pass that destroyed nothing ends, no live pipe is gone.
LEMMA PlayedLifetimes ==
  ASSUME Inv, pc = "pass" => mode # PLUMBER_DESTROY, pc' # "pass", UNCHANGED plumbing
  PROVE  Lifetimes'
  BY DEF Inv, Lifetimes, Destroying

Host == \/ Start \/ Started \/ Sample \/ Sampled \/ plumber_reinit \/ Revert
        \/ Reverted \/ Commit \/ Committed \/ Resumed \/ Clean \/ Cleaned

\* What the host's thread does between the passes.
LEMMA HostKeeps ==
  ASSUME Inv, Host
  PROVE  Roles' /\ Lifetimes'
<1>0. /\ TypeOK /\ Roles /\ Lifetimes /\ TypeOK'
  BY TypeHost DEF Inv, Host
<1>1. /\ Cur # Old /\ CurMap # OldMap /\ PlumbingNames = {Cur, Old} /\ MapNames = {CurMap, OldMap}
      /\ CurMap = PairedMap(Cur) /\ OldMap = PairedMap(Old)
      /\ 1 - (1 - current_pipe) = current_pipe
  BY <1>0, PairsDiffer
<1>2. /\ PLUMBER_INIT \in Modes /\ PLUMBER_COMPUTE \in Modes /\ PLUMBER_DESTROY \in Modes
      /\ PLUMBER_DESTROY # PLUMBER_INIT /\ PLUMBER_DESTROY # PLUMBER_COMPUTE
  BY DEF Modes, PLUMBER_DESTROY, PLUMBER_INIT, PLUMBER_COMPUTE
<1>3. /\ current_pipe' = current_pipe =>
           Cur' = Cur /\ Old' = Old /\ CurMap' = CurMap /\ OldMap' = OldMap
      /\ current_pipe' = 1 - current_pipe =>
           Cur' = Old /\ Old' = Cur /\ CurMap' = OldMap /\ OldMap' = CurMap
  BY <1>1 DEF Cur, Old, CurMap, OldMap
<1>4. UNCHANGED <<plumbing, ft, current_pipe>> => OneLive' = OneLive /\ BothLive' = BothLive
  BY <1>3 DEF OneLive, BothLive
<1>5. CASE Start
  <2>1. pc = "parse" /\ pipes = Cur /\ tmp = Cur /\ ftmap = CurMap /\ OneLive
    BY <1>0, <1>5 DEF Start, Roles
  <2>2. Begin(Cur, PLUMBER_INIT, "start", Cur) /\ UNCHANGED <<plumbing, ft, current_pipe, ftmap>>
    BY <1>5, <2>1 DEF Start
  <2>3. PassRoles' /\ pc' = "pass"
    BY <1>3, <1>4, <2>1, <2>2 DEF Begin, PassRoles
  <2>4. Lifetimes'
    BY <1>1, <1>2, <2>1, <2>2, BeginLifetimes
  <2> QED
    BY <2>3, <2>4 DEF Roles
<1>6. CASE Started
  <2>1. pc = "pass" /\ PassRoles /\ pass.then = "start"
    BY <1>0, <1>6 DEF Started, PassOver, Roles
  <2>2. pass.prev = Cur /\ ftmap = CurMap /\ OneLive /\ mode = PLUMBER_INIT
    BY <2>1 DEF PassRoles
  <2>3. pipes' = Cur /\ pc' = "idle" /\ UNCHANGED <<plumbing, ft, current_pipe, ftmap>>
    BY <1>6, <2>2 DEF Started, Rest
  <2> QED
    BY <1>2, <1>3, <1>4, <2>2, <2>3, PlayedLifetimes DEF Roles
<1>7. CASE Sample
  <2>1. pc = "idle" /\ pipes = Cur /\ ftmap = CurMap /\ OneLive
    BY <1>0, <1>7 DEF Sample, Roles
  <2>2. Begin(Cur, PLUMBER_COMPUTE, "sample", Cur) /\ UNCHANGED <<plumbing, ft, current_pipe, ftmap>>
    BY <1>7, <2>1 DEF Sample
  <2>3. PassRoles' /\ pc' = "pass"
    BY <1>3, <1>4, <2>1, <2>2 DEF Begin, PassRoles
  <2>4. Lifetimes'
    BY <1>1, <1>2, <2>1, <2>2, BeginLifetimes
  <2> QED
    BY <2>3, <2>4 DEF Roles
<1>8. CASE Sampled
  <2>1. pc = "pass" /\ PassRoles /\ pass.then = "sample"
    BY <1>0, <1>8 DEF Sampled, PassOver, Roles
  <2>2. pass.prev = Cur /\ ftmap = CurMap /\ OneLive /\ mode = PLUMBER_COMPUTE
    BY <2>1 DEF PassRoles
  <2>3. pipes' = Cur /\ pc' = "idle" /\ UNCHANGED <<plumbing, ft, current_pipe, ftmap>>
    BY <1>8, <2>2 DEF Sampled, Rest
  <2> QED
    BY <1>2, <1>3, <1>4, <2>2, <2>3, PlayedLifetimes DEF Roles
<1>9. CASE plumber_reinit
  <2>1. pc = "idle" /\ pipes = Cur /\ OneLive
    BY <1>0, <1>9 DEF plumber_reinit, Roles
  <2>2. /\ current_pipe' = 1 - current_pipe /\ ftold' = CurMap /\ ftnew' = OldMap
        /\ ftmap' = OldMap /\ tmp' = Old /\ pipes' = Cur /\ pc' = "reparse"
        /\ plumbing' = [plumbing EXCEPT ![Old] = plumbing_init]
    BY <1>9, <2>1 DEF plumber_reinit, Cur, Old, CurMap, OldMap
  <2>3. Cur' = Old /\ Old' = Cur /\ CurMap' = OldMap /\ OldMap' = CurMap
    BY <1>3, <2>2
  <2>4. plumbing'[Old] = plumbing_init /\ plumbing'[Cur] = plumbing[Cur]
    BY <1>0, <1>1, <2>2 DEF TypeOK
  <2>5. ft'[OldMap].freed = FALSE /\ ft'[CurMap] = ft[CurMap]
    <3>1. \E e : ft' = [ft EXCEPT ![OldMap] = [plumber_ftmap_init EXCEPT !.entries = e]]
      BY <1>9 DEF plumber_reinit, OldMap
    <3>2. \A e : [plumber_ftmap_init EXCEPT !.entries = e].freed = FALSE
      BY DEF plumber_ftmap_init
    <3> QED
      BY <1>0, <1>1, <3>1, <3>2 DEF TypeOK
  <2>6. BothLive'
    BY <2>1, <2>3, <2>4, <2>5 DEF BothLive, OneLive, plumbing_init
  <2>7. Roles'
    BY <2>2, <2>3, <2>6 DEF Roles, Compiled
  <2>8. ASSUME NEW p \in PlumbingNames, ~plumbing'[p].freed, NEW i \in 1 .. Len(plumbing'[p].pipes)
        PROVE  plumbing'[p].pipes[i].life # "gone"
    <3>1. CASE p = Old
      BY <2>4, <2>8, <3>1 DEF plumbing_init
    <3>2. CASE p = Cur
      BY <1>0, <1>1, <2>1, <2>4, <2>8, <3>2 DEF Lifetimes, Destroying
    <3> QED
      BY <1>1, <2>8, <3>1, <3>2
  <2>9. Lifetimes'
    BY <2>2, <2>8 DEF Lifetimes, Destroying
  <2> QED
    BY <2>7, <2>9
<1>10. CASE Revert
  <2>1. pc = "reparse" /\ pipes = Old /\ Compiled
    BY <1>0, <1>10 DEF Revert, Roles
  <2>2. /\ Begin(Cur, PLUMBER_DESTROY, "revert", Old)
        /\ UNCHANGED <<plumbing, ft, current_pipe, tmp, ftmap, ftold, ftnew>>
    BY <1>10, <2>1 DEF Revert, Compiled
  <2>3. PassRoles' /\ pc' = "pass"
    BY <1>3, <1>4, <2>1, <2>2 DEF Begin, PassRoles, Compiled
  <2>4. Lifetimes'
    BY <1>1, <1>2, <2>1, <2>2, BeginLifetimes
  <2> QED
    BY <2>3, <2>4 DEF Roles
<1>11. CASE Reverted
  <2>1. pc = "pass" /\ PassRoles /\ PassOver("revert") /\ pass.then = "revert"
    BY <1>0, <1>11 DEF Reverted, PassOver, Roles
  <2>2. pass.on = Cur /\ Compiled /\ mode = PLUMBER_DESTROY
    BY <2>1 DEF PassRoles
  <2>3. /\ FreePipes(Cur) /\ FreeMap(CurMap) /\ ftmap' = OldMap
        /\ current_pipe' = 1 - current_pipe /\ pipes' = Old /\ pc' = "idle"
    BY <1>11, <2>2 DEF Reverted, Rest, Compiled, Old
  <2>4. OneLive'
    <3>1. /\ ~plumbing[Old].freed /\ ~ft[OldMap].freed
          /\ Cur \in PlumbingNames /\ Old \in PlumbingNames
          /\ CurMap \in MapNames /\ OldMap \in MapNames
      BY <1>1, <2>2 DEF Compiled, BothLive
    <3>2. /\ plumbing'[Cur].freed /\ plumbing'[Old] = plumbing[Old]
          /\ ft'[CurMap].freed /\ ft'[OldMap] = ft[OldMap]
      BY <1>0, <1>1, <2>3, <3>1, FreeEffect
    <3>3. Cur' = Old /\ Old' = Cur /\ CurMap' = OldMap /\ OldMap' = CurMap
      BY <1>3, <2>3
    <3> QED
      BY <3>1, <3>2, <3>3 DEF OneLive
  <2>5. Lifetimes'
    BY <2>1, <2>2, <2>3, FreedLifetimes
  <2> QED
    BY <1>3, <2>3, <2>4, <2>5 DEF Roles
<1>12. CASE Commit
  <2>1. pc = "reparse" /\ pipes = Old /\ Compiled
    BY <1>0, <1>12 DEF Commit, Roles
  <2>2. /\ Begin(Old, PLUMBER_DESTROY, "commit", Old)
        /\ UNCHANGED <<plumbing, ft, current_pipe, tmp, ftmap, ftold, ftnew>>
    BY <1>12, <2>1 DEF Commit
  <2>3. PassRoles' /\ pc' = "pass"
    BY <1>3, <1>4, <2>1, <2>2 DEF Begin, PassRoles, Compiled
  <2>4. Lifetimes'
    BY <1>1, <1>2, <2>1, <2>2, BeginLifetimes
  <2> QED
    BY <2>3, <2>4 DEF Roles
<1>13. CASE Committed
  <2>1. pc = "pass" /\ PassRoles /\ PassOver("commit") /\ pass.then = "commit"
    BY <1>0, <1>13 DEF Committed, PassOver, Roles
  <2>2. pass.on = Old /\ pass.prev = Old /\ Compiled /\ mode = PLUMBER_DESTROY
    BY <2>1 DEF PassRoles
  <2>3. /\ FreePipes(Old) /\ FreeMap(OldMap) /\ ftmap' = CurMap
        /\ current_pipe' = current_pipe /\ Begin(Cur, PLUMBER_INIT, "resume", Cur)
    BY <1>13, <2>2 DEF Committed, Compiled
  <2>4. OneLive'
    BY <1>0, <1>1, <1>3, <2>2, <2>3, FreeEffect DEF Compiled, BothLive, OneLive
  <2>5. PassRoles' /\ pc' = "pass"
    BY <1>3, <2>3, <2>4 DEF Begin, PassRoles
  <2>6. Lifetimes'
    BY <1>2, <2>1, <2>2, <2>3, FreedLifetimes DEF Begin
  <2> QED
    BY <2>5, <2>6 DEF Roles
<1>14. CASE Resumed
  <2>1. pc = "pass" /\ PassRoles /\ pass.then = "resume"
    BY <1>0, <1>14 DEF Resumed, PassOver, Roles
  <2>2. pass.prev = Cur /\ ftmap = CurMap /\ OneLive /\ mode = PLUMBER_INIT
    BY <2>1 DEF PassRoles
  <2>3. pipes' = Cur /\ pc' = "idle" /\ UNCHANGED <<plumbing, ft, current_pipe, ftmap>>
    BY <1>14, <2>2 DEF Resumed, Rest
  <2> QED
    BY <1>2, <1>3, <1>4, <2>2, <2>3, PlayedLifetimes DEF Roles
<1>15. CASE Clean
  <2>1. pc # "pass" /\ pipes = Cur /\ ftmap = CurMap /\ OneLive
    BY <1>0, <1>15 DEF Clean, Roles
  <2>2. Begin(Cur, PLUMBER_DESTROY, "clean", Cur) /\ UNCHANGED <<plumbing, ft, current_pipe, ftmap>>
    BY <1>15, <2>1 DEF Clean
  <2>3. PassRoles' /\ pc' = "pass"
    BY <1>3, <1>4, <2>1, <2>2 DEF Begin, PassRoles
  <2>4. Lifetimes'
    BY <1>1, <1>2, <2>1, <2>2, BeginLifetimes
  <2> QED
    BY <2>3, <2>4 DEF Roles
<1>16. CASE Cleaned
  <2>1. pc = "pass" /\ PassRoles /\ PassOver("clean") /\ pass.then = "clean"
    BY <1>0, <1>16 DEF Cleaned, PassOver, Roles
  <2>2. pass.on = Cur /\ pass.prev = Cur /\ ftmap = CurMap /\ OneLive /\ mode = PLUMBER_DESTROY
    BY <2>1 DEF PassRoles
  <2>3. FreePipes(Cur) /\ FreeMap(CurMap) /\ pc' = "stopped" /\ current_pipe' = current_pipe
    BY <1>16, <2>2 DEF Cleaned
  <2>4. /\ plumbing'[Cur].freed /\ plumbing'[Old].freed
        /\ ft'[CurMap].freed /\ ft'[OldMap].freed
    BY <1>0, <1>1, <2>2, <2>3, FreeEffect DEF OneLive
  <2>5. Lifetimes'
    BY <2>1, <2>2, <2>3, FreedLifetimes
  <2> QED
    BY <1>3, <2>3, <2>4, <2>5 DEF Roles
<1> QED
  BY <1>5, <1>6, <1>7, <1>8, <1>9, <1>10, <1>11, <1>12, <1>13, <1>14, <1>15, <1>16 DEF Host

\* The invariant is inductive.
LEMMA InvNext == Inv /\ [Next]_vars => Inv'
<1> SUFFICES ASSUME Inv, [Next]_vars PROVE Inv'
  OBVIOUS
<1>1. TypeOK'
  BY TypeNext DEF Inv
<1>2. CASE UNCHANGED vars
  BY <1>2 DEF vars, Inv, TypeOK, Roles, Lifetimes, PassRoles, Compiled, OneLive, BothLive,
       Destroying, Cur, Old, CurMap, OldMap
<1>3. CASE Lex
  BY <1>1, <1>3, RolesQuiet, LifetimesLex DEF Inv
<1>4. CASE Step
  BY <1>1, <1>4, RolesQuiet, LifetimesStep DEF Inv
<1>5. CASE Host
  BY <1>1, <1>5, HostKeeps DEF Inv
<1> QED
  BY <1>2, <1>3, <1>4, <1>5 DEF Next, Host

\* So it always holds.
LEMMA Invariant == Spec => []Inv
  BY InvInit, InvNext, PTL DEF Spec

---------------------------------------------------------------------------
(* The safety of the hot swap.                                             *)

(* Whatever is compiled, refused, committed and played, plumb->pipes and   *)
(* plumb->ftmap are between calls the pair that current_pipe says, that    *)
(* pair is live and the other one is freed.                                *)
THEOREM PointersPaired == Spec => []Paired
<1>1. Inv => Paired
  <2> SUFFICES ASSUME Inv, pc = "idle" PROVE Paired
    BY DEF Paired
  <2>1. /\ pipes = Cur /\ ftmap = CurMap /\ OneLive
    BY DEF Inv, Roles
  <2>2. Old = Other(Cur) /\ OldMap = PairedMap(Old)
    BY PairsDiffer DEF Inv
  <2> QED
    BY <2>1, <2>2 DEF Paired, OneLive, Cur, CurMap
<1> QED
  BY <1>1, Invariant, PTL

(* No handler ever runs over a freed plumbing or table map.                *)
THEOREM NothingUsedAfterFree == Spec => []NoUseAfterFree
<1>1. Inv => NoUseAfterFree
  <2> SUFFICES ASSUME Inv PROVE NoUseAfterFree
    OBVIOUS
  <2>0. /\ CurMap = PairedMap(Cur) /\ OldMap = PairedMap(Old)
    BY PairsDiffer DEF Inv
  <2>1. pc \in {"parse", "reparse"} => tmp = Cur /\ ftmap = CurMap /\ ~plumbing[Cur].freed /\ ~ft[CurMap].freed
    BY DEF Inv, Roles, OneLive, Compiled, BothLive
  <2>2. ASSUME pc = "pass"
        PROVE  /\ ~plumbing[pass.on].freed /\ ~ft[PairedMap(pass.on)].freed
               /\ mode = PLUMBER_INIT => ftmap = PairedMap(pass.on)
    <3>1. PassRoles
      BY <2>2 DEF Inv, Roles
    <3> QED
      BY <2>0, <3>1 DEF PassRoles, OneLive, BothLive, Compiled, PLUMBER_INIT, PLUMBER_DESTROY
  <2> QED
    BY <2>0, <2>1, <2>2 DEF NoUseAfterFree
<1> QED
  BY <1>1, Invariant, PTL

(* plumber_swap and plumber_clean free each plumbing and each map once.    *)
THEOREM EverythingFreedOnce == Spec => []FreedOnce
<1>1. Inv => FreedOnce
  <2> SUFFICES ASSUME Inv, pc = "pass", mode = PLUMBER_DESTROY PROVE FreedOnce
    BY DEF FreedOnce
  <2>0. /\ CurMap = PairedMap(Cur) /\ OldMap = PairedMap(Old)
    BY PairsDiffer DEF Inv
  <2>1. PassRoles
    BY DEF Inv, Roles
  <2>2. ~plumbing[pass.on].freed /\ pass.on \in PlumbingNames
    BY <2>1 DEF PassRoles, OneLive, BothLive, Compiled, Inv, TypeOK, Passes
  <2>3. \A i \in 1 .. Len(plumbing[pass.on].pipes) :
          i >= pass.at => plumbing[pass.on].pipes[i].life # "gone"
    <3>1. pass.at \in Nat /\ Len(plumbing[pass.on].pipes) \in Nat
      BY <2>2 DEF Inv, TypeOK, Passes, Plumbings
    <3> QED
      BY <2>2, <3>1 DEF Inv, Lifetimes, Destroying
  <2> QED
    BY <2>0, <2>1, <2>3 DEF FreedOnce, PassRoles, Compiled
<1> QED
  BY <1>1, Invariant, PTL

\* Tokens and pipes take nothing out of a table map...
LEMMA MapGrows ==
  ASSUME TypeOK, NEW e \in Effects,
         ft' = [ft EXCEPT ![ftmap].entries =
                  IF Supplied(e, stack) THEN @ \o Added(e, stack) ELSE @]
  PROVE  \A m \in MapNames : ~(Len(ft'[m].entries) < Len(ft[m].entries))
<1>0. /\ ft \in [MapNames -> Maps] /\ ftmap \in MapNames /\ stack \in Stacks
      /\ \A m \in MapNames : ft[m].entries \in Seq(Entries)
  BY DEF TypeOK, Maps
<1>1. CASE Supplied(e, stack)
  <2>1. Added(e, stack) \in Seq(Entries)
    <3>1. ~stack.error
      BY <1>1 DEF Supplied, PopAll
    <3> QED
      BY <1>0, <1>1, <3>1, AddedType
  <2>2. ft'[ftmap].entries = ft[ftmap].entries \o Added(e, stack)
    BY <1>0, <1>1 DEF Maps
  <2>3. Len(ft'[ftmap].entries) = Len(ft[ftmap].entries) + Len(Added(e, stack))
    BY <1>0, <2>1, <2>2, ConcatProperties
  <2>4. \A m \in MapNames : m # ftmap => ft'[m] = ft[m]
    BY <1>0
  <2>5. Len(Added(e, stack)) \in Nat /\ \A m \in MapNames : Len(ft[m].entries) \in Nat
    BY <1>0, <2>1
  <2> QED
    BY <1>0, <2>3, <2>4, <2>5
<1>2. CASE ~Supplied(e, stack)
  <2>1. \A m \in MapNames : ft'[m].entries = ft[m].entries
    BY <1>0, <1>2 DEF Maps
  <2> QED
    BY <1>0, <2>1
<1> QED
  BY <1>1, <1>2

\* ... or out of a plumbing.
LEMMA QuietGrows ==
  ASSUME Inv, Lex \/ Step
  PROVE  /\ \A p \in PlumbingNames : ~(Len(plumbing'[p].pipes) < Len(plumbing[p].pipes))
         /\ \A m \in MapNames : ~(Len(ft'[m].entries) < Len(ft[m].entries))
<1>0. /\ TypeOK
      /\ \A p \in PlumbingNames : plumbing[p].pipes \in Seq(Pipes)
      /\ \A m \in MapNames : ft[m].entries \in Seq(Entries)
  BY DEF Inv, TypeOK, Plumbings, Maps
<1>1. ASSUME NEW p \in PlumbingNames
      PROVE  ~(Len(plumbing'[p].pipes) < Len(plumbing[p].pipes))
  <2>1. CASE UNCHANGED plumbing
    BY <1>0, <2>1
  <2>2. ASSUME NEW type, NEW ud, AddPipe(type, ud)
        PROVE  ~(Len(plumbing'[p].pipes) < Len(plumbing[p].pipes))
    <3>1. \/ plumbing'[p] = plumbing[p]
          \/ plumbing'[p].pipes = Append(plumbing[p].pipes, NewPipe(type, ud))
      BY <1>0, <2>2, AddPipeEffect
    <3>2. \A s \in Seq(Pipes) : \A x : Len(Append(s, x)) = Len(s) + 1 /\ Len(s) \in Nat
      OBVIOUS
    <3> QED
      BY <1>0, <3>1, <3>2
  <2>3. ASSUME NEW life, Live(life), InPass
        PROVE  ~(Len(plumbing'[p].pipes) < Len(plumbing[p].pipes))
    <3>1. \/ plumbing'[p] = plumbing[p]
          \/ plumbing'[p].pipes = [plumbing[p].pipes EXCEPT ![pass.at] = [@ EXCEPT !.life = life]]
      BY <1>0, <2>3, LiveEffect
    <3>2. \A s \in Seq(Pipes) : \A x : Len([s EXCEPT ![pass.at] = x]) = Len(s) /\ Len(s) \in Nat
      OBVIOUS
    <3> QED
      BY <1>0, <3>1, <3>2
  <2> QED
    BY <1>0, <2>1, <2>2, <2>3, LexFrame, StepFrame
<1>2. CASE UNCHANGED ft
  BY <1>0, <1>1, <1>2
<1>3. ASSUME NEW u \in Ugens, CreateDone(u)
      PROVE  \A m \in MapNames : ~(Len(ft'[m].entries) < Len(ft[m].entries))
  BY <1>0, <1>3, MapGrows, SigType DEF CreateDone
<1>4. CASE StepInit
  <2>1. Sig[Pipe.ud].init \in Effects
    <3>1. Pipe \in Pipes /\ Pipe.type = "ugen"
      BY <1>0, <1>4, PipeType DEF StepInit, InHandler
    <3>2. Pipe.ud \in Ugens
      BY <3>1 DEF Pipes
    <3> QED
      BY <3>2, SigType
  <2>2. \A m \in MapNames : ~(Len(ft'[m].entries) < Len(ft[m].entries))
    BY <1>0, <1>4, <2>1, MapGrows DEF StepInit
  <2> QED
    BY <1>1, <2>2
<1>5. CASE Lex
  <2>1. UNCHANGED ft \/ \E u \in Ugens : CreateDone(u)
    BY <1>5 DEF Lex, LexValue, LexOther, LexUnknown, CreateSkipped, CreateBadArgs,
                CreateMissing, CreateFailed, Refuse
  <2> QED
    BY <1>1, <1>2, <1>3, <2>1
<1>6. CASE Step
  <2>1. UNCHANGED ft \/ StepInit
    BY <1>6 DEF Step, StepValue, StepSkipped, StepInitMissing, StepInitQuits,
                StepCompute, StepDestroy
  <2> QED
    BY <1>2, <1>4, <2>1
<1> QED
  BY <1>5, <1>6

(* A plumbing is freed only when DESTROY has reached every ugen in it,     *)
(* only freed plumbings and maps are overwritten, and when plumber_clean   *)
(* is done everything is freed.                                            *)
THEOREM NothingIsLeaked == Spec => NothingLeaked
<1> DEFINE Kept ==
      /\ \A p \in PlumbingNames :
           /\ plumbing'[p].freed /\ ~plumbing[p].freed => AllGone(p)
           /\ Len(plumbing'[p].pipes) < Len(plumbing[p].pipes) => plumbing[p].freed
      /\ \A m \in MapNames : Len(ft'[m].entries) < Len(ft[m].entries) => ft[m].freed
      /\ pc' = "stopped" => /\ \A p \in PlumbingNames : plumbing'[p].freed
                            /\ \A m \in MapNames : ft'[m].freed
<1>1. Inv /\ [Next]_vars => [Kept]_vars
  <2> SUFFICES ASSUME Inv, Next PROVE Kept
    BY DEF vars
  <2>0. /\ TypeOK /\ Roles
        /\ \A p \in PlumbingNames : Len(plumbing[p].pipes) \in Nat
        /\ \A m \in MapNames : Len(ft[m].entries) \in Nat
    BY DEF Inv, TypeOK, Plumbings, Maps
  <2>1. /\ Cur # Old /\ CurMap # OldMap /\ PlumbingNames = {Cur, Old} /\ MapNames = {CurMap, OldMap}
    BY <2>0, PairsDiffer
  <2>2. CASE Lex \/ Step
    <3>1. SameFreed /\ pc' = pc /\ pc # "stopped"
      BY <2>0, <2>2, LexFrame, StepFrame DEF InPass
    <3> QED
      BY <2>2, <3>1, QuietGrows DEF SameFreed
  <2>3. CASE UNCHANGED <<plumbing, ft>> /\ pc' # "stopped"
    BY <2>0, <2>3
  <2>4. CASE plumber_reinit
    <3>1. OneLive /\ pc' = "reparse"
      BY <2>0, <2>4 DEF plumber_reinit, Roles
    <3>2. \A p \in PlumbingNames : p # Old => plumbing'[p] = plumbing[p]
      BY <2>0, <2>4 DEF plumber_reinit, TypeOK, Old
    <3>3. \A m \in MapNames : m # OldMap => ft'[m] = ft[m]
      BY <2>0, <2>4 DEF plumber_reinit, TypeOK, OldMap
    <3> QED
      BY <2>0, <2>1, <3>1, <3>2, <3>3 DEF OneLive
  <2>5. CASE Reverted \/ Committed \/ Cleaned
    <3>1. /\ pc = "pass" /\ PassRoles /\ (\E next : PassOver(next))
          /\ pass.then = IF Reverted THEN "revert" ELSE IF Committed THEN "commit" ELSE "clean"
      BY <2>0, <2>5 DEF Reverted, Committed, Cleaned, PassOver, Roles
    <3>2. /\ mode = PLUMBER_DESTROY /\ pass.on \in {Cur, Old} /\ ~plumbing[pass.on].freed
          /\ Reverted => tmp = pass.on
          /\ ~Reverted => pass.prev = pass.on
      BY <3>1 DEF PassRoles, Compiled, BothLive, OneLive
    <3>3. AllGone(pass.on)
      BY <3>1, <3>2, PassDone
    <3>4. FreePipes(pass.on) /\ \E m \in MapNames : FreeMap(m)
      BY <2>0, <2>5, <3>2 DEF Reverted, Committed, Cleaned, TypeOK
    <3>5. /\ \A p \in PlumbingNames : plumbing'[p].pipes = plumbing[p].pipes
          /\ \A p \in PlumbingNames : p # pass.on => plumbing'[p] = plumbing[p]
          /\ \A m \in MapNames : ft'[m].entries = ft[m].entries
      <4>1. PICK m \in MapNames : FreeMap(m)
        BY <3>4
      <4>2. /\ plumbing'[pass.on].pipes = plumbing[pass.on].pipes
            /\ \A p \in PlumbingNames : p # pass.on => plumbing'[p] = plumbing[p]
        BY <2>0, <2>1, <3>2, <3>4, FreeEffect
      <4>3. /\ ft'[m].entries = ft[m].entries
            /\ \A n \in MapNames : n # m => ft'[n] = ft[n]
        BY <2>0, <4>1, FreeEffect
      <4> QED
        BY <4>2, <4>3
    <3>6. ASSUME pc' = "stopped"
          PROVE  /\ \A p \in PlumbingNames : plumbing'[p].freed
                 /\ \A m \in MapNames : ft'[m].freed
      <4>1. Cleaned
        BY <2>5, <3>6 DEF Reverted, Committed, Rest, Begin
      <4>2. Host
        BY <4>1 DEF Host
      <4>3. Roles' /\ TypeOK'
        BY <4>2, HostKeeps, TypeHost DEF Inv, Host
      <4>4. Cur' = Cur /\ Old' = Old /\ CurMap' = CurMap /\ OldMap' = OldMap
        BY <4>1 DEF Cleaned, Cur, Old, CurMap, OldMap
      <4> QED
        BY <2>1, <3>6, <4>3, <4>4 DEF Roles
    <3> QED
      BY <2>0, <3>3, <3>5, <3>6
  <2> QED
    <3>1. Start \/ Started \/ Sample \/ Sampled \/ Revert \/ Commit \/ Resumed \/ Clean
            => UNCHANGED <<plumbing, ft>> /\ pc' # "stopped"
      BY DEF Start, Started, Sample, Sampled, Revert, Commit, Resumed, Clean, Begin, Rest
    <3> QED
      BY <2>2, <2>3, <2>4, <2>5, <3>1 DEF Next
<1> QED
  BY <1>1, Invariant, PTL DEF Spec, NothingLeaked

---------------------------------------------------------------------------
(* What a parse did to the stack, pipe by pipe.                            *)

\* From s to t by one pipe, as its CREATE did it without an error.
Follows(x, s, t) ==
  IF x.type = "ugen"
  THEN /\ x.ud \in Ugens /\ Fits(s, Sig[x.ud].create.pop)
       /\ t = Under(s, Len(Sig[x.ud].create.pop)) \o Sig[x.ud].create.push
  ELSE /\ x.ud \in Values /\ (x.type = "float" <=> x.ud = FLOAT)
       /\ t = Append(s, x.ud)

\* The stack after each pipe, from an empty one.
TraceOf(q, st) ==
  /\ st \in [0 .. Len(q) -> Seq(Values)] /\ st[0] = <<>>
  /\ \A n \in 1 .. Len(q) : Follows(q[n], st[n - 1], st[n])

\* The same text, whatever has become of the pipes.
SameText(q, r) ==
  /\ Len(r) = Len(q)
  /\ \A n \in 1 .. Len(q) : r[n].type = q[n].type /\ r[n].ud = q[n].ud

\* How much a pipe adds to the stack.
Gain(x) == IF x.type # "ugen" THEN 1
           ELSE Len(Sig[x.ud].create.push) - Len(Sig[x.ud].create.pop)

\* One pipe leaves a stack of values, as deep as its gain says.
LEMMA FollowsType ==
  ASSUME NEW x, NEW s \in Seq(Values), NEW t, Follows(x, s, t)
  PROVE  t \in Seq(Values) /\ Len(t) = Len(s) + Gain(x)
<1>1. CASE x.type = "ugen"
  <2> DEFINE e == Sig[x.ud].create
  <2>1. /\ x.ud \in Ugens /\ Fits(s, e.pop) /\ t = Under(s, Len(e.pop)) \o e.push
    BY <1>1 DEF Follows
  <2>2. e \in Effects
    BY <2>1, SigType
  <2> HIDE DEF e
  <2>3. e.pop \in Seq(Types) /\ e.push \in Seq(Values)
    BY <2>2 DEF Effects
  <2>4. /\ Len(e.pop) \in Nat /\ Len(e.push) \in Nat /\ Len(s) \in Nat
        /\ Len(e.pop) <= Len(s)
    BY <2>1, <2>3 DEF Fits
  <2>5. Under(s, Len(e.pop)) \in Seq(Values) /\ Len(Under(s, Len(e.pop))) = Len(s) - Len(e.pop)
    BY <2>4, UnderType
  <2> DEFINE u == Under(s, Len(e.pop))
  <2>6. t \in Seq(Values) /\ Len(t) = Len(s) - Len(e.pop) + Len(e.push)
    <3>1. u \in Seq(Values) /\ t = u \o e.push /\ Len(u) = Len(s) - Len(e.pop)
      BY <2>1, <2>5
    <3> HIDE DEF u
    <3>2. u \o e.push \in Seq(Values) /\ Len(u \o e.push) = Len(u) + Len(e.push)
      BY <2>3, <3>1, ConcatProperties
    <3> QED
      BY <3>1, <3>2
  <2>7. Gain(x) = Len(e.push) - Len(e.pop)
    BY <1>1 DEF Gain, e
  <2> QED
    BY <2>4, <2>6, <2>7
<1>2. CASE x.type # "ugen"
  <2>1. x.ud \in Values /\ t = Append(s, x.ud) /\ Gain(x) = 1
    BY <1>2 DEF Follows, Gain
  <2> QED
    BY <2>1
<1> QED
  BY <1>1, <1>2

\* A set of places that is not empty has a first one.
LEMMA FirstPlace ==
  ASSUME NEW T, T \subseteq Nat, T # {}
  PROVE  \E x \in T : \A y \in T : x <= y
<1>1. IsWellFoundedOn(OpToRel(<, Nat), Nat)
  BY NatLessThanWellFounded
<1>2. PICK x \in T : \A y \in T : <<y, x>> \notin OpToRel(<, Nat)
  BY <1>1, WFMin
<1>3. \A y \in T : ~(y < x)
  BY <1>2 DEF OpToRel
<1> QED
  BY <1>3

\* The depths of a patch are the depths of its parse.
LEMMA DepthsAre ==
  ASSUME NEW q \in Seq(Pipes), NEW st, TraceOf(q, st)
  PROVE  Depths(q) = {Len(st[n]) : n \in 0 .. Len(q)}
<1> DEFINE N == Len(q)
           Deep(f, n) == IF n = 0 THEN 0 ELSE f[n - 1] + Gain(q[n])
           w == [n \in 0 .. N |-> Len(st[n])]
           depth == CHOOSE f : f = [n \in 0 .. N |-> Deep(f, n)]
<1>0. N \in Nat
  OBVIOUS
<1>1. w = [n \in 0 .. N |-> Deep(w, n)]
  <2>1. \A n \in 0 .. N : w[n] = Deep(w, n)
    <3> TAKE n \in 0 .. N
    <3>1. CASE n = 0
      BY <3>1 DEF TraceOf
    <3>2. CASE n # 0
      <4>1. n \in 1 .. N /\ n - 1 \in 0 .. N
        BY <1>0, <3>2
      <4>2. st[n - 1] \in Seq(Values) /\ Follows(q[n], st[n - 1], st[n])
        BY <4>1 DEF TraceOf
      <4>3. Len(st[n]) = Len(st[n - 1]) + Gain(q[n])
        BY <4>2, FollowsType
      <4> QED
        BY <3>2, <4>1, <4>3
    <3> QED
      BY <3>1, <3>2
  <2> QED
    BY <2>1, Zenon
<1>2. Depths(q) = {depth[n] : n \in 0 .. N}
  BY DEF Depths, Gain
<1> HIDE DEF N, Deep
<1>3. depth = [n \in 0 .. N |-> Deep(depth, n)]
  BY <1>1, Zenon
<1> USE DEF Deep
<1> HIDE DEF depth
<1> DEFINE T == {n \in 0 .. N : depth[n] # w[n]}
<1>4. T = {}
  <2> SUFFICES ASSUME T # {} PROVE FALSE
    OBVIOUS
  <2>1. T \subseteq Nat
    BY <1>0
  <2>2. PICK n \in T : \A m \in T : n <= m
    BY <2>1, FirstPlace
  <2>3. n \in 0 .. N /\ depth[n] = Deep(depth, n) /\ w[n] = Deep(w, n)
    BY <1>1, <1>3
  <2>4. CASE n = 0
    BY <2>2, <2>3, <2>4
  <2>5. CASE n # 0
    <3>1. n - 1 \in 0 .. N /\ n - 1 \notin T
      BY <1>0, <2>2, <2>3, <2>5
    <3>2. depth[n - 1] = w[n - 1]
      BY <3>1
    <3> QED
      BY <2>2, <2>3, <2>5, <3>2
  <2> QED
    BY <2>4, <2>5
<1>5. \A n \in 0 .. N : depth[n] = Len(st[n])
  BY <1>4
<1> QED
  BY <1>2, <1>5 DEF N

\* The parse goes on by one pipe.
LEMMA TraceGrows ==
  ASSUME NEW q \in Seq(Pipes), NEW st, TraceOf(q, st), NEW x \in Pipes, NEW t,
         Follows(x, st[Len(q)], t)
  PROVE  \E r : TraceOf(Append(q, x), r) /\ r[Len(Append(q, x))] = t
<1> DEFINE N == Len(q)
           r == [n \in 0 .. N + 1 |-> IF n <= N THEN st[n] ELSE t]
<1>0. N \in Nat /\ Len(Append(q, x)) = N + 1
  OBVIOUS
<1>1. \A n \in 1 .. N : Append(q, x)[n] = q[n]
  OBVIOUS
<1>2. Append(q, x)[N + 1] = x
  OBVIOUS
<1>3. /\ st[0] = <<>> /\ \A n \in 0 .. N : st[n] \in Seq(Values)
      /\ \A n \in 1 .. N : Follows(q[n], st[n - 1], st[n])
      /\ Follows(x, st[N], t)
  BY DEF TraceOf
<1> HIDE DEF N
<1>4. t \in Seq(Values)
  <2>1. N \in 0 .. N
    BY <1>0
  <2>2. st[N] \in Seq(Values)
    BY <1>3, <2>1
  <2> QED
    BY <1>3, <2>2, FollowsType
<1>5. r \in [0 .. N + 1 -> Seq(Values)]
  BY <1>0, <1>3, <1>4
<1>6. r[0] = <<>> /\ r[N] = st[N] /\ r[N + 1] = t
  BY <1>0, <1>3
<1>7. ASSUME NEW n \in 1 .. N + 1
      PROVE  Follows(Append(q, x)[n], r[n - 1], r[n])
  <2>1. CASE n <= N
    <3>1. n \in 1 .. N /\ n - 1 \in 0 .. N + 1 /\ n \in 0 .. N + 1 /\ n - 1 <= N
      BY <1>0, <2>1
    <3>2. r[n - 1] = st[n - 1] /\ r[n] = st[n] /\ Append(q, x)[n] = q[n]
      BY <1>1, <2>1, <3>1
    <3> QED
      BY <1>3, <3>1, <3>2
  <2>2. CASE ~(n <= N)
    <3>1. n = N + 1 /\ n - 1 = N
      BY <1>0, <2>2
    <3> QED
      BY <1>2, <1>3, <1>6, <3>1
  <2> QED
    BY <2>1, <2>2
<1> HIDE DEF r
<1>8. TraceOf(Append(q, x), r)
  BY <1>0, <1>5, <1>6, <1>7 DEF TraceOf
<1> QED
  BY <1>0, <1>6, <1>8

\* A trace is one of the text.
LEMMA TraceSame ==
  ASSUME NEW q \in Seq(Pipes), NEW r \in Seq(Pipes), SameText(q, r), NEW st
  PROVE  TraceOf(q, st) <=> TraceOf(r, st)
<1>1. Len(q) = Len(r) /\ \A n \in 1 .. Len(q) : r[n].type = q[n].type /\ r[n].ud = q[n].ud
  BY DEF SameText
<1>2. \A n \in 1 .. Len(q) : Follows(q[n], st[n - 1], st[n]) <=> Follows(r[n], st[n - 1], st[n])
  BY <1>1 DEF Follows
<1> QED
  BY <1>1, <1>2 DEF TraceOf

---------------------------------------------------------------------------
(* The patches that play, and the stack while they do.                     *)

\* The plumbing that `left' speaks of: during a recompilation the old one.
Held == IF pc = "reparse" \/ (pc = "pass" /\ pass.then = "revert") THEN Old ELSE Cur
Holding == pc \in {"idle", "reparse"} \/ (pc = "pass" /\ pass.then # "clean")

\* A parse without an error left the stack as its pipes say.
ParseTraced ==
  pc \in {"parse", "reparse"} /\ ~stack.error =>
    \E st : TraceOf(plumbing[tmp].pipes, st) /\ st[Len(plumbing[tmp].pipes)] = stack.vals

\* So did the parse of the patch that plays.
LeftTraced ==
  Holding /\ ~left.error =>
    \E st : TraceOf(plumbing[Held].pipes, st) /\ st[Len(plumbing[Held].pipes)] = left.vals

\* INIT has set up the ugens among the first n pipes.
ReadyTo(p, n) ==
  \A i \in 1 .. n : plumbing[p].pipes[i].type = "ugen" => plumbing[p].pipes[i].life = "ready"

\* A patch p whose parse is st: set up once INIT is over, and until then as
\* far as INIT got; the stack is in INIT what it was in the parse, and in
\* COMPUTE its floats, on top of what the pass started on.
Plays(p, st) ==
  /\ pc \in {"idle", "reparse"} \/ (pc = "pass" /\ pass.then \in {"sample", "revert"}) =>
       ReadyTo(p, Len(plumbing[p].pipes))
  /\ pc = "idle" => ~stack.error /\ stack.vals \in {<<>>, left.vals}
  /\ pc = "pass" /\ pass.then \in {"start", "resume"} =>
       /\ pass.at <= Len(plumbing[p].pipes) + 1
       /\ ReadyTo(p, pass.at - 1)
       /\ stack = [vals  |-> (IF pass.then = "start" THEN left.vals ELSE <<>>) \o st[pass.at - 1],
                   error |-> FALSE]
  /\ pc = "pass" /\ pass.then = "sample" =>
       /\ pass.at <= Len(plumbing[p].pipes) + 1
       /\ \E b \in {0, nchan} :
            stack = [vals |-> Repeated(FLOAT, b + Times(FLOAT, st[pass.at - 1])), error |-> FALSE]

Steady ==
  Holding =>
    \A p \in PlumbingNames : \A st :
      p = Held /\ Sound(p) /\ TraceOf(plumbing[p].pipes, st) => Plays(p, st)

\* What a stack operation does once the error is raised.
LEMMA ErrorStays ==
  ASSUME NEW st \in Stacks
  PROVE  /\ \A v : st.error => Push(st, v) = st
         /\ \A types : st.error => PopAll(st, types) = st
         /\ \A e : st.error => Apply(e, st) = st
         /\ Raise(st).error = TRUE
  BY DEF Push, PopAll, PushAll, Apply, Raise, Stacks

\* A token adds to the stack what its pipe says.
LEMMA LexTraced ==
  ASSUME Inv, ParseTraced, Lex
  PROVE  ParseTraced' /\ left' = left
<1> DEFINE q == plumbing[tmp].pipes
<1>0. /\ TypeOK /\ stack \in Stacks /\ tmp \in PlumbingNames /\ q \in Seq(Pipes)
      /\ ft \in [MapNames -> Maps]
  BY DEF Inv, TypeOK, Plumbings
<1>1. UNCHANGED <<tmp, pc>> /\ pc \in {"parse", "reparse"}
  BY <1>0, LexFrame DEF pointers
<1>2. ASSUME ~stack.error
      PROVE  \E st : TraceOf(q, st) /\ st[Len(q)] = stack.vals
  BY <1>1, <1>2 DEF ParseTraced
<1> DEFINE Goes == \E st : /\ TraceOf(plumbing'[tmp].pipes, st)
                           /\ st[Len(plumbing'[tmp].pipes)] = stack'.vals
           Goal == /\ left' = left
                   /\ ~stack'.error => Goes
<1>3. ASSUME NEW x \in Pipes, plumbing'[tmp].pipes = Append(q, x), ~stack.error,
             Follows(x, stack.vals, stack'.vals)
      PROVE  Goes
  <2>1. PICK st : TraceOf(q, st) /\ st[Len(q)] = stack.vals
    BY <1>2, <1>3
  <2>2. Follows(x, st[Len(q)], stack'.vals)
    BY <1>3, <2>1
  <2>3. q \in Seq(Pipes)
    BY <1>0
  <2> HIDE DEF q
  <2>4. \A t : Follows(x, st[Len(q)], t) => \E r : TraceOf(Append(q, x), r) /\ r[Len(Append(q, x))] = t
    BY <2>1, <2>3, TraceGrows
  <2> QED
    BY <1>3, <2>2, <2>4
<1>4. ASSUME LexValue PROVE Goal
  <2>1. /\ Parsing /\ Token.type \in {"float", "string"} /\ AddPipe(Token.type, Token.ud)
        /\ stack' = Push(stack, Token.ud) /\ left' = left
    BY <1>4 DEF LexValue, Accept
  <2>2. Token \in Tokens
    BY <1>0, <2>1, TokenType
  <2>3. Token.ud \in Values /\ (Token.type = "float" <=> Token.ud = FLOAT)
    BY <2>1, <2>2, StackAssumption DEF Tokens, Values
  <2> DEFINE x == NewPipe(Token.type, Token.ud)
  <2>4. x \in Pipes /\ x.type = Token.type /\ x.ud = Token.ud
    BY <2>1, <2>3, NewPipeType DEF NewPipe
  <2>5. plumbing'[tmp].pipes = Append(q, x)
    BY <1>0, <2>1, AddPipeEffect
  <2>6. ASSUME ~stack'.error
        PROVE  ~stack.error /\ stack'.vals = Append(stack.vals, Token.ud)
    <3>1. ~stack.error
      BY <1>0, <2>1, <2>6, ErrorStays
    <3>2. Push(stack, Token.ud) = [vals |-> Append(stack.vals, Token.ud), error |-> FALSE]
      BY <1>0, <2>1, <2>3, <2>6, <3>1, PushExact
    <3> QED
      BY <2>1, <3>1, <3>2
  <2>7. ASSUME ~stack'.error
        PROVE  Follows(x, stack.vals, stack'.vals)
    BY <2>1, <2>3, <2>4, <2>6, <2>7 DEF Follows
  <2> HIDE DEF x
  <2> QED
    BY <1>3, <2>1, <2>4, <2>5, <2>6, <2>7
<1>5. ASSUME LexOther PROVE Goal
  <2>1. plumbing' = plumbing /\ stack' = stack /\ left' = left
    BY <1>5 DEF LexOther, Accept
  <2> QED
    BY <1>2, <2>1
<1>6. ASSUME NEW st \in Stacks, Refuse(st)
      PROVE  Goal
  BY <1>6, ErrorStays DEF Refuse
<1>7. ASSUME LexUnknown PROVE Goal
  BY <1>0, <1>6, <1>7 DEF LexUnknown
<1>8. ASSUME NEW u \in Ugens, CreateSkipped(u) \/ CreateBadArgs(u)
      PROVE  Goal
  BY <1>0, <1>6, <1>8 DEF CreateSkipped, CreateBadArgs
<1>9. ASSUME NEW u \in Ugens, CreateMissing(u) \/ CreateFailed(u)
      PROVE  Goal
  <2>1. Sig[u].create.pop \in Seq(Types)
    BY SigType DEF Effects
  <2>2. PopAll(stack, Sig[u].create.pop) \in Stacks
    BY <1>0, <2>1, PopAllType
  <2> QED
    BY <1>6, <1>9, <2>2 DEF CreateMissing, CreateFailed
<1>10. ASSUME NEW u \in Ugens, CreateDone(u)
       PROVE  Goal
  <2> DEFINE e == Sig[u].create
             x == NewPipe("ugen", u)
  <2>1. AddPipe("ugen", u) /\ stack' = Apply(e, stack) /\ left' = left
    BY <1>10 DEF CreateDone, Accept
  <2>2. x \in Pipes /\ x.type = "ugen" /\ x.ud = u
    BY NewPipeType DEF NewPipe
  <2>3. plumbing'[tmp].pipes = Append(q, x)
    BY <1>0, <2>1, AddPipeEffect
  <2>4. e \in Effects
    BY SigType
  <2>5. ASSUME ~stack'.error
        PROVE  /\ ~stack.error /\ Fits(stack.vals, e.pop)
               /\ stack'.vals = Under(stack.vals, Len(e.pop)) \o e.push
    <3> HIDE DEF e
    <3>1. ~stack.error
      BY <1>0, <2>1, <2>5, ErrorStays
    <3> DEFINE v == Under(stack.vals, Len(e.pop)) \o e.push
    <3>2. /\ ~Apply(e, stack).error <=>
               Fits(stack.vals, e.pop)
               /\ Len(stack.vals) - Len(e.pop) + Len(e.push) <= SPORTH_STACK_SIZE
          /\ ~Apply(e, stack).error => Apply(e, stack) = [vals |-> v, error |-> FALSE]
      BY <1>0, <2>4, <3>1, ApplyExact
    <3> HIDE DEF v
    <3>3. stack'.vals = v
      BY <2>1, <2>5, <3>2
    <3> QED
      BY <2>1, <2>5, <3>1, <3>2, <3>3 DEF v
  <2>6. ASSUME ~stack'.error
        PROVE  Follows(x, stack.vals, stack'.vals)
    BY <2>2, <2>5, <2>6 DEF Follows
  <2> HIDE DEF x
  <2> QED
    BY <1>3, <2>1, <2>2, <2>3, <2>5, <2>6
<1> HIDE DEF Goal
<1>11. Goal
  BY <1>4, <1>5, <1>7, <1>8, <1>9, <1>10 DEF Lex
<1> QED
  BY <1>1, <1>11 DEF ParseTraced, Goal

\* What a step that keeps the text of a patch keeps of it.
LEMMA SoundSame ==
  ASSUME TypeOK, TypeOK', NEW p \in PlumbingNames, left' = left,
         SameText(plumbing[p].pipes, plumbing'[p].pipes),
         NEW st, TraceOf(plumbing'[p].pipes, st), Sound(p)'
  PROVE  TraceOf(plumbing[p].pipes, st) /\ Sound(p)
<1> DEFINE q == plumbing[p].pipes
           r == plumbing'[p].pipes
<1>1. q \in Seq(Pipes) /\ r \in Seq(Pipes)
  BY DEF TypeOK, Plumbings
<1>2. /\ left' = [vals |-> [c \in 1 .. nchan |-> FLOAT], error |-> FALSE]
      /\ \A i \in 1 .. Len(r) : r[i].type = "ugen" => Even(Sig[r[i].ud])
      /\ \A d \in Depths(r) : d + nchan <= SPORTH_STACK_SIZE
  BY DEF Sound
<1>3. SameText(q, r) /\ TraceOf(r, st)
  OBVIOUS
<1> HIDE DEF q, r
<1>4. TraceOf(q, st)
  BY <1>1, <1>3, TraceSame
<1>5. Len(q) = Len(r) /\ \A i \in 1 .. Len(q) : r[i].type = q[i].type /\ r[i].ud = q[i].ud
  BY <1>3 DEF SameText
<1>6. Depths(q) = {Len(st[n]) : n \in 0 .. Len(q)} /\ Depths(r) = {Len(st[n]) : n \in 0 .. Len(r)}
  BY <1>1, <1>3, <1>4, DepthsAre
<1>7. Depths(q) = Depths(r)
  BY <1>5, <1>6
<1>8. \A i \in 1 .. Len(q) : q[i].type = "ugen" => Even(Sig[q[i].ud])
  BY <1>2, <1>5
<1>9. Sound(p)
  BY <1>2, <1>7, <1>8 DEF Sound, q
<1> QED
  BY <1>4, <1>9 DEF q

\* A pipe of a pass keeps the text of every plumbing.
LEMMA StepText ==
  ASSUME TypeOK, Step
  PROVE  /\ left' = left /\ \A p \in PlumbingNames : SameText(plumbing[p].pipes, plumbing'[p].pipes)
         /\ \A p \in PlumbingNames : p # pass.on => plumbing'[p] = plumbing[p]
         /\ \A i \in 1 .. Len(plumbing[pass.on].pipes) :
              i # pass.at => plumbing'[pass.on].pipes[i] = plumbing[pass.on].pipes[i]
<1>1. left' = left
  BY DEF Step, StepValue, StepSkipped, StepInit, StepInitMissing, StepInitQuits, StepCompute,
         StepDestroy, Advance
<1>2. InPass /\ (UNCHANGED plumbing \/ \E life : Live(life))
  BY StepFrame
<1>3. CASE UNCHANGED plumbing
  BY <1>1, <1>3 DEF SameText
<1>4. ASSUME NEW life, Live(life)
      PROVE  /\ \A p \in PlumbingNames : SameText(plumbing[p].pipes, plumbing'[p].pipes)
             /\ \A p \in PlumbingNames : p # pass.on => plumbing'[p] = plumbing[p]
             /\ \A i \in 1 .. Len(plumbing[pass.on].pipes) :
                  i # pass.at => plumbing'[pass.on].pipes[i] = plumbing[pass.on].pipes[i]
  <2> DEFINE q == plumbing[pass.on].pipes
             r == plumbing'[pass.on].pipes
  <2>1. /\ \A p \in PlumbingNames : p # pass.on => plumbing'[p] = plumbing[p]
        /\ r = [q EXCEPT ![pass.at] = [@ EXCEPT !.life = life]]
    BY <1>2, <1>4, LiveEffect
  <2>2. q \in Seq(Pipes) /\ pass.at \in 1 .. Len(q) /\ q[pass.at] \in Pipes
    BY <1>2, PipeType DEF TypeOK, Plumbings, Pipe
  <2> HIDE DEF q, r
  <2>3. /\ Len(r) = Len(q) /\ r[pass.at] = [q[pass.at] EXCEPT !.life = life]
        /\ \A i \in 1 .. Len(q) : i # pass.at => r[i] = q[i]
    BY <2>1, <2>2
  <2>4. r[pass.at].type = q[pass.at].type /\ r[pass.at].ud = q[pass.at].ud
    BY <2>2, <2>3 DEF Pipes
  <2>5. SameText(q, r)
    BY <2>3, <2>4 DEF SameText
  <2>6. \A p \in PlumbingNames : plumbing'[p] = plumbing[p] => SameText(plumbing[p].pipes, plumbing'[p].pipes)
    BY DEF SameText
  <2> QED
    BY <2>1, <2>3, <2>5, <2>6 DEF q, r
<1> QED
  BY <1>1, <1>2, <1>3, <1>4

\* A step of INIT over a patch that plays does what its parse did.
LEMMA InitSteps ==
  ASSUME Inv, Step, pass.then \in {"start", "resume"}, NEW p \in PlumbingNames, p = pass.on,
         Sound(p), NEW st, TraceOf(plumbing[p].pipes, st), Plays(p, st)
  PROVE  Plays(p, st)'
<1> DEFINE q == plumbing[p].pipes
           n == pass.at
           s == st[n - 1]
           base == IF pass.then = "start" THEN left.vals ELSE <<>>
           x == q[n]
<1>0. TypeOK /\ InPass /\ pc = "pass"
  BY StepFrame DEF Inv, InPass
<1>1. /\ q \in Seq(Pipes) /\ n \in 1 .. Len(q) /\ x \in Pipes /\ x = Pipe /\ n \in Nat
  BY <1>0, PipeType DEF TypeOK, Plumbings, Pipe
<1>2. mode = PLUMBER_INIT
  BY <1>0 DEF Inv, Roles, PassRoles
<1>3. /\ s \in Seq(Values) /\ st[n] \in Seq(Values) /\ Follows(x, s, st[n])
  <2>1. n - 1 \in 0 .. Len(q) /\ n \in 0 .. Len(q)
    BY <1>1
  <2> QED
    BY <1>1, <2>1 DEF TraceOf
<1>4. ReadyTo(p, n - 1) /\ stack = [vals |-> base \o s, error |-> FALSE]
  BY <1>0 DEF Plays
<1>5. base \in Seq(Values) /\ Len(base) \in Nat /\ Len(base) <= nchan /\ nchan \in Nat
  <2>1. left.vals = Repeated(FLOAT, nchan) /\ nchan \in Nat /\ FLOAT \in Values
    BY PlumberAssumption DEF Sound, Repeated, Values
  <2>2. left.vals \in Seq(Values) /\ Len(left.vals) = nchan
    BY <2>1, RepeatedType
  <2>3. <<>> \in Seq(Values) /\ Len(<<>>) = 0
    OBVIOUS
  <2> QED
    BY <2>1, <2>2, <2>3
<1>6. Len(base) + Len(st[n]) <= SPORTH_STACK_SIZE
  <2>1. Len(st[n]) \in Depths(q)
    BY <1>1, DepthsAre
  <2>2. Len(st[n]) + nchan <= SPORTH_STACK_SIZE /\ Len(st[n]) \in Nat
    BY <1>3, <2>1 DEF Sound
  <2>3. SPORTH_STACK_SIZE \in Nat
    BY StackAssumption
  <2> DEFINE l == Len(st[n])
             b == Len(base)
  <2>4. l + nchan <= SPORTH_STACK_SIZE /\ l \in Nat /\ b \in Nat /\ b <= nchan /\ nchan \in Nat
    BY <1>5, <2>2
  <2> HIDE DEF l, b
  <2>5. b + l <= SPORTH_STACK_SIZE
    BY <2>3, <2>4
  <2> QED
    BY <2>5 DEF l, b
<1>7. x.type = "ugen" => Even(Sig[x.ud])
  BY <1>1 DEF Sound
<1>8. stack \in Stacks
  BY <1>0 DEF TypeOK
<1> HIDE DEF base, x, s, q
<1> DEFINE Done == /\ stack' = [vals |-> base \o st[n], error |-> FALSE]
                   /\ x.type = "ugen" => plumbing'[p].pipes[n].life = "ready"
<1>9. ASSUME StepValue PROVE Done
  <2>1. x.type # "ugen" /\ stack' = Push(stack, x.ud)
    BY <1>1, <1>2, <1>9 DEF StepValue
  <2>2. x.ud \in Values /\ st[n] = Append(s, x.ud)
    BY <1>3, <2>1 DEF Follows
  <2>3. /\ Append(base \o s, x.ud) = base \o Append(s, x.ud)
        /\ Len(base \o s) + 1 <= SPORTH_STACK_SIZE
    <3>1. Len(st[n]) = Len(s) + 1 /\ Len(base \o s) = Len(base) + Len(s) /\ Len(s) \in Nat
      BY <1>3, <1>5, <2>2
    <3>2. Append(base \o s, x.ud) = base \o Append(s, x.ud)
      <4>1. /\ <<x.ud>> \in Seq(Values) /\ Append(s, x.ud) = s \o <<x.ud>>
            /\ base \o s \in Seq(Values) /\ Append(base \o s, x.ud) = (base \o s) \o <<x.ud>>
        BY <1>3, <1>5, <2>2, AppendIsConcat, ConcatProperties
      <4> DEFINE v == <<x.ud>>
      <4> HIDE DEF v
      <4>2. (base \o s) \o v = base \o (s \o v)
        <5>1. v \in Seq(Values)
          BY <4>1 DEF v
        <5> QED
          <6>1. base \in Seq(Values) /\ s \in Seq(Values)
            BY <1>3, <1>5, <2>2
          <6> QED
            BY ONLY <5>1, <6>1, ConcatAssociative
      <4> QED
        BY <4>1, <4>2 DEF v
    <3> QED
      BY <1>5, <1>6, <3>1, <3>2
  <2>4. Push(stack, x.ud) = [vals |-> Append(base \o s, x.ud), error |-> FALSE]
    BY <1>4, <1>8, <2>2, <2>3, PushExact
  <2> QED
    BY <2>1, <2>2, <2>3, <2>4
<1>10. ASSUME StepInit PROVE Done
  <2> DEFINE e == Sig[x.ud].create
  <2>1. /\ x.type = "ugen" /\ stack' = Apply(Sig[x.ud].init, stack) /\ Live("ready")
    BY <1>1, <1>10 DEF StepInit, InHandler
  <2>2. /\ x.ud \in Ugens /\ Fits(s, e.pop) /\ st[n] = Under(s, Len(e.pop)) \o e.push
    BY <1>3, <2>1 DEF Follows
  <2>3. /\ Sig[x.ud].init \in Effects /\ e \in Effects
        /\ Sig[x.ud].init.pop = e.pop /\ Sig[x.ud].init.push = e.push
    BY <1>7, <2>1, <2>2, SigType DEF Even
  <2> DEFINE i == Sig[x.ud].init
  <2> HIDE DEF e, i
  <2>4. /\ e.pop \in Seq(Types) /\ e.push \in Seq(Values) /\ Len(e.pop) \in Nat /\ Len(e.pop) <= Len(s)
        /\ i \in Effects /\ i.pop = e.pop /\ i.push = e.push
    <3>1. e.pop \in Seq(Types) /\ e.push \in Seq(Values)
      BY <2>3 DEF Effects
    <3>2. Len(e.pop) <= Len(s)
      BY <2>2 DEF Fits
    <3>3. i \in Effects /\ i.pop = e.pop /\ i.push = e.push
      BY <2>3, Zenon DEF i
    <3> QED
      BY <3>1, <3>2, <3>3
  <2>5. Fits(base \o s, e.pop) /\ Under(base \o s, Len(e.pop)) = base \o Under(s, Len(e.pop))
    BY <1>3, <1>5, <2>2, <2>4, FitsOver
  <2> DEFINE u == Under(s, Len(e.pop))
  <2>6. u \in Seq(Values) /\ Len(u) = Len(s) - Len(e.pop)
    BY <1>3, <2>4, UnderType
  <2>7. (base \o u) \o e.push = base \o st[n]
    <3>1. st[n] = u \o e.push
      BY <2>2
    <3> DEFINE v == e.push
    <3>2. v \in Seq(Values) /\ u \in Seq(Values) /\ st[n] = u \o v
      BY <2>4, <2>6, <3>1
    <3> HIDE DEF u, v
    <3>3. (base \o u) \o v = base \o (u \o v)
      <4>1. base \in Seq(Values)
        BY <1>5
      <4> QED
        BY ONLY <3>2, <4>1, ConcatAssociative
    <3> QED
      BY <3>2, <3>3 DEF v
  <2>8. Len(base \o s) - Len(e.pop) + Len(e.push) <= SPORTH_STACK_SIZE
    <3>1. Len(base \o s) = Len(base) + Len(s)
      BY <1>3, <1>5, ConcatProperties
    <3>2. st[n] = u \o e.push
      BY <2>2
    <3>3. Len(st[n]) = Len(u) + Len(e.push)
      <4> DEFINE v == e.push
      <4>1. v \in Seq(Values) /\ u \in Seq(Values) /\ st[n] = u \o v
        BY <2>4, <2>6, <3>2
      <4> HIDE DEF u, v
      <4>2. Len(u \o v) = Len(u) + Len(v)
        BY <4>1, ConcatProperties
      <4> QED
        BY <4>1, <4>2 DEF v
    <3>4. Len(s) \in Nat /\ Len(e.push) \in Nat
      BY <1>3, <2>4
    <3> DEFINE a == Len(base)
               b == Len(s)
               c == Len(e.pop)
               d == Len(e.push)
               l == Len(st[n])
    <3>5. /\ a \in Nat /\ b \in Nat /\ c \in Nat /\ d \in Nat /\ SPORTH_STACK_SIZE \in Nat
          /\ a + l <= SPORTH_STACK_SIZE /\ l = (b - c) + d /\ Len(base \o s) = a + b
      BY <1>5, <1>6, <2>4, <2>6, <3>1, <3>3, <3>4, StackAssumption
    <3> HIDE DEF a, b, c, d, l
    <3>6. (a + b) - c + d <= SPORTH_STACK_SIZE
      BY <3>5
    <3> QED
      BY <3>5, <3>6 DEF c, d
  <2> HIDE DEF u
  <2>9. /\ ~Apply(i, stack).error <=>
             Fits(stack.vals, i.pop) /\ Len(stack.vals) - Len(i.pop) + Len(i.push) <= SPORTH_STACK_SIZE
        /\ ~Apply(i, stack).error =>
             Apply(i, stack) = [vals |-> Under(stack.vals, Len(i.pop)) \o i.push, error |-> FALSE]
    BY <1>4, <1>8, <2>4, ApplyExact
  <2>10. stack.vals = base \o s
    BY <1>4
  <2>11. Apply(i, stack) = [vals |-> base \o st[n], error |-> FALSE]
    BY <2>4, <2>5, <2>7, <2>8, <2>9, <2>10 DEF u
  <2>12. plumbing'[p].pipes[n].life = "ready"
    <3>1. plumbing'[p].pipes = [q EXCEPT ![n] = [@ EXCEPT !.life = "ready"]]
      BY <1>0, <2>1, LiveEffect DEF q
    <3>2. q[n] \in Pipes
      BY <1>1 DEF x
    <3> QED
      BY <1>1, <3>1, <3>2 DEF Pipes
  <2> QED
    BY <2>1, <2>11, <2>12 DEF i
<1>11. ASSUME StepSkipped PROVE FALSE
  BY <1>4, <1>11 DEF StepSkipped, Entered
<1>12. ASSUME StepInitMissing PROVE FALSE
  <2>1. x.type = "ugen" /\ ~FindsAll(Sig[x.ud].init, stack, ft[ftmap].entries)
    BY <1>1, <1>12 DEF StepInitMissing, InHandler
  <2> QED
    BY <1>7, <2>1 DEF Even, FindsAll
<1>13. ASSUME StepInitQuits PROVE FALSE
  BY <1>1, <1>7, <1>13 DEF StepInitQuits, InHandler, Even
<1>14. ASSUME StepCompute \/ StepDestroy PROVE FALSE
  BY <1>2, <1>14 DEF StepCompute, StepDestroy, InHandler, PLUMBER_INIT, PLUMBER_COMPUTE, PLUMBER_DESTROY
<1> HIDE DEF Done
<1>15. Done
  BY <1>9, <1>10, <1>11, <1>12, <1>13, <1>14 DEF Step
<1>16. /\ pc' = "pass" /\ pass' = [pass EXCEPT !.at = @ + 1] /\ left' = left
       /\ Len(plumbing'[p].pipes) = Len(q)
       /\ \A i \in 1 .. Len(q) : /\ i # n => plumbing'[p].pipes[i] = q[i]
                                 /\ plumbing'[p].pipes[i].type = q[i].type
  BY <1>0, StepFrame, StepText DEF SameText, q
<1>17. pass'.at = n + 1 /\ pass'.then = pass.then
  BY <1>0, <1>16 DEF TypeOK, Passes
<1>18. \A i \in 1 .. n : plumbing'[p].pipes[i].type = "ugen" => plumbing'[p].pipes[i].life = "ready"
  <2>1. ASSUME NEW i \in 1 .. n, plumbing'[p].pipes[i].type = "ugen"
        PROVE  plumbing'[p].pipes[i].life = "ready"
    <3>1. i \in 1 .. Len(q) /\ (i # n => i \in 1 .. n - 1)
      BY <1>1
    <3>2. CASE i = n
      BY <1>1, <1>15, <1>16, <2>1, <3>1, <3>2 DEF Done, x
    <3>3. CASE i # n
      BY <1>4, <1>16, <2>1, <3>1, <3>3 DEF ReadyTo, q
    <3> QED
      BY <3>2, <3>3
  <2> QED
    BY <2>1
<1>19. n + 1 - 1 = n /\ n + 1 <= Len(q) + 1
  BY <1>1
<1> HIDE DEF n
<1>20. /\ pass'.at - 1 = n /\ pass'.at <= Len(plumbing'[p].pipes) + 1
       /\ \A i \in 1 .. pass'.at - 1 :
            plumbing'[p].pipes[i].type = "ugen" => plumbing'[p].pipes[i].life = "ready"
  <2>1. pass'.at = n + 1 /\ Len(plumbing'[p].pipes) = Len(q)
    BY <1>16, <1>17
  <2>2. pass'.at - 1 = n /\ pass'.at <= Len(plumbing'[p].pipes) + 1
    BY <1>1, <1>19, <2>1
  <2> QED
    BY <1>18, <2>2
<1>21. stack' = [vals  |-> (IF pass'.then = "start" THEN left'.vals ELSE <<>>) \o st[pass'.at - 1],
                 error |-> FALSE]
  BY <1>15, <1>16, <1>17, <1>20 DEF Done, base
<1>22. pass'.then \notin {"sample", "revert"} /\ pc' = "pass"
  BY <1>16, <1>17
<1> QED
  BY <1>20, <1>21, <1>22 DEF Plays, ReadyTo

\* A step of COMPUTE over a patch that plays does to the floats what its
\* parse did.
LEMMA ComputeSteps ==
  ASSUME Inv, Step, pass.then = "sample", NEW p \in PlumbingNames, p = pass.on,
         Sound(p), NEW st, TraceOf(plumbing[p].pipes, st), Plays(p, st)
  PROVE  Plays(p, st)'
<1> DEFINE q == plumbing[p].pipes
           n == pass.at
           s == st[n - 1]
           x == q[n]
           k == Times(FLOAT, s)
           l == Times(FLOAT, st[n])
<1>0. TypeOK /\ InPass /\ pc = "pass"
  BY StepFrame DEF Inv, InPass
<1>1. /\ q \in Seq(Pipes) /\ n \in 1 .. Len(q) /\ x \in Pipes /\ x = Pipe /\ n \in Nat
  BY <1>0, PipeType DEF TypeOK, Plumbings, Pipe
<1>2. mode = PLUMBER_COMPUTE
  BY <1>0 DEF Inv, Roles, PassRoles
<1>3. /\ s \in Seq(Values) /\ st[n] \in Seq(Values) /\ Follows(x, s, st[n])
  <2>1. n - 1 \in 0 .. Len(q) /\ n \in 0 .. Len(q)
    BY <1>1
  <2> QED
    BY <1>1, <2>1 DEF TraceOf
<1>4. PICK b \in {0, nchan} : stack = [vals |-> Repeated(FLOAT, b + k), error |-> FALSE]
  BY <1>0 DEF Plays
<1>5. b \in Nat /\ b <= nchan /\ nchan \in Nat /\ SPORTH_STACK_SIZE \in Nat
  BY PlumberAssumption, StackAssumption
<1>6. k \in Nat /\ l \in Nat /\ l <= Len(st[n]) /\ Len(st[n]) \in Nat
  BY <1>3, TimesType
<1>7. b + l <= SPORTH_STACK_SIZE
  <2>1. Len(st[n]) \in Depths(q)
    BY <1>1, DepthsAre
  <2>2. Len(st[n]) + nchan <= SPORTH_STACK_SIZE
    BY <2>1 DEF Sound
  <2> DEFINE m == Len(st[n])
  <2> HIDE DEF m, l
  <2> QED
    BY <1>5, <1>6, <2>2 DEF m
<1>8. x.type = "ugen" => Even(Sig[x.ud])
  BY <1>1 DEF Sound
<1>9. b + k <= SPORTH_STACK_SIZE
  <2>1. stack \in Stacks /\ stack.vals = Repeated(FLOAT, b + k) /\ b + k \in Nat /\ FLOAT \in Values
    BY <1>0, <1>4, <1>5, <1>6 DEF TypeOK, Values
  <2>2. Len(stack.vals) = b + k /\ Len(stack.vals) <= SPORTH_STACK_SIZE
    BY <2>1, RepeatedType DEF Stacks
  <2> QED
    BY <2>2
<1> HIDE DEF x, s, q, k
<1> DEFINE Done == stack' = [vals |-> Repeated(FLOAT, b + l), error |-> FALSE] /\ plumbing' = plumbing
<1>10. ASSUME StepValue PROVE Done
  <2>1. /\ x.type # "ugen" /\ plumbing' = plumbing
        /\ stack' = IF x.type = "float" THEN Push(stack, x.ud) ELSE stack
    BY <1>1, <1>2, <1>10 DEF StepValue, PLUMBER_INIT, PLUMBER_COMPUTE
  <2>2. /\ x.ud \in Values /\ st[n] = Append(s, x.ud) /\ (x.type = "float" <=> x.ud = FLOAT)
    BY <1>3, <2>1 DEF Follows
  <2>3. l = IF x.ud = FLOAT THEN k + 1 ELSE k
    BY <1>3, <2>2, TimesAppend DEF k
  <2>4. CASE x.type = "float"
    <3>1. l = k + 1 /\ stack' = Push(stack, FLOAT)
      BY <2>1, <2>2, <2>3, <2>4
    <3>2. b + k \in Nat /\ (b + k) + 1 = b + l
      BY <1>5, <1>6, <3>1
    <3>3. (b + k) + 1 <= SPORTH_STACK_SIZE
      BY <1>7, <3>2
    <3> DEFINE m == b + k
    <3>4. m \in Nat /\ m + 1 <= SPORTH_STACK_SIZE
      BY <3>2, <3>3
    <3> HIDE DEF m
    <3>5. Push([vals |-> Repeated(FLOAT, m), error |-> FALSE], FLOAT)
            = [vals |-> Repeated(FLOAT, m + 1), error |-> FALSE]
      BY <3>4, PushFloat
    <3> QED
      BY <1>4, <2>1, <3>1, <3>2, <3>5 DEF m
  <2>5. CASE x.type # "float"
    BY <1>4, <2>1, <2>2, <2>3, <2>5
  <2> QED
    BY <2>4, <2>5
<1>11. ASSUME StepCompute PROVE Done
  <2> DEFINE e == Sig[x.ud].create
             i == Sig[x.ud].compute
             c == Times("f", e.pop)
             d == Times(FLOAT, e.push)
  <2>1. /\ x.type = "ugen" /\ stack' = Apply(i, stack) /\ plumbing' = plumbing
    BY <1>1, <1>11 DEF StepCompute, InHandler
  <2>2. /\ x.ud \in Ugens /\ Fits(s, e.pop) /\ st[n] = Under(s, Len(e.pop)) \o e.push
    BY <1>3, <2>1 DEF Follows
  <2>3. /\ i \in Effects /\ e \in Effects
        /\ i.pop = Repeated("f", c) /\ i.push = Repeated(FLOAT, d)
    BY <1>8, <2>1, <2>2, SigType DEF Even
  <2>4. c \in Nat /\ c <= k /\ d \in Nat /\ l = k - c + d
    <3> HIDE DEF e, i
    <3> QED
      BY <1>3, <2>2, <2>3, TimesApplied DEF k
  <2> HIDE DEF c, d, l, i
  <2> DEFINE m == b + k
  <2>5. /\ m \in Nat /\ c \in 0 .. m /\ m - c + d = b + l
        /\ m <= SPORTH_STACK_SIZE
    BY <1>5, <1>6, <1>9, <2>4
  <2>6. m - c + d <= SPORTH_STACK_SIZE
    BY <1>7, <2>5
  <2> HIDE DEF m
  <2>7. Apply(i, [vals |-> Repeated(FLOAT, m), error |-> FALSE])
          = [vals |-> Repeated(FLOAT, m - c + d), error |-> FALSE]
    BY <2>3, <2>4, <2>5, <2>6, ApplyFloats
  <2>8. stack = [vals |-> Repeated(FLOAT, m), error |-> FALSE]
    BY <1>4 DEF m
  <2>9. stack' = [vals |-> Repeated(FLOAT, b + l), error |-> FALSE]
    BY <2>1, <2>5, <2>7, <2>8
  <2> QED
    BY <2>1, <2>9
<1>12. ASSUME StepSkipped PROVE FALSE
  BY <1>4, <1>12 DEF StepSkipped, Entered
<1>13. ASSUME StepInit \/ StepInitMissing \/ StepInitQuits \/ StepDestroy PROVE FALSE
  BY <1>2, <1>13 DEF StepInit, StepInitMissing, StepInitQuits, StepDestroy, InHandler,
                     PLUMBER_INIT, PLUMBER_COMPUTE, PLUMBER_DESTROY
<1> HIDE DEF Done
<1>14. Done
  BY <1>10, <1>11, <1>12, <1>13 DEF Step
<1>15. /\ pc' = "pass" /\ pass' = [pass EXCEPT !.at = @ + 1] /\ left' = left
  BY <1>0, StepFrame, StepText
<1>16. pass'.at = n + 1 /\ pass'.then = pass.then
  BY <1>0, <1>15 DEF TypeOK, Passes
<1>17. pass'.at - 1 = n /\ pass'.at <= Len(q) + 1
  BY <1>1, <1>16
<1>18. ReadyTo(p, Len(plumbing[p].pipes))
  BY <1>0 DEF Plays
<1>19. \E c \in {0, nchan} :
         stack' = [vals |-> Repeated(FLOAT, c + Times(FLOAT, st[pass'.at - 1])), error |-> FALSE]
  BY <1>4, <1>14, <1>17 DEF Done
<1>20. plumbing' = plumbing
  BY <1>14 DEF Done
<1>21. pass'.then = "sample"
  BY <1>16
<1> QED
  BY <1>15, <1>17, <1>18, <1>19, <1>20, <1>21 DEF Plays, ReadyTo, q

\* Where the plumbing that `left' speaks of is in a pass.
LEMMA HeldIs ==
  ASSUME Inv
  PROVE  /\ Held \in PlumbingNames
         /\ pc = "pass" /\ pass.then \in {"start", "sample", "resume"} => pass.on = Held /\ Held = Cur
         /\ pc = "pass" /\ pass.then = "revert" => pass.on # Held
  BY PairsDiffer DEF Inv, Roles, PassRoles, Held

\* A step that keeps a text keeps what is known of it.
LEMMA LeftKept ==
  ASSUME TypeOK, TypeOK', LeftTraced, Holding, Held' = Held, left' = left, Held \in PlumbingNames,
         \A p \in PlumbingNames : p = Held => SameText(plumbing[p].pipes, plumbing'[p].pipes)
  PROVE  LeftTraced'
<1> SUFFICES ASSUME ~left.error
             PROVE  \E st : /\ TraceOf(plumbing'[Held].pipes, st)
                            /\ st[Len(plumbing'[Held].pipes)] = left.vals
  BY DEF LeftTraced
<1> DEFINE q == plumbing[Held].pipes
           r == plumbing'[Held].pipes
<1>1. PICK st : TraceOf(q, st) /\ st[Len(q)] = left.vals
  BY DEF LeftTraced
<1>2. q \in Seq(Pipes) /\ r \in Seq(Pipes) /\ SameText(q, r)
  BY DEF TypeOK, Plumbings
<1> HIDE DEF q, r
<1>3. TraceOf(r, st) /\ Len(r) = Len(q)
  BY <1>1, <1>2, TraceSame DEF SameText
<1> QED
  BY <1>1, <1>3 DEF r

\* A pipe of a pass keeps the patch that plays steady.
LEMMA StepSteady ==
  ASSUME Inv, Inv', ParseTraced, LeftTraced, Steady, Step
  PROVE  ParseTraced' /\ LeftTraced' /\ Steady'
<1>1. /\ TypeOK /\ TypeOK' /\ pc = "pass" /\ pc' = "pass" /\ InPass
      /\ pass' = [pass EXCEPT !.at = @ + 1] /\ UNCHANGED current_pipe
  BY StepFrame DEF Inv, InPass, pointers
<1>2. pass'.then = pass.then /\ pass'.on = pass.on
  BY <1>1 DEF TypeOK, Passes
<1>3. /\ left' = left /\ \A p \in PlumbingNames : SameText(plumbing[p].pipes, plumbing'[p].pipes)
      /\ \A p \in PlumbingNames : p # pass.on => plumbing'[p] = plumbing[p]
  BY <1>1, StepText
<1>4. Held' = Held /\ Holding' = Holding
  BY <1>1, <1>2 DEF Held, Holding, Cur, Old
<1>5. ParseTraced'
  BY <1>1 DEF ParseTraced
<1>6. LeftTraced'
  <2>1. CASE Holding
    BY <1>1, <1>3, <1>4, <2>1, HeldIs, LeftKept
  <2>2. CASE ~Holding
    BY <1>4, <2>2 DEF LeftTraced
  <2> QED
    BY <2>1, <2>2
<1>7. Steady'
  <2> SUFFICES ASSUME Holding, NEW p \in PlumbingNames, NEW st, p = Held, Sound(p)',
                      TraceOf(plumbing'[p].pipes, st)
               PROVE  Plays(p, st)'
    BY <1>4 DEF Steady
  <2>1. TraceOf(plumbing[p].pipes, st) /\ Sound(p)
    BY <1>1, <1>3, SoundSame
  <2>2. Plays(p, st)
    BY <2>1 DEF Steady
  <2>3. CASE pass.then \in {"start", "resume"}
    <3>1. p = pass.on
      BY <1>1, <2>3, HeldIs
    <3> QED
      BY <2>1, <2>2, <2>3, <3>1, InitSteps
  <2>4. CASE pass.then = "sample"
    <3>1. p = pass.on
      BY <1>1, <2>4, HeldIs
    <3> QED
      BY <2>1, <2>2, <2>4, <3>1, ComputeSteps
  <2>5. CASE pass.then = "revert"
    <3>1. p # pass.on
      BY <1>1, <2>5, HeldIs
    <3>2. plumbing'[p] = plumbing[p]
      BY <1>3, <3>1
    <3>3. ReadyTo(p, Len(plumbing[p].pipes))
      BY <1>1, <2>2, <2>5 DEF Plays
    <3> QED
      BY <1>1, <1>2, <2>5, <3>2, <3>3 DEF Plays, ReadyTo
  <2>6. CASE pass.then \notin {"start", "resume", "sample", "revert"}
    BY <1>1, <1>2, <2>6 DEF Plays
  <2> QED
    BY <2>3, <2>4, <2>5, <2>6
<1> QED
  BY <1>5, <1>6, <1>7

\* A token keeps the patch that plays as it is: the parse builds the other one.
LEMMA LexSteady ==
  ASSUME Inv, Inv', ParseTraced, LeftTraced, Steady, Lex
  PROVE  ParseTraced' /\ LeftTraced' /\ Steady'
<1>1. /\ TypeOK /\ TypeOK' /\ pc' = pc /\ pc \in {"parse", "reparse"}
      /\ pass' = pass /\ UNCHANGED <<current_pipe, tmp>>
      /\ UNCHANGED plumbing \/ \E type, ud : AddPipe(type, ud)
  BY LexFrame DEF Inv, pointers
<1>2. ParseTraced' /\ left' = left
  BY LexTraced
<1>3. Held' = Held /\ Holding' = Holding
  BY <1>1 DEF Held, Holding, Cur, Old
<1>4. ASSUME Holding
      PROVE  /\ pc = "reparse" /\ Held \in PlumbingNames
             /\ \A p \in PlumbingNames : p = Held => plumbing'[p] = plumbing[p]
  <2>1. pc = "reparse" /\ Held = Old /\ tmp = Cur
    BY <1>1, <1>4 DEF Holding, Held, Inv, Roles, Compiled
  <2>2. Held \in PlumbingNames /\ Held # tmp
    BY <1>1, <2>1, PairsDiffer
  <2>3. \A p \in PlumbingNames : p # tmp => plumbing'[p] = plumbing[p]
    BY <1>1, AddPipeEffect
  <2> QED
    BY <2>1, <2>2, <2>3
<1>5. LeftTraced'
  <2>1. CASE Holding
    <3>1. \A p \in PlumbingNames : p = Held => SameText(plumbing[p].pipes, plumbing'[p].pipes)
      BY <1>4, <2>1 DEF SameText
    <3> QED
      BY <1>1, <1>2, <1>3, <1>4, <2>1, <3>1, LeftKept
  <2>2. CASE ~Holding
    BY <1>3, <2>2 DEF LeftTraced
  <2> QED
    BY <2>1, <2>2
<1>6. Steady'
  <2> SUFFICES ASSUME Holding, NEW p \in PlumbingNames, NEW st, p = Held, Sound(p)',
                      TraceOf(plumbing'[p].pipes, st)
               PROVE  Plays(p, st)'
    BY <1>3 DEF Steady
  <2>1. pc = "reparse" /\ plumbing'[p] = plumbing[p]
    BY <1>4
  <2>2. SameText(plumbing[p].pipes, plumbing'[p].pipes)
    BY <2>1 DEF SameText
  <2>3. TraceOf(plumbing[p].pipes, st) /\ Sound(p)
    BY <1>1, <1>2, <2>2, SoundSame
  <2>4. Plays(p, st)
    BY <2>3 DEF Steady
  <2> QED
    BY <1>1, <2>1, <2>4 DEF Plays, ReadyTo
<1> QED
  BY <1>2, <1>5, <1>6

\* A step between the passes that leaves the patch that plays alone.
LEMMA HeldOn ==
  ASSUME Inv, Inv', LeftTraced, Steady, Holding, left' = left, Held' = Held,
         \A p \in PlumbingNames : p = Held => plumbing'[p].pipes = plumbing[p].pipes
  PROVE  /\ LeftTraced'
         /\ \A p \in PlumbingNames : \A st :
              p = Held /\ Sound(p)' /\ TraceOf(plumbing'[p].pipes, st) =>
                /\ TraceOf(plumbing[p].pipes, st) /\ Sound(p) /\ Plays(p, st)
                /\ plumbing'[p].pipes = plumbing[p].pipes
<1>1. TypeOK /\ TypeOK' /\ Held \in PlumbingNames
  BY HeldIs DEF Inv
<1>2. \A p \in PlumbingNames : p = Held => SameText(plumbing[p].pipes, plumbing'[p].pipes)
  BY DEF SameText
<1>3. LeftTraced'
  BY <1>1, <1>2, LeftKept
<1>4. ASSUME NEW p \in PlumbingNames, NEW st, p = Held, Sound(p)', TraceOf(plumbing'[p].pipes, st)
      PROVE  /\ TraceOf(plumbing[p].pipes, st) /\ Sound(p) /\ Plays(p, st)
             /\ plumbing'[p].pipes = plumbing[p].pipes
  <2>1. TraceOf(plumbing[p].pipes, st) /\ Sound(p)
    BY <1>1, <1>2, <1>4, SoundSame
  <2> QED
    BY <1>4, <2>1 DEF Steady
<1> QED
  BY <1>3, <1>4

\* The parse of the patch that plays ended in one float per channel.
LEMMA LeftEnds ==
  ASSUME Inv, LeftTraced, Steady, Holding, NEW p \in PlumbingNames, p = Held, Sound(p)
  PROVE  /\ \E st : /\ TraceOf(plumbing[p].pipes, st) /\ Plays(p, st)
                    /\ st[Len(plumbing[p].pipes)] = left.vals
         /\ left.vals = Repeated(FLOAT, nchan) /\ left.vals \in Seq(Values) /\ nchan \in Nat
         /\ Times(FLOAT, left.vals) = nchan
<1>1. left.vals = Repeated(FLOAT, nchan) /\ ~left.error /\ nchan \in Nat /\ FLOAT \in Values
  BY PlumberAssumption DEF Sound, Repeated, Values
<1>2. /\ left.vals \in Seq(Values) /\ Len(left.vals) = nchan
      /\ \A i \in 1 .. nchan : left.vals[i] = FLOAT
  BY <1>1, RepeatedType
<1>3. Times(FLOAT, left.vals) = nchan
  <2> DEFINE v == left.vals
  <2>1. v \in Seq(Values) /\ Len(v) = nchan /\ \A i \in 1 .. Len(v) : v[i] = FLOAT
    BY <1>2
  <2> HIDE DEF v
  <2>2. Times(FLOAT, v) = nchan
    BY <2>1, TimesAll
  <2> QED
    BY <2>2 DEF v
<1>4. \E st : TraceOf(plumbing[p].pipes, st) /\ st[Len(plumbing[p].pipes)] = left.vals
  BY <1>1 DEF LeftTraced
<1> QED
  BY <1>1, <1>2, <1>3, <1>4 DEF Steady

\* Where a pass over a sound patch stands when it is over.
LEMMA PassEnds ==
  ASSUME Inv, NEW next, PassOver(next), NEW p \in PlumbingNames, p = pass.on,
         pass.at <= Len(plumbing[p].pipes) + 1
  PROVE  pass.at - 1 = Len(plumbing[p].pipes)
<1>1. pass.at \in Nat /\ Len(plumbing[p].pipes) \in Nat /\ pass.at > Len(plumbing[p].pipes)
  BY DEF Inv, TypeOK, Passes, Plumbings, PassOver
<1> QED
  BY <1>1

\* The first patch, and the samples.
LEMMA PlaySteady ==
  ASSUME Inv, Inv', ParseTraced, LeftTraced, Steady, Start \/ Started \/ Sample \/ Sampled
  PROVE  ParseTraced' /\ LeftTraced' /\ Steady'
<1>0. /\ TypeOK /\ TypeOK' /\ Roles /\ plumbing' = plumbing /\ UNCHANGED current_pipe
      /\ pc' \in {"pass", "idle"}
  BY DEF Inv, Start, Started, Sample, Sampled, Begin, Rest
<1>1. ParseTraced'
  BY <1>0 DEF ParseTraced
<1>2. CASE Start
  <2>1. /\ pc = "parse" /\ tmp = Cur /\ left' = stack /\ stack' = stack /\ pc' = "pass"
        /\ pass'.at = 1 /\ pass'.then = "start"
    BY <1>0, <1>2 DEF Start, Begin, Roles, PLUMBER_INIT, PLUMBER_DESTROY
  <2>2. Held' = Cur
    BY <1>0, <2>1 DEF Held, Cur
  <2>3. LeftTraced'
    BY <1>0, <2>1, <2>2 DEF LeftTraced, ParseTraced
  <2>4. Steady'
    <3> SUFFICES ASSUME NEW p \in PlumbingNames, NEW st, Sound(p)', TraceOf(plumbing[p].pipes, st)
                 PROVE  Plays(p, st)'
      BY <1>0 DEF Steady
    <3>1. st[0] = <<>> /\ Len(plumbing[p].pipes) \in Nat
      BY <1>0 DEF TraceOf, TypeOK, Plumbings
    <3>2. left'.error = FALSE /\ left' \in Stacks /\ left'.vals \in Seq(Values)
      BY <1>0 DEF Sound, TypeOK, Stacks
    <3>3. left' = [vals |-> left'.vals \o <<>>, error |-> FALSE]
      BY <3>2, ConcatEmptySeq DEF Stacks
    <3>4. ReadyTo(p, 0)'
      BY DEF ReadyTo
    <3>5. pass'.at - 1 = 0 /\ pass'.at <= Len(plumbing'[p].pipes) + 1
      BY <1>0, <2>1, <3>1
    <3>6. stack' = [vals |-> left'.vals \o st[0], error |-> FALSE]
      BY <2>1, <3>1, <3>3
    <3> QED
      BY <2>1, <3>4, <3>5, <3>6 DEF Plays, ReadyTo
  <2> QED
    BY <1>1, <2>3, <2>4
<1>3. CASE Started
  <2>1. /\ pc = "pass" /\ pass.then = "start" /\ PassOver("start") /\ pc' = "idle" /\ left' = left
        /\ stack' = [stack EXCEPT !.vals = <<>>] /\ stack \in Stacks
    BY <1>0, <1>3 DEF Started, PassOver, Rest, TypeOK
  <2>2. Holding /\ Held = Cur /\ Held' = Held /\ pass.on = Held
    BY <1>0, <2>1, HeldIs DEF Holding, Held, Cur
  <2>3. LeftTraced'
    BY <1>0, <2>1, <2>2, HeldOn
  <2>4. Steady'
    <3> SUFFICES ASSUME NEW p \in PlumbingNames, NEW st, p = Held, Sound(p)',
                        TraceOf(plumbing'[p].pipes, st)
                 PROVE  Plays(p, st)'
      BY <2>2 DEF Steady
    <3>1. Plays(p, st)
      BY <1>0, <2>1, <2>2, HeldOn
    <3>2. /\ pass.at <= Len(plumbing[p].pipes) + 1 /\ ReadyTo(p, pass.at - 1) /\ stack.error = FALSE
      BY <2>1, <3>1 DEF Plays
    <3>3. pass.at - 1 = Len(plumbing[p].pipes)
      BY <2>1, <2>2, <3>2, PassEnds
    <3>4. stack'.vals = <<>> /\ stack'.error = FALSE
      BY <2>1, <3>2 DEF Stacks
    <3> QED
      BY <1>0, <2>1, <3>2, <3>3, <3>4 DEF Plays, ReadyTo
  <2> QED
    BY <1>1, <2>3, <2>4
<1>4. CASE Sample
  <2>1. /\ pc = "idle" /\ left' = left /\ stack' = stack /\ pc' = "pass" /\ stack \in Stacks
        /\ pass'.at = 1 /\ pass'.then = "sample"
    BY <1>0, <1>4 DEF Sample, Begin, PLUMBER_COMPUTE, PLUMBER_DESTROY, TypeOK
  <2>2. Holding /\ Held = Cur /\ Held' = Held
    BY <1>0, <2>1 DEF Holding, Held, Cur
  <2>3. LeftTraced'
    BY <1>0, <2>1, <2>2, HeldOn
  <2>4. Steady'
    <3> SUFFICES ASSUME NEW p \in PlumbingNames, NEW st, p = Held, Sound(p)',
                        TraceOf(plumbing'[p].pipes, st)
                 PROVE  Plays(p, st)'
      BY <2>2 DEF Steady
    <3>1. Plays(p, st) /\ Sound(p) /\ TraceOf(plumbing[p].pipes, st)
      BY <1>0, <2>1, <2>2, HeldOn
    <3>2. /\ ReadyTo(p, Len(plumbing[p].pipes)) /\ stack.error = FALSE
          /\ stack.vals \in {<<>>, left.vals}
      BY <2>1, <3>1 DEF Plays, Stacks
    <3>3. left.vals = Repeated(FLOAT, nchan) /\ nchan \in Nat
      BY <2>2, <3>1, LeftEnds
    <3>4. st[0] = <<>> /\ Len(plumbing[p].pipes) \in Nat
      BY <1>0, <3>1 DEF TraceOf, TypeOK, Plumbings
    <3>5. Times(FLOAT, st[0]) = 0
      BY <3>4, FS_EmptySet DEF Times
    <3>6. Repeated(FLOAT, 0) = <<>>
      BY DEF Repeated
    <3>7. \E b \in {0, nchan} : stack.vals = Repeated(FLOAT, b + 0)
      BY <3>2, <3>3, <3>6
    <3>8. \E b \in {0, nchan} :
            stack = [vals |-> Repeated(FLOAT, b + Times(FLOAT, st[0])), error |-> FALSE]
      BY <2>1, <3>2, <3>5, <3>7 DEF Stacks
    <3>9. pass'.at - 1 = 0 /\ pass'.at <= Len(plumbing'[p].pipes) + 1
      BY <1>0, <2>1, <3>4
    <3> QED
      BY <1>0, <2>1, <3>2, <3>8, <3>9 DEF Plays, ReadyTo
  <2> QED
    BY <1>1, <2>3, <2>4
<1>5. CASE Sampled
  <2>1. /\ pc = "pass" /\ pass.then = "sample" /\ PassOver("sample") /\ pc' = "idle" /\ left' = left
        /\ stack' = PopAll(stack, Repeated("f", nchan)) /\ stack \in Stacks
    BY <1>0, <1>5 DEF Sampled, PassOver, Rest, TypeOK, Repeated
  <2>2. Holding /\ Held = Cur /\ Held' = Held /\ pass.on = Held
    BY <1>0, <2>1, HeldIs DEF Holding, Held, Cur
  <2>3. LeftTraced'
    BY <1>0, <2>1, <2>2, HeldOn
  <2>4. Steady'
    <3> SUFFICES ASSUME NEW p \in PlumbingNames, NEW st, p = Held, Sound(p)',
                        TraceOf(plumbing'[p].pipes, st)
                 PROVE  Plays(p, st)'
      BY <2>2 DEF Steady
    <3>1. Sound(p)
      BY <1>0, <2>1, <2>2, HeldOn
    <3>2. PICK r : /\ TraceOf(plumbing[p].pipes, r) /\ Plays(p, r)
                   /\ r[Len(plumbing[p].pipes)] = left.vals
      BY <2>2, <3>1, LeftEnds
    <3>3. /\ left.vals = Repeated(FLOAT, nchan) /\ nchan \in Nat /\ Times(FLOAT, left.vals) = nchan
      BY <2>2, <3>1, LeftEnds
    <3>4. /\ pass.at <= Len(plumbing[p].pipes) + 1 /\ ReadyTo(p, Len(plumbing[p].pipes))
          /\ \E b \in {0, nchan} :
               stack = [vals |-> Repeated(FLOAT, b + Times(FLOAT, r[pass.at - 1])), error |-> FALSE]
      BY <2>1, <3>2 DEF Plays
    <3>5. pass.at - 1 = Len(plumbing[p].pipes)
      BY <2>1, <2>2, <3>4, PassEnds
    <3>6. PICK b \in {0, nchan} : stack = [vals |-> Repeated(FLOAT, b + nchan), error |-> FALSE]
      BY <3>2, <3>3, <3>4, <3>5
    <3> DEFINE n == b + nchan
    <3>7. n \in Nat /\ nchan \in 0 .. n /\ n - nchan = b /\ FLOAT \in Values
      BY <3>3 DEF Values
    <3> HIDE DEF n
    <3>8. stack = [vals |-> Repeated(FLOAT, n), error |-> FALSE]
      BY <3>6 DEF n
    <3>9. n <= SPORTH_STACK_SIZE
      <4>1. stack.vals = Repeated(FLOAT, n)
        BY <3>8
      <4>2. Len(Repeated(FLOAT, n)) = n
        BY <3>7, RepeatedType
      <4>3. Len(stack.vals) <= SPORTH_STACK_SIZE
        BY <2>1 DEF Stacks
      <4> QED
        BY <4>1, <4>2, <4>3
    <3>10. PopAll([vals |-> Repeated(FLOAT, n), error |-> FALSE], Repeated("f", nchan))
             = [vals |-> Repeated(FLOAT, n - nchan), error |-> FALSE]
      BY <3>7, <3>9, PopFloats
    <3>11. stack' = [vals |-> Repeated(FLOAT, b), error |-> FALSE]
      BY <2>1, <3>7, <3>8, <3>10
    <3>12. Repeated(FLOAT, 0) = <<>>
      BY DEF Repeated
    <3>13. stack'.vals \in {<<>>, left'.vals} /\ stack'.error = FALSE
      BY <2>1, <3>3, <3>11, <3>12
    <3> QED
      BY <1>0, <2>1, <3>4, <3>13 DEF Plays, ReadyTo
  <2> QED
    BY <1>1, <2>3, <2>4
<1> QED
  BY <1>2, <1>3, <1>4, <1>5

\* A recompilation, up to the end of the parse and of its DESTROY pass.
LEMMA SwapSteady ==
  ASSUME Inv, Inv', ParseTraced, LeftTraced, Steady,
         plumber_reinit \/ Revert \/ Reverted \/ Commit
  PROVE  ParseTraced' /\ LeftTraced' /\ Steady'
<1>0. /\ TypeOK /\ TypeOK' /\ Roles /\ Lifetimes
      /\ Cur # Old /\ PlumbingNames = {Cur, Old} /\ 1 - (1 - current_pipe) = current_pipe
      /\ plumbing \in [PlumbingNames -> Plumbings]
  BY PairsDiffer DEF Inv, TypeOK
<1>1. /\ current_pipe' = current_pipe => Cur' = Cur /\ Old' = Old
      /\ current_pipe' = 1 - current_pipe => Cur' = Old /\ Old' = Cur
  BY <1>0 DEF Cur, Old
<1>2. CASE plumber_reinit
  <2>1. /\ pc = "idle" /\ pc' = "reparse" /\ left' = left /\ stack' = sporth_stack_init
        /\ current_pipe' = 1 - current_pipe /\ tmp' = Old
        /\ plumbing' = [plumbing EXCEPT ![Old] = plumbing_init]
    BY <1>2 DEF plumber_reinit, Old
  <2>2. Held = Cur /\ Held' = Cur /\ Holding
    BY <1>1, <2>1 DEF Held, Holding
  <2>3. plumbing'[Cur] = plumbing[Cur] /\ plumbing'[Old] = plumbing_init
    BY <1>0, <2>1
  <2>4. ParseTraced'
    <3>1. plumbing'[tmp'].pipes = <<>> /\ stack'.vals = <<>>
      BY <2>1, <2>3 DEF plumbing_init, sporth_stack_init
    <3> DEFINE st == [n \in 0 .. 0 |-> <<>>]
    <3>2. TraceOf(<<>>, st) /\ st[Len(<<>>)] = <<>>
      <4>1. <<>> \in Seq(Values) /\ Len(<<>>) = 0
        OBVIOUS
      <4> QED
        BY <4>1 DEF TraceOf
    <3> HIDE DEF st
    <3> QED
      BY <3>1, <3>2 DEF ParseTraced
  <2>5. LeftTraced'
    BY <2>1, <2>2, <2>3, HeldOn
  <2>6. Steady'
    <3> SUFFICES ASSUME NEW p \in PlumbingNames, NEW st, p = Held, Sound(p)',
                        TraceOf(plumbing'[p].pipes, st)
                 PROVE  Plays(p, st)'
      BY <2>2 DEF Steady
    <3>1. Plays(p, st) /\ plumbing'[p].pipes = plumbing[p].pipes
      BY <2>1, <2>2, <2>3, HeldOn
    <3>2. ReadyTo(p, Len(plumbing[p].pipes))
      BY <2>1, <3>1 DEF Plays
    <3> QED
      BY <2>1, <3>1, <3>2 DEF Plays, ReadyTo
  <2> QED
    BY <2>4, <2>5, <2>6
<1>3. CASE Revert
  <2>1. /\ pc = "reparse" /\ pc' = "pass" /\ pass'.then = "revert" /\ left' = left
        /\ current_pipe' = current_pipe /\ plumbing' = plumbing
    BY <1>3 DEF Revert, Begin
  <2>2. Held = Old /\ Held' = Old /\ Holding
    BY <1>1, <2>1 DEF Held, Holding
  <2>3. ParseTraced'
    BY <2>1 DEF ParseTraced
  <2>4. LeftTraced'
    BY <2>1, <2>2, HeldOn
  <2>5. Steady'
    <3> SUFFICES ASSUME NEW p \in PlumbingNames, NEW st, p = Held, Sound(p)',
                        TraceOf(plumbing'[p].pipes, st)
                 PROVE  Plays(p, st)'
      BY <2>2 DEF Steady
    <3>1. Plays(p, st)
      BY <2>1, <2>2, HeldOn
    <3>2. ReadyTo(p, Len(plumbing[p].pipes))
      BY <2>1, <3>1 DEF Plays
    <3> QED
      BY <2>1, <3>1, <3>2 DEF Plays, ReadyTo
  <2> QED
    BY <2>3, <2>4, <2>5
<1>4. CASE Reverted
  <2>1. /\ pc = "pass" /\ pass.then = "revert" /\ pc' = "idle" /\ left' = left
        /\ stack' = sporth_stack_init /\ current_pipe' = 1 - current_pipe
        /\ FreePipes(tmp) /\ tmp = Cur
    BY <1>0, <1>4 DEF Reverted, PassOver, Rest, Roles, PassRoles, Compiled
  <2>2. Held = Old /\ Held' = Old /\ Holding
    BY <1>1, <2>1 DEF Held, Holding
  <2>3. plumbing'[Old] = plumbing[Old]
    BY <1>0, <2>1, FreeEffect
  <2>4. ParseTraced'
    BY <2>1 DEF ParseTraced
  <2>5. LeftTraced'
    BY <2>1, <2>2, <2>3, HeldOn
  <2>6. Steady'
    <3> SUFFICES ASSUME NEW p \in PlumbingNames, NEW st, p = Held, Sound(p)',
                        TraceOf(plumbing'[p].pipes, st)
                 PROVE  Plays(p, st)'
      BY <2>2 DEF Steady
    <3>1. Plays(p, st) /\ plumbing'[p].pipes = plumbing[p].pipes
      BY <2>1, <2>2, <2>3, HeldOn
    <3>2. ReadyTo(p, Len(plumbing[p].pipes))
      BY <2>1, <3>1 DEF Plays
    <3> QED
      BY <2>1, <3>1, <3>2 DEF Plays, ReadyTo, sporth_stack_init
  <2> QED
    BY <2>4, <2>5, <2>6
<1>5. CASE Commit
  <2>1. /\ pc = "reparse" /\ pc' = "pass" /\ pass'.then = "commit" /\ left' = stack
        /\ current_pipe' = current_pipe /\ plumbing' = plumbing /\ tmp = Cur
    BY <1>0, <1>5 DEF Commit, Begin, Roles, Compiled
  <2>2. Held' = Cur
    BY <1>1, <2>1 DEF Held
  <2>3. LeftTraced'
    BY <2>1, <2>2 DEF LeftTraced, ParseTraced
  <2>4. ParseTraced' /\ Steady'
    BY <2>1 DEF ParseTraced, Steady, Plays
  <2> QED
    BY <2>3, <2>4
<1> QED
  BY <1>2, <1>3, <1>4, <1>5

\* The new patch takes over, and the end.
LEMMA TakeoverSteady ==
  ASSUME Inv, Inv', ParseTraced, LeftTraced, Steady,
         Committed \/ Resumed \/ Clean \/ Cleaned
  PROVE  ParseTraced' /\ LeftTraced' /\ Steady'
<1>0. /\ TypeOK /\ TypeOK' /\ Roles /\ Lifetimes
      /\ Cur # Old /\ PlumbingNames = {Cur, Old}
      /\ plumbing \in [PlumbingNames -> Plumbings] /\ UNCHANGED current_pipe
  BY PairsDiffer DEF Inv, TypeOK, Committed, Resumed, Clean, Cleaned
<1>1. Cur' = Cur /\ Old' = Old /\ pc' \in {"pass", "idle", "stopped"}
  BY <1>0 DEF Cur, Old, Committed, Resumed, Clean, Cleaned, Begin, Rest
<1>2. ParseTraced'
  BY <1>1 DEF ParseTraced
<1>3. CASE Committed
  <2>1. /\ pc = "pass" /\ pass.then = "commit" /\ pc' = "pass" /\ left' = left
        /\ pass'.at = 1 /\ pass'.then = "resume" /\ stack' = stack
        /\ FreePipes(Old) /\ mode = PLUMBER_DESTROY
    BY <1>0, <1>3 DEF Committed, PassOver, Begin, Roles, PassRoles, PLUMBER_INIT, PLUMBER_DESTROY
  <2>2. Held = Cur /\ Held' = Cur /\ Holding
    BY <1>1, <2>1 DEF Held, Holding
  <2>3. plumbing'[Cur] = plumbing[Cur] /\ stack' = sporth_stack_init
    BY <1>0, <2>1, FreeEffect DEF Lifetimes
  <2>4. LeftTraced'
    BY <2>1, <2>2, <2>3, HeldOn
  <2>5. Steady'
    <3> SUFFICES ASSUME NEW p \in PlumbingNames, NEW st, p = Held, Sound(p)',
                        TraceOf(plumbing'[p].pipes, st)
                 PROVE  Plays(p, st)'
      BY <2>2 DEF Steady
    <3>1. TraceOf(plumbing[p].pipes, st) /\ plumbing'[p].pipes = plumbing[p].pipes
      BY <2>1, <2>2, <2>3, HeldOn
    <3>2. st[0] = <<>> /\ Len(plumbing[p].pipes) \in Nat
      BY <1>0, <3>1 DEF TraceOf, Plumbings
    <3>3. <<>> \o <<>> = <<>>
      OBVIOUS
    <3>4. stack' = [vals |-> <<>> \o st[0], error |-> FALSE]
      BY <2>3, <3>2, <3>3 DEF sporth_stack_init
    <3>5. pass'.at - 1 = 0 /\ pass'.at <= Len(plumbing'[p].pipes) + 1
      BY <2>1, <3>1, <3>2
    <3> QED
      BY <2>1, <3>4, <3>5 DEF Plays, ReadyTo
  <2> QED
    BY <1>2, <2>4, <2>5
<1>4. CASE Resumed
  <2>1. /\ pc = "pass" /\ pass.then = "resume" /\ PassOver("resume") /\ pc' = "idle" /\ left' = left
        /\ stack' = stack /\ plumbing' = plumbing
    BY <1>0, <1>4 DEF Resumed, PassOver, Rest
  <2>2. Held = Cur /\ Held' = Cur /\ Holding /\ pass.on = Held
    BY <1>1, <2>1, HeldIs DEF Held, Holding
  <2>3. LeftTraced'
    BY <2>1, <2>2, HeldOn
  <2>4. Steady'
    <3> SUFFICES ASSUME NEW p \in PlumbingNames, NEW st, p = Held, Sound(p)',
                        TraceOf(plumbing'[p].pipes, st)
                 PROVE  Plays(p, st)'
      BY <2>2 DEF Steady
    <3>1. Sound(p)
      BY <2>1, <2>2, HeldOn
    <3>2. PICK r : /\ TraceOf(plumbing[p].pipes, r) /\ Plays(p, r)
                   /\ r[Len(plumbing[p].pipes)] = left.vals
      BY <2>2, <3>1, LeftEnds
    <3>3. left.vals \in Seq(Values)
      BY <2>2, <3>1, LeftEnds
    <3>4. /\ pass.at <= Len(plumbing[p].pipes) + 1 /\ ReadyTo(p, pass.at - 1)
          /\ stack = [vals |-> <<>> \o r[pass.at - 1], error |-> FALSE]
      BY <2>1, <3>2 DEF Plays
    <3>5. pass.at - 1 = Len(plumbing[p].pipes)
      BY <2>1, <2>2, <3>4, PassEnds
    <3>6. <<>> \o left.vals = left.vals
      BY <3>3, ConcatEmptySeq
    <3>7. stack'.vals = left'.vals /\ stack'.error = FALSE
      BY <2>1, <3>2, <3>4, <3>5, <3>6
    <3> QED
      BY <2>1, <3>4, <3>5, <3>7 DEF Plays, ReadyTo
  <2> QED
    BY <1>2, <2>3, <2>4
<1>5. CASE Clean \/ Cleaned
  <2>1. ~Holding'
    BY <1>5 DEF Clean, Cleaned, Begin, Holding
  <2> QED
    BY <1>2, <2>1 DEF LeftTraced, Steady
<1> QED
  BY <1>3, <1>4, <1>5

\* What every patch that plays was parsed to, and how far it got: together
\* with Inv this is inductive.
PlayInv == Inv /\ ParseTraced /\ LeftTraced /\ Steady

\* It holds after plumber_init: nothing plays yet, and nothing is on the stack.
LEMMA PlayInit == Init => PlayInv
<1> SUFFICES ASSUME Init PROVE PlayInv
  OBVIOUS
<1>1. Inv
  BY InvInit
<1>2. pc = "parse" /\ tmp = "main" /\ plumbing["main"] = plumbing_init /\ stack = sporth_stack_init
  BY DEF Init
<1>3. plumbing[tmp].pipes = <<>> /\ stack.vals = <<>>
  BY <1>2 DEF plumbing_init, sporth_stack_init
<1> DEFINE st == [n \in 0 .. 0 |-> <<>>]
<1>4. TraceOf(<<>>, st) /\ st[Len(<<>>)] = <<>>
  <2>1. <<>> \in Seq(Values) /\ Len(<<>>) = 0
    OBVIOUS
  <2> QED
    BY <2>1 DEF TraceOf
<1> HIDE DEF st
<1>5. ParseTraced
  BY <1>3, <1>4 DEF ParseTraced
<1>6. LeftTraced /\ Steady
  BY <1>2 DEF LeftTraced, Steady, Holding
<1> QED
  BY <1>1, <1>5, <1>6 DEF PlayInv

\* Every step keeps it.
LEMMA PlayNext == PlayInv /\ [Next]_vars => PlayInv'
<1> SUFFICES ASSUME PlayInv, [Next]_vars PROVE PlayInv'
  OBVIOUS
<1>1. Inv /\ Inv' /\ ParseTraced /\ LeftTraced /\ Steady
  BY InvNext DEF PlayInv
<1>2. CASE Lex
  BY <1>1, <1>2, LexSteady DEF PlayInv
<1>3. CASE Step
  BY <1>1, <1>3, StepSteady DEF PlayInv
<1>4. CASE Start \/ Started \/ Sample \/ Sampled
  BY <1>1, <1>4, PlaySteady DEF PlayInv
<1>5. CASE plumber_reinit \/ Revert \/ Reverted \/ Commit
  BY <1>1, <1>5, SwapSteady DEF PlayInv
<1>6. CASE Committed \/ Resumed \/ Clean \/ Cleaned
  BY <1>1, <1>6, TakeoverSteady DEF PlayInv
<1>7. CASE UNCHANGED vars
  <2>1. /\ ParseTraced' = ParseTraced /\ Holding' = Holding /\ Held' = Held
        /\ plumbing' = plumbing /\ left' = left /\ stack' = stack /\ pc' = pc /\ pass' = pass
    BY <1>7 DEF vars, ParseTraced, Holding, Held, Cur, Old
  <2>2. LeftTraced'
    BY <1>1, <2>1 DEF LeftTraced
  <2>3. Steady'
    <3> SUFFICES ASSUME Holding, NEW p \in PlumbingNames, NEW st, p = Held, Sound(p)',
                        TraceOf(plumbing[p].pipes, st)
                 PROVE  Plays(p, st)'
      BY <2>1 DEF Steady
    <3>1. Sound(p)
      BY <2>1 DEF Sound
    <3>2. Plays(p, st)
      BY <1>1, <3>1 DEF Steady
    <3> QED
      BY <2>1, <3>2 DEF Plays, ReadyTo
  <2> QED
    BY <1>1, <2>1, <2>2, <2>3 DEF PlayInv
<1> QED
  BY <1>2, <1>3, <1>4, <1>5, <1>6, <1>7 DEF Next

\* So it always holds.
LEMMA PlayInvariant == Spec => []PlayInv
  BY PlayInit, PlayNext, PTL DEF Spec

(* What the parse accepted runs, for every table of ugens and every        *)
(* program: if the handlers of the patch do in INIT and COMPUTE what they  *)
(* did in CREATE and there is room (Sound), no pass raises an error, and   *)
(* between samples the stack holds nothing but what INIT left.             *)
THEOREM RunsCleanHolds == Spec => []RunsClean
<1>1. PlayInv => RunsClean
  <2> SUFFICES ASSUME PlayInv PROVE RunsClean
    OBVIOUS
  <2>1. Inv /\ LeftTraced /\ Steady /\ Roles /\ stack.error \in BOOLEAN
    BY DEF PlayInv, Inv, TypeOK, Stacks
  <2>2. ASSUME pc = "pass", mode \in {PLUMBER_INIT, PLUMBER_COMPUTE}, Sound(pass.on)
        PROVE  ~stack.error
    <3>1. pass.then \in {"start", "sample", "resume"}
      BY <2>1, <2>2 DEF Roles, PassRoles, PLUMBER_INIT, PLUMBER_COMPUTE, PLUMBER_DESTROY
    <3>2. Holding /\ pass.on = Held /\ Held \in PlumbingNames
      BY <2>1, <2>2, <3>1, HeldIs DEF Holding
    <3>3. PICK p \in PlumbingNames : p = Held
      BY <3>2
    <3>4. Sound(p)
      BY <2>2, <3>2, <3>3
    <3>5. PICK st : TraceOf(plumbing[p].pipes, st) /\ Plays(p, st)
      BY <2>1, <3>2, <3>3, <3>4, LeftEnds
    <3>6. CASE pass.then \in {"start", "resume"}
      <4> DEFINE v == (IF pass.then = "start" THEN left.vals ELSE <<>>) \o st[pass.at - 1]
      <4>1. stack = [vals |-> v, error |-> FALSE]
        BY <2>2, <3>5, <3>6 DEF Plays
      <4> HIDE DEF v
      <4> QED
        BY <4>1
    <3>7. CASE pass.then = "sample"
      <4>1. \E b \in {0, nchan} :
              stack = [vals |-> Repeated(FLOAT, b + Times(FLOAT, st[pass.at - 1])), error |-> FALSE]
        BY <2>2, <3>5, <3>7 DEF Plays
      <4> QED
        BY <4>1
    <3> QED
      BY <3>1, <3>6, <3>7
  <2>3. ASSUME pc = "idle", Sound(pipes)
        PROVE  stack.vals \in {<<>>, left.vals} /\ ~stack.error
    <3>1. Holding /\ pipes = Held /\ Held \in PlumbingNames
      BY <2>1, <2>3, HeldIs DEF Holding, Held, Roles
    <3>2. PICK p \in PlumbingNames : p = Held
      BY <3>1
    <3>3. Sound(p)
      BY <2>3, <3>1, <3>2
    <3>4. PICK st : TraceOf(plumbing[p].pipes, st) /\ Plays(p, st)
      BY <2>1, <3>1, <3>2, <3>3, LeftEnds
    <3> QED
      BY <2>3, <3>4 DEF Plays
  <2> QED
    BY <2>2, <2>3 DEF RunsClean
<1> QED
  BY <1>1, PlayInvariant, PTL

---------------------------------------------------------------------------
(* What keeps COMPUTE from the ugens that INIT did not set up.             *)

Unready(x) == x.type = "ugen" /\ x.life # "ready" /\ ~Exposed(x.ud)

\* In INIT those that the pass has left behind are guarded, and the stack is
\* in error; it stays so until a refused recompilation has built elsewhere.
Barred ==
  LET q == plumbing[Cur].pipes IN
  /\ pc = "pass" /\ pass.then \in {"start", "resume"} =>
       \A i \in 1 .. Len(q) : i < pass.at /\ Unready(q[i]) => Sig[q[i].ud].guard /\ stack.error
  /\ pc = "idle" \/ (pc = "pass" /\ pass.then = "sample") =>
       \A i \in 1 .. Len(q) : Unready(q[i]) => (Sig[q[i].ud].guard /\ stack.error) \/ tmp # Cur

\* No pipe takes an error back in INIT or COMPUTE.
LEMMA StepError ==
  ASSUME TypeOK, Step, stack.error
  PROVE  stack'.error
<1>1. stack \in Stacks
  BY DEF TypeOK
<1>2. InPass /\ Pipe \in Pipes
  BY StepFrame, PipeType
<1>3. CASE StepValue
  <2>1. Pipe.ud \in Values
    BY <1>2, <1>3 DEF StepValue, Pipes
  <2> QED
    BY <1>1, <1>3, <2>1, ErrorStays DEF StepValue
<1>4. CASE StepSkipped \/ StepDestroy
  BY <1>4 DEF StepSkipped, StepDestroy
<1>5. CASE StepInit \/ StepInitMissing \/ StepInitQuits \/ StepCompute
  <2>1. Pipe.type = "ugen"
    BY <1>5 DEF StepInit, StepInitMissing, StepInitQuits, StepCompute, InHandler
  <2>2. /\ Sig[Pipe.ud].init \in Effects /\ Sig[Pipe.ud].compute \in Effects
        /\ Sig[Pipe.ud].init.pop \in Seq(Types)
    BY <1>2, <2>1, SigType DEF Pipes, Effects
  <2>3. PopAll(stack, Sig[Pipe.ud].init.pop) \in Stacks /\ PopAll(stack, Sig[Pipe.ud].init.pop).error
    BY <1>1, <2>2, PopAllType, ErrorStays
  <2>4. CASE StepInit
    BY <1>1, <2>2, <2>4, ErrorStays DEF StepInit
  <2>5. CASE StepInitMissing
    BY <2>3, <2>5, ErrorStays DEF StepInitMissing
  <2>6. CASE StepInitQuits
    BY <2>3, <2>6 DEF StepInitQuits
  <2>7. CASE StepCompute
    BY <1>1, <2>2, <2>7, ErrorStays DEF StepCompute
  <2> QED
    BY <1>5, <2>4, <2>5, <2>6, <2>7
<1> QED
  BY <1>3, <1>4, <1>5 DEF Step

\* INIT sets a ugen up, or it is exposed, or an error bars it from COMPUTE.
LEMMA InitBars ==
  ASSUME TypeOK, Step, mode = PLUMBER_INIT
  PROVE  LET x == plumbing'[pass.on].pipes[pass.at]
         IN  Unready(x) => Sig[x.ud].guard /\ stack'.error
<1> DEFINE q == plumbing[pass.on].pipes
           x == plumbing'[pass.on].pipes[pass.at]
<1>1. /\ InPass /\ Pipe \in Pipes /\ pass.on \in PlumbingNames /\ pass.at \in 1 .. Len(q)
      /\ stack \in Stacks /\ q \in Seq(Pipes) /\ Pipe = q[pass.at]
  BY StepFrame, PipeType DEF TypeOK, Plumbings, Pipe
<1>2. SameText(q, plumbing'[pass.on].pipes)
  BY <1>1, StepText
<1>3. x.type = Pipe.type /\ x.ud = Pipe.ud
  BY <1>1, <1>2 DEF SameText
<1>4. CASE Live("ready")
  <2>1. plumbing'[pass.on].pipes = [q EXCEPT ![pass.at] = [@ EXCEPT !.life = "ready"]]
    BY <1>1, <1>4, LiveEffect
  <2>2. x = [Pipe EXCEPT !.life = "ready"]
    BY <1>1, <2>1
  <2>3. x.life = "ready"
    BY <1>1, <2>2 DEF Pipes
  <2> QED
    BY <2>3 DEF Unready
<1>5. CASE StepValue
  BY <1>3, <1>5 DEF StepValue, Unready
<1>6. CASE StepSkipped
  <2>1. stack' = stack /\ ~Entered(Pipe.ud)
    BY <1>6 DEF StepSkipped
  <2> QED
    BY <1>3, <2>1 DEF Entered
<1>7. CASE StepInitMissing
  <2>1. Sig[Pipe.ud].init.finds # {}
    BY <1>7 DEF StepInitMissing, FindsAll
  <2>2. stack'.error
    <3>1. Pipe.type = "ugen"
      BY <1>7 DEF StepInitMissing, InHandler
    <3>2. Sig[Pipe.ud].init.pop \in Seq(Types)
      BY <1>1, <3>1, SigType DEF Pipes, Effects
    <3>3. PopAll(stack, Sig[Pipe.ud].init.pop) \in Stacks
      BY <1>1, <3>2, PopAllType
    <3>4. Raise(PopAll(stack, Sig[Pipe.ud].init.pop)).error
      BY <3>3 DEF Raise, Stacks
    <3> QED
      BY <1>7, <3>4 DEF StepInitMissing
  <2>3. Sig[Pipe.ud].guard \/ Exposed(Pipe.ud)
    BY <2>1 DEF Exposed
  <2> QED
    BY <1>3, <2>2, <2>3 DEF Unready
<1>8. CASE StepInitQuits
  <2>1. Exposed(Pipe.ud)
    BY <1>8 DEF StepInitQuits, Exposed
  <2> QED
    BY <1>3, <2>1 DEF Unready
<1>9. Live("ready") \/ StepValue \/ StepSkipped \/ StepInitMissing \/ StepInitQuits
  BY DEF Step, StepInit, StepCompute, StepDestroy, InHandler,
         PLUMBER_INIT, PLUMBER_COMPUTE, PLUMBER_DESTROY
<1> QED
  BY <1>4, <1>5, <1>6, <1>7, <1>8, <1>9

\* A pipe of a pass.
LEMMA StepBarred ==
  ASSUME Inv, Barred, Step
  PROVE  Barred'
<1> DEFINE q == plumbing[Cur].pipes
           r == plumbing'[Cur].pipes
<1>1. TypeOK /\ Roles
  BY DEF Inv
<1>2. /\ InPass /\ pc = "pass" /\ UNCHANGED <<pc, mode, tmp, current_pipe>>
      /\ pass' = [pass EXCEPT !.at = @ + 1] /\ pass \in Passes
  BY <1>1, StepFrame DEF InPass, pointers, TypeOK
<1>3. /\ pass'.then = pass.then /\ pass'.at = pass.at + 1 /\ pass'.on = pass.on
      /\ pass.at \in Nat \ {0} /\ Cur' = Cur /\ Cur \in PlumbingNames
  BY <1>1, <1>2, PairsDiffer DEF Passes, Cur
<1>4. SameText(q, r) /\ Len(q) \in Nat
  BY <1>1, <1>3, StepText DEF TypeOK, Plumbings
<1>5. Len(r) = Len(q) /\ \A i \in 1 .. Len(q) : r[i].type = q[i].type /\ r[i].ud = q[i].ud
  BY <1>4 DEF SameText
<1>6. stack.error => stack'.error
  BY <1>1, StepError
<1>7. CASE pass.then \in {"start", "resume"}
  <2>1. pass.on = Cur /\ mode = PLUMBER_INIT
    BY <1>1, <1>2, <1>7 DEF Roles, PassRoles
  <2>2. ASSUME NEW i \in 1 .. Len(r), i < pass.at + 1, Unready(r[i])
        PROVE  Sig[r[i].ud].guard /\ stack'.error
    <3>1. CASE i = pass.at
      BY <1>1, <2>1, <2>2, <3>1, InitBars
    <3>2. CASE i # pass.at
      <4>1. i < pass.at /\ i \in 1 .. Len(q)
        BY <1>3, <1>5, <2>2, <3>2
      <4>2. r[i] = q[i]
        BY <1>1, <2>1, <3>2, <4>1, StepText
      <4> QED
        BY <1>2, <1>6, <1>7, <2>2, <4>1, <4>2 DEF Barred
    <3> QED
      BY <3>1, <3>2
  <2> QED
    BY <1>2, <1>3, <1>7, <2>2 DEF Barred
<1>8. CASE pass.then = "sample"
  <2>1. pass.on = Cur /\ mode = PLUMBER_COMPUTE
    BY <1>1, <1>2, <1>8 DEF Roles, PassRoles
  <2>2. UNCHANGED plumbing
    BY <2>1 DEF Step, StepValue, StepSkipped, StepInit, StepInitMissing, StepInitQuits, StepCompute,
       StepDestroy, InHandler, PLUMBER_INIT, PLUMBER_COMPUTE, PLUMBER_DESTROY
  <2> QED
    BY <1>2, <1>3, <1>6, <1>8, <2>2 DEF Barred
<1>9. CASE pass.then \notin {"start", "resume", "sample"}
  BY <1>2, <1>3, <1>9 DEF Barred
<1> QED
  BY <1>7, <1>8, <1>9

\* The host's calls.
LEMMA HostBarred ==
  ASSUME Inv, Barred,
         Start \/ Started \/ Sample \/ Sampled \/ plumber_reinit \/ Revert \/ Reverted
         \/ Commit \/ Committed \/ Resumed \/ Clean \/ Cleaned
  PROVE  Barred'
<1>1. TypeOK /\ Roles /\ stack \in Stacks
  BY DEF Inv, TypeOK
<1>2. CASE Start \/ Committed
  <2>1. pc' = "pass" /\ pass'.at = 1 /\ pass'.then \in {"start", "resume"}
    BY <1>2 DEF Start, Committed, Begin
  <2>2. \A n \in Nat \ {0} : ~(n < 1)
    OBVIOUS
  <2> QED
    BY <2>1, <2>2 DEF Barred
<1>3. CASE Started \/ Resumed
  <2>1. /\ pc = "pass" /\ pass.then \in {"start", "resume"} /\ pc' = "idle"
        /\ UNCHANGED <<plumbing, tmp, current_pipe>> /\ stack'.error = stack.error
        /\ pass.at > Len(plumbing[pass.on].pipes)
    BY <1>1, <1>3 DEF Started, Resumed, PassOver, Rest, Stacks
  <2>2. pass.on = Cur /\ Cur' = Cur
    BY <1>1, <2>1 DEF Roles, PassRoles, Cur
  <2>3. /\ pass.at \in Nat /\ Len(plumbing[Cur].pipes) \in Nat
    BY <1>1, PairsDiffer DEF TypeOK, Passes, Plumbings
  <2>4. \A i \in 1 .. Len(plumbing[Cur].pipes) : i < pass.at
    BY <2>1, <2>2, <2>3
  <2> QED
    BY <2>1, <2>2, <2>4 DEF Barred
<1>4. CASE Sample
  <2>1. /\ pc = "idle" /\ pc' = "pass" /\ pass'.then = "sample"
        /\ UNCHANGED <<plumbing, tmp, current_pipe, stack>>
    BY <1>4 DEF Sample, Begin, PLUMBER_COMPUTE, PLUMBER_DESTROY
  <2> QED
    BY <2>1 DEF Barred, Cur
<1>5. CASE Sampled
  <2>1. /\ pc = "pass" /\ pass.then = "sample" /\ pc' = "idle"
        /\ UNCHANGED <<plumbing, tmp, current_pipe>> /\ (stack.error => stack'.error)
    BY <1>1, <1>5, ErrorStays DEF Sampled, PassOver, Rest
  <2> QED
    BY <2>1 DEF Barred, Cur
<1>6. CASE Reverted
  <2>1. /\ pc = "pass" /\ pass.then = "revert" /\ pc' = "idle" /\ tmp' = tmp
        /\ current_pipe' = 1 - current_pipe
    BY <1>6 DEF Reverted, PassOver, Rest
  <2>2. tmp = Cur /\ Cur' = Old
    BY <1>1, <2>1 DEF Roles, PassRoles, Compiled, Cur, Old
  <2>3. tmp' # Cur'
    BY <1>1, <2>1, <2>2, PairsDiffer
  <2> QED
    BY <2>1, <2>3 DEF Barred
<1>7. CASE plumber_reinit \/ Revert \/ Commit \/ Clean \/ Cleaned
  <2>1. \/ pc' \in {"reparse", "stopped"}
        \/ pc' = "pass" /\ pass'.then \in {"revert", "commit", "clean"}
    <3>1. CASE plumber_reinit
      BY <3>1 DEF plumber_reinit
    <3>2. CASE Revert
      BY <3>2 DEF Revert, Begin
    <3>3. CASE Commit
      BY <3>3 DEF Commit, Begin
    <3>4. CASE Clean
      BY <3>4 DEF Clean, Begin
    <3>5. CASE Cleaned
      BY <3>5 DEF Cleaned
    <3> QED
      BY <1>7, <3>1, <3>2, <3>3, <3>4, <3>5
  <2> QED
    BY <2>1 DEF Barred
<1> QED
  BY <1>2, <1>3, <1>4, <1>5, <1>6, <1>7

\* So it always holds.
LEMMA BarredInvariant == Spec => []Barred
<1>1. Init => Barred
  BY DEF Init, Barred
<1>2. Inv /\ Barred /\ [Next]_vars => Barred'
  <2> SUFFICES ASSUME Inv, Barred, [Next]_vars PROVE Barred'
    OBVIOUS
  <2>1. CASE Lex
    <3>1. pc \in {"parse", "reparse"} /\ pc' = pc
      BY <2>1, LexFrame DEF Inv
    <3> QED
      BY <3>1 DEF Barred
  <2>2. CASE Step
    BY <2>2, StepBarred
  <2>3. CASE Start \/ Started \/ Sample \/ Sampled \/ plumber_reinit \/ Revert \/ Reverted
             \/ Commit \/ Committed \/ Resumed \/ Clean \/ Cleaned
    BY <2>3, HostBarred
  <2>4. CASE UNCHANGED vars
    BY <2>4 DEF vars, pointers, Barred, Cur
  <2> QED
    BY <2>1, <2>2, <2>3, <2>4 DEF Next
<1> QED
  BY <1>1, <1>2, Invariant, PTL DEF Spec

\* What a patch that is Sound computes was set up by INIT.
LEMMA SoundReady ==
  ASSUME PlayInv, InHandler(PLUMBER_COMPUTE), Sound(pass.on)
  PROVE  Pipe.life = "ready"
<1>1. Inv /\ LeftTraced /\ Steady /\ Roles /\ TypeOK
  BY DEF PlayInv, Inv
<1>2. InPass /\ pc = "pass" /\ mode = PLUMBER_COMPUTE /\ Pipe.type = "ugen"
  BY DEF InHandler, InPass
<1>3. pass.then = "sample"
  BY <1>1, <1>2 DEF Roles, PassRoles, PLUMBER_INIT, PLUMBER_COMPUTE, PLUMBER_DESTROY
<1>4. Holding /\ pass.on = Held /\ Held \in PlumbingNames
  BY <1>1, <1>2, <1>3, HeldIs DEF Holding
<1>5. PICK p \in PlumbingNames : p = Held
  BY <1>4
<1>6. Sound(p)
  BY <1>4, <1>5
<1>7. PICK st : TraceOf(plumbing[p].pipes, st) /\ Plays(p, st)
  BY <1>1, <1>4, <1>5, <1>6, LeftEnds
<1>8. ReadyTo(p, Len(plumbing[p].pipes))
  BY <1>2, <1>3, <1>7 DEF Plays
<1>9. pass.at \in 1 .. Len(plumbing[p].pipes) /\ Pipe = plumbing[p].pipes[pass.at]
  BY <1>1, <1>2, <1>4, <1>5, PipeType DEF Pipe
<1> QED
  BY <1>2, <1>8, <1>9 DEF ReadyTo

(* For every table of ugens and every program: what COMPUTE reaches was    *)
(* set up by INIT, unless a recompilation was refused since, whose reset   *)
(* of the stack lifts the error that kept COMPUTE away (parse.c:509), or   *)
(* INIT of that very ugen can give up unseen; in neither case is the patch *)
(* Sound.                                                                  *)
THEOREM ReadyUntilRefusedHolds == Spec => []ReadyUntilRefused
<1>1. PlayInv /\ Barred => ReadyUntilRefused
  <2> SUFFICES ASSUME PlayInv, Barred, InHandler(PLUMBER_COMPUTE), Entered(Pipe.ud), Pipe.life # "ready"
               PROVE  ~Sound(pass.on) /\ (Exposed(Pipe.ud) \/ tmp # pass.on)
    BY DEF ReadyUntilRefused
  <2>1. Roles /\ TypeOK
    BY DEF PlayInv, Inv
  <2>2. InPass /\ pc = "pass" /\ mode = PLUMBER_COMPUTE /\ Pipe.type = "ugen"
    BY DEF InHandler, InPass
  <2>3. pass.then = "sample" /\ pass.on = Cur
    BY <2>1, <2>2 DEF Roles, PassRoles, PLUMBER_INIT, PLUMBER_COMPUTE, PLUMBER_DESTROY
  <2>4. pass.at \in 1 .. Len(plumbing[Cur].pipes) /\ Pipe = plumbing[Cur].pipes[pass.at]
    BY <2>1, <2>2, <2>3, PipeType DEF Pipe
  <2>5. Unready(Pipe) => (Sig[Pipe.ud].guard /\ stack.error) \/ tmp # Cur
    BY <2>2, <2>3, <2>4 DEF Barred
  <2>6. Exposed(Pipe.ud) \/ tmp # pass.on
    BY <2>2, <2>3, <2>5 DEF Unready, Entered
  <2>7. ~Sound(pass.on)
    BY SoundReady
  <2> QED
    BY <2>6, <2>7
<1> QED
  BY <1>1, PlayInvariant, BarredInvariant, PTL

---------------------------------------------------------------------------
(* The promise of HotSwap, and the patches that it speaks of: what a whole *)
(* program compiles to.  They are given by what each token and each pipe   *)
(* does to a text, a stack and a table map of its own; that the engine has *)
(* two of each, and pointers to tell them apart, does not come into it.    *)

Item(x) == [type |-> x.type, ud |-> x.ud]
Items == [type : {"float", "string", "ugen"}, ud : Values \cup Ugens]
TextOf(q) == [i \in 1 .. Len(q) |-> Item(q[i])]

TablesAfter(e, st, tables) == IF Supplied(e, st) THEN tables \o Added(e, st) ELSE tables

\* A token that is not refused.
Compiles(t, m, r) ==
  \/ t.type = "other" /\ r = m
  \/ /\ t.type \in {"float", "string"}
     /\ r = [text |-> Append(m.text, Item(t)), stack |-> Push(m.stack, t.ud), tables |-> m.tables]
  \/ /\ t.type = "func" /\ t.ud \in Ugens
     /\ Sig[t.ud].guard => ~m.stack.error
     /\ Sig[t.ud].checked => sporth_check_args(m.stack, Sig[t.ud].args)
     /\ Supplied(Sig[t.ud].create, m.stack) => FindsAll(Sig[t.ud].create, m.stack, m.tables)
     /\ r = [text   |-> Append(m.text, [type |-> "ugen", ud |-> t.ud]),
             stack  |-> Apply(Sig[t.ud].create, m.stack),
             tables |-> TablesAfter(Sig[t.ud].create, m.stack, m.tables)]

\* An item of the text in INIT.
SetsUpUgen(x, s, r) ==
  LET e == Sig[x.ud].init IN
  \/ Sig[x.ud].guard /\ s.stack.error /\ r = s
  \/ /\ Supplied(e, s.stack) => FindsAll(e, s.stack, s.tables)
     /\ r = [stack |-> Apply(e, s.stack), tables |-> TablesAfter(e, s.stack, s.tables)]
  \/ /\ Supplied(e, s.stack) /\ ~FindsAll(e, s.stack, s.tables)
     /\ r = [stack |-> Raise(PopAll(s.stack, e.pop)), tables |-> s.tables]
  \/ Sig[x.ud].quits /\ r = [stack |-> PopAll(s.stack, e.pop), tables |-> s.tables]

SetsUp(x, s, r) ==
  IF x.type = "ugen" THEN SetsUpUgen(x, s, r)
  ELSE r = [stack |-> Push(s.stack, x.ud), tables |-> s.tables]

\* The tables a host may add before the parse.
Given ==
  {[i \in 1 .. Len(g) |-> [name |-> g[i], type |-> PTYPE_TABLE, owned |-> TRUE]] :
     g \in {<<>>} \cup {<<name>> : name \in Globals}}

\* The first n tokens, and the first n items.
ParseTrace(prog, n, tr) ==
  /\ DOMAIN tr = 0 .. n
  /\ \E g \in Given : tr[0] = [text |-> <<>>, stack |-> sporth_stack_init, tables |-> g]
  /\ \A i \in 1 .. n : Compiles(prog[i], tr[i - 1], tr[i])

ParsedAs(prog, m) == \E tr : ParseTrace(prog, Len(prog), tr) /\ tr[Len(prog)] = m

\* INIT starts on the tables of the parse, and on its stack (sporth_run) or
\* on a cleared one (plumber_swap).
InitTrace(m, n, tr) ==
  /\ DOMAIN tr = 0 .. n
  /\ \E st \in {m.stack, sporth_stack_init} : tr[0] = [stack |-> st, tables |-> m.tables]
  /\ \A i \in 1 .. n : SetsUp(m.text[i], tr[i - 1], tr[i])

\* Every token of one program, with the tables that CREATE and INIT made.
WholePatches ==
  {w \in [text : Seq(Items), tables : Seq(Entries)] :
     \E prog \in Programs : \E m, tr :
       /\ ParsedAs(prog, m) /\ w.text = m.text
       /\ InitTrace(m, Len(m.text), tr) /\ w.tables = tr[Len(m.text)].tables}

Swap == INSTANCE HotSwap WITH phase <- Phase, patch <- Patch, Patches <- WholePatches

\* The parse that runs has taken the first tokens of one program, and
\* nothing else has touched what it builds.
ParsesWhole ==
  pc \in {"parse", "reparse"} /\ ~err =>
    \E prog \in Programs : \E n \in Nat : \E tr :
      /\ n + Len(todo) = Len(prog) /\ \A i \in 1 .. Len(todo) : todo[i] = prog[n + i]
      /\ ParseTrace(prog, n, tr)
      /\ tr[n] = [text |-> TextOf(plumbing[Cur].pipes), stack |-> stack,
                  tables |-> ft[CurMap].entries]

\* A whole program waits for the old patch to be destroyed.
CommitsWhole ==
  pc = "pass" /\ pass.then = "commit" =>
    \E prog \in Programs : \E m :
      /\ ParsedAs(prog, m)
      /\ m.text = TextOf(plumbing[Cur].pipes) /\ m.tables = ft[CurMap].entries

\* INIT has set up the first items of a whole program.
StartsWhole ==
  pc = "pass" /\ pass.then \in {"start", "resume"} =>
    \E prog \in Programs : \E m, tr :
      /\ ParsedAs(prog, m) /\ m.text = TextOf(plumbing[Cur].pipes)
      /\ pass.at <= Len(m.text) + 1
      /\ InitTrace(m, pass.at - 1, tr)
      /\ tr[pass.at - 1] = [stack |-> stack, tables |-> ft[CurMap].entries]

PlaysWhole == Phase = "playing" => Patch \in WholePatches
AtRest == pc # "pass" => pass.then = "none"

SwapInv == Inv /\ ParsesWhole /\ CommitsWhole /\ StartsWhole /\ PlaysWhole /\ AtRest

\* One more token.
LEMMA ParseLonger ==
  ASSUME NEW prog, NEW n \in Nat, NEW tr, ParseTrace(prog, n, tr), NEW t,
         Compiles(prog[n + 1], tr[n], t)
  PROVE  \E r : ParseTrace(prog, n + 1, r) /\ r[n + 1] = t
<1> DEFINE r == [i \in 0 .. n + 1 |-> IF i <= n THEN tr[i] ELSE t]
<1>1. DOMAIN r = 0 .. n + 1 /\ (\A i \in 0 .. n : r[i] = tr[i]) /\ r[n + 1] = t
  OBVIOUS
<1> HIDE DEF r
<1>2. r[0] = tr[0] /\ r[n] = tr[n]
  BY <1>1
<1>3. ASSUME NEW i \in 1 .. n + 1
      PROVE  Compiles(prog[i], r[i - 1], r[i])
  <2>1. CASE i = n + 1
    <3>1. i - 1 = n
      BY <2>1
    <3> QED
      BY <1>1, <1>2, <2>1, <3>1
  <2>2. CASE i # n + 1
    <3>1. i \in 1 .. n /\ i - 1 \in 0 .. n /\ i \in 0 .. n
      BY <2>2
    <3>2. r[i - 1] = tr[i - 1] /\ r[i] = tr[i]
      BY <1>1, <3>1
    <3> QED
      BY <3>1, <3>2 DEF ParseTrace
  <2> QED
    BY <2>1, <2>2
<1> QED
  BY <1>1, <1>2, <1>3 DEF ParseTrace

\* One more item.
LEMMA InitLonger ==
  ASSUME NEW m, NEW n \in Nat, NEW tr, InitTrace(m, n, tr), NEW t,
         SetsUp(m.text[n + 1], tr[n], t)
  PROVE  \E r : InitTrace(m, n + 1, r) /\ r[n + 1] = t
<1> DEFINE r == [i \in 0 .. n + 1 |-> IF i <= n THEN tr[i] ELSE t]
<1>1. DOMAIN r = 0 .. n + 1 /\ (\A i \in 0 .. n : r[i] = tr[i]) /\ r[n + 1] = t
  OBVIOUS
<1> HIDE DEF r
<1>2. r[0] = tr[0] /\ r[n] = tr[n]
  BY <1>1
<1>3. ASSUME NEW i \in 1 .. n + 1
      PROVE  SetsUp(m.text[i], r[i - 1], r[i])
  <2>1. CASE i = n + 1
    <3>1. i - 1 = n
      BY <2>1
    <3> QED
      BY <1>1, <1>2, <2>1, <3>1
  <2>2. CASE i # n + 1
    <3>1. i \in 1 .. n /\ i - 1 \in 0 .. n /\ i \in 0 .. n
      BY <2>2
    <3>2. r[i - 1] = tr[i - 1] /\ r[i] = tr[i]
      BY <1>1, <3>1
    <3> QED
      BY <3>1, <3>2 DEF InitTrace
  <2> QED
    BY <2>1, <2>2
<1> QED
  BY <1>1, <1>2, <1>3 DEF InitTrace

\* The text of a plumbing, with one more pipe.
LEMMA TextLonger ==
  ASSUME NEW q \in Seq(Pipes), NEW x \in Pipes
  PROVE  TextOf(Append(q, x)) = Append(TextOf(q), Item(x))
<1>1. /\ TextOf(q) \in Seq({Item(y) : y \in Pipes}) /\ Len(TextOf(q)) = Len(q)
      /\ \A i \in 1 .. Len(q) : TextOf(q)[i] = Item(q[i])
  BY DEF TextOf
<1>2. Append(q, x) \in Seq(Pipes) /\ Len(Append(q, x)) = Len(q) + 1
  OBVIOUS
<1>3. /\ TextOf(Append(q, x)) \in Seq({Item(y) : y \in Pipes})
      /\ Len(TextOf(Append(q, x))) = Len(q) + 1
      /\ \A i \in 1 .. Len(q) + 1 : TextOf(Append(q, x))[i] = Item(Append(q, x)[i])
  BY <1>2 DEF TextOf
<1> DEFINE s == TextOf(Append(q, x))
           r == TextOf(q)
           y == Item(x)
           T == {Item(z) : z \in Pipes}
<1>4. y \in T
  OBVIOUS
<1>5. ASSUME NEW i \in 1 .. Len(q) + 1
      PROVE  s[i] = Append(r, y)[i]
  <2>1. CASE i = Len(q) + 1
    <3>1. Append(q, x)[i] = x
      BY <2>1
    <3>2. s[i] = y
      BY <1>3, <3>1
    <3> HIDE DEF r, s, y
    <3> QED
      BY <1>1, <2>1, <3>2 DEF r
  <2>2. CASE i # Len(q) + 1
    <3>1. i \in 1 .. Len(q) /\ Append(q, x)[i] = q[i]
      BY <2>2
    <3>2. s[i] = r[i]
      BY <1>1, <1>3, <3>1
    <3> HIDE DEF r, s, y
    <3> QED
      BY <1>1, <3>1, <3>2 DEF r
  <2> QED
    BY <2>1, <2>2
<1>6. Append(r, y) \in Seq(T) /\ Len(Append(r, y)) = Len(q) + 1
  <2>1. r \in Seq(T) /\ Len(r) = Len(q)
    BY <1>1
  <2> HIDE DEF r, y, T
  <2> QED
    BY <1>4, <2>1
<1>7. s \in Seq(T) /\ Len(s) = Len(q) + 1
  BY <1>3
<1> HIDE DEF s, r, y, T
<1>8. s = Append(r, y)
  BY ONLY <1>5, <1>6, <1>7, SeqEqual
<1> QED
  BY <1>8 DEF s, r, y

\* The text is what it is, whatever has become of the pipes.
LEMMA TextKept ==
  ASSUME NEW q \in Seq(Pipes), NEW r \in Seq(Pipes), SameText(q, r)
  PROVE  TextOf(r) = TextOf(q)
  BY DEF SameText, TextOf, Item

\* A text is one of items.
LEMMA TextType ==
  ASSUME NEW q \in Seq(Pipes)
  PROVE  TextOf(q) \in Seq(Items) /\ Len(TextOf(q)) = Len(q)
<1>1. \A x \in Pipes : Item(x) \in Items
  BY DEF Pipes, Item, Items
<1> QED
  BY <1>1 DEF TextOf

\* Where the pointers are while a parse runs, and in a pass of INIT.
LEMMA WhereParsed ==
  ASSUME Inv, pc \in {"parse", "reparse"}
  PROVE  tmp = Cur /\ ftmap = CurMap
  BY DEF Inv, Roles, Compiled

\* Only current_pipe says which pair is which.
LEMMA NamesFrame ==
  ASSUME UNCHANGED current_pipe
  PROVE  UNCHANGED <<Cur, Old, CurMap, OldMap>>
  BY DEF Cur, Old, CurMap, OldMap

\* A token of the program that is being parsed.
LEMMA LexWhole ==
  ASSUME Inv, Inv', ParsesWhole, Lex
  PROVE  ParsesWhole'
<1> DEFINE q == plumbing[Cur].pipes
           m == [text |-> TextOf(q), stack |-> stack, tables |-> ft[CurMap].entries]
           r == [text |-> TextOf(plumbing'[Cur].pipes), stack |-> stack', tables |-> ft'[CurMap].entries]
<1>0. /\ TypeOK /\ pc \in {"parse", "reparse"} /\ UNCHANGED <<pc, Cur, CurMap>>
      /\ tmp = Cur /\ ftmap = CurMap
      /\ todo \in Seq(Tokens) /\ stack \in Stacks /\ q \in Seq(Pipes) /\ Cur \in PlumbingNames
      /\ ft \in [MapNames -> Maps] /\ CurMap \in MapNames
  <2>1. TypeOK /\ pc \in {"parse", "reparse"} /\ UNCHANGED <<pc, current_pipe>>
    BY LexFrame DEF Inv, pointers
  <2>2. tmp = Cur /\ ftmap = CurMap /\ UNCHANGED <<Cur, CurMap>>
    BY <2>1, WhereParsed, NamesFrame
  <2> QED
    BY <2>1, <2>2 DEF TypeOK, Plumbings
<1>1. ASSUME ~err, todo # <<>>, todo' = Tail(todo), Compiles(Token, m, r)
      PROVE  ParsesWhole'
  <2>1. PICK prog, n, tr :
          /\ prog \in Programs /\ n \in Nat
          /\ n + Len(todo) = Len(prog) /\ \A i \in 1 .. Len(todo) : todo[i] = prog[n + i]
          /\ ParseTrace(prog, n, tr) /\ tr[n] = m
    BY <1>0, <1>1 DEF ParsesWhole
  <2>2. Token = prog[n + 1]
    BY <1>0, <1>1, <2>1 DEF Token
  <2>3. n + 1 + Len(todo') = Len(prog) /\ \A i \in 1 .. Len(todo') : todo'[i] = prog[n + 1 + i]
    <3>1. Len(todo') = Len(todo) - 1 /\ \A i \in 1 .. Len(todo) - 1 : todo'[i] = todo[i + 1]
      BY <1>0, <1>1
    <3>2. Len(todo) \in Nat
      BY <1>0
    <3>3. ASSUME NEW i \in 1 .. Len(todo') PROVE todo'[i] = prog[n + 1 + i]
      <4>1. n \in Nat
        BY <2>1
      <4>2. todo'[i] = todo[i + 1] /\ i + 1 \in 1 .. Len(todo) /\ n + (i + 1) = n + 1 + i
        BY <3>1, <3>2, <4>1
      <4> QED
        BY <2>1, <4>2
    <3> QED
      BY <2>1, <3>1, <3>2, <3>3
  <2> HIDE DEF m, r
  <2>4. PICK t : ParseTrace(prog, n + 1, t) /\ t[n + 1] = r
    BY <1>1, <2>1, <2>2, ParseLonger
  <2>5. prog \in Programs /\ n + 1 \in Nat
    BY <2>1
  <2> QED
    BY <1>0, <2>3, <2>4, <2>5 DEF ParsesWhole, r
<1>2. ASSUME NEW type, NEW ud, AddPipe(type, ud), NewPipe(type, ud) \in Pipes
      PROVE  TextOf(plumbing'[Cur].pipes) = Append(TextOf(q), [type |-> type, ud |-> ud])
  <2>1. plumbing'[Cur].pipes = Append(q, NewPipe(type, ud))
    BY <1>0, <1>2, AddPipeEffect
  <2>2. Item(NewPipe(type, ud)) = [type |-> type, ud |-> ud]
    BY DEF Item, NewPipe
  <2> QED
    BY <1>0, <1>2, <2>1, <2>2, TextLonger
<1>3. CASE LexValue
  <2>1. /\ ~err /\ todo # <<>> /\ todo' = Tail(todo)
        /\ Token.type \in {"float", "string"} /\ AddPipe(Token.type, Token.ud)
        /\ stack' = Push(stack, Token.ud) /\ ft' = ft
    BY <1>3 DEF LexValue, Parsing, Accept
  <2>2. Token.ud \in Values
    <3>1. Token \in Tokens
      BY <1>0, <1>3, TokenType DEF LexValue
    <3> QED
      BY <2>1, <3>1, StackAssumption DEF Tokens, Values
  <2>3. NewPipe(Token.type, Token.ud) \in Pipes
    BY <2>1, <2>2, NewPipeType
  <2>4. TextOf(plumbing'[Cur].pipes) = Append(TextOf(q), Item(Token))
    BY <1>2, <2>1, <2>3 DEF Item
  <2>5. Compiles(Token, m, r)
    BY <2>1, <2>4 DEF Compiles
  <2> QED
    BY <1>1, <2>1, <2>5
<1>4. CASE LexOther
  <2>1. /\ ~err /\ todo # <<>> /\ todo' = Tail(todo) /\ Token.type = "other"
        /\ UNCHANGED <<plumbing, ft, stack>>
    BY <1>4 DEF LexOther, Parsing, Accept
  <2>2. Compiles(Token, m, r)
    BY <2>1 DEF Compiles
  <2> QED
    BY <1>1, <2>1, <2>2
<1>5. ASSUME NEW u \in Ugens, CreateDone(u)
      PROVE  ParsesWhole'
  <2> DEFINE e == Sig[u].create
  <2>1. /\ ~err /\ todo # <<>> /\ todo' = Tail(todo) /\ Token.type = "func" /\ Token.ud = u
        /\ Entered(u) /\ ~ArgsFail(u) /\ AddPipe("ugen", u)
        /\ Supplied(e, stack) => FindsAll(e, stack, ft[CurMap].entries)
        /\ stack' = Apply(e, stack)
    BY <1>0, <1>5 DEF CreateDone, CanCreate, Parsing, Accept
  <2>2. ft'[CurMap].entries = TablesAfter(e, stack, ft[CurMap].entries)
    BY <1>0, <1>5 DEF CreateDone, TablesAfter, Maps
  <2>3. NewPipe("ugen", u) \in Pipes
    BY <1>5, NewPipeType
  <2>4. TextOf(plumbing'[Cur].pipes) = Append(TextOf(q), [type |-> "ugen", ud |-> u])
    BY <1>2, <2>1, <2>3
  <2>5. /\ Sig[u].guard => ~stack.error
        /\ Sig[u].checked => sporth_check_args(stack, Sig[u].args)
    BY <2>1 DEF Entered, ArgsFail
  <2>6. Compiles(Token, m, r)
    BY <1>5, <2>1, <2>2, <2>4, <2>5 DEF Compiles
  <2> QED
    BY <1>1, <2>1, <2>6
<1>6. ASSUME \/ LexUnknown
             \/ \E u \in Ugens : CreateSkipped(u) \/ CreateBadArgs(u) \/ CreateMissing(u) \/ CreateFailed(u)
      PROVE  err' = TRUE
  BY <1>6 DEF LexUnknown, CreateSkipped, CreateBadArgs, CreateMissing, CreateFailed, Refuse
<1> QED
  BY <1>3, <1>4, <1>5, <1>6 DEF Lex, ParsesWhole

\* What a pipe does to the table maps.
LEMMA StepTables ==
  ASSUME Inv, Step
  PROVE  /\ mode # PLUMBER_INIT => ft' = ft
         /\ ft'[OldMap] = ft[OldMap]
<1>0. /\ TypeOK /\ CurMap # OldMap /\ MapNames = {CurMap, OldMap}
      /\ ft \in [MapNames -> Maps]
  BY PairsDiffer DEF Inv, TypeOK
<1>1. CASE StepInit
  <2>1. mode = PLUMBER_INIT /\ pc = "pass"
    BY <1>1 DEF StepInit, InHandler, InPass
  <2>2. ftmap = CurMap
    BY <2>1 DEF Inv, Roles, PassRoles, PLUMBER_INIT, PLUMBER_COMPUTE, PLUMBER_DESTROY
  <2>3. \E s : ft' = [ft EXCEPT ![CurMap].entries = s]
    BY <1>1, <2>2 DEF StepInit
  <2> QED
    BY <1>0, <2>1, <2>3
<1>2. CASE ft' = ft
  BY <1>2
<1> QED
  BY <1>1, <1>2 DEF Step, StepValue, StepSkipped, StepInitMissing, StepInitQuits, StepCompute,
     StepDestroy

\* A pipe of an INIT pass.
LEMMA InitWhole ==
  ASSUME Inv, StartsWhole, Step, pass.then \in {"start", "resume"}
  PROVE  StartsWhole'
<1> DEFINE q == plumbing[Cur].pipes
           n == pass.at
           s == [stack |-> stack, tables |-> ft[CurMap].entries]
           r == [stack |-> stack', tables |-> ft'[CurMap].entries]
<1>0. /\ TypeOK /\ pc = "pass" /\ InPass /\ UNCHANGED <<pc, Cur, CurMap>>
      /\ pass' = [pass EXCEPT !.at = @ + 1]
  <2>1. TypeOK /\ InPass /\ UNCHANGED <<pc, current_pipe>> /\ pass' = [pass EXCEPT !.at = @ + 1]
    BY StepFrame DEF Inv, pointers
  <2> QED
    BY <2>1, NamesFrame DEF InPass
<1>1. pass.on = Cur /\ ftmap = CurMap /\ mode = PLUMBER_INIT
  BY <1>0 DEF Inv, Roles, PassRoles
<1>2. /\ q \in Seq(Pipes) /\ n \in 1 .. Len(q) /\ Pipe = q[n] /\ Pipe \in Pipes
      /\ Cur \in PlumbingNames /\ CurMap \in MapNames /\ ft \in [MapNames -> Maps]
  BY <1>0, <1>1, PipeType, PairsDiffer DEF TypeOK, Plumbings, Pipe
<1>3. TextOf(plumbing'[Cur].pipes) = TextOf(q)
  <2>1. SameText(q, plumbing'[Cur].pipes)
    BY <1>0, <1>2, StepText
  <2> QED
    BY <2>1 DEF SameText, TextOf, Item
<1>4. TextOf(q)[n] = Item(Pipe) /\ Len(TextOf(q)) = Len(q)
  BY <1>2 DEF TextOf
<1>5. SetsUp(Item(Pipe), s, r)
  <2> DEFINE u == Pipe.ud
             e == Sig[u].init
  <2>1. Item(Pipe).type = Pipe.type /\ Item(Pipe).ud = u
    BY DEF Item
  <2>2. CASE StepValue
    <3>1. Pipe.type # "ugen" /\ stack' = Push(stack, u) /\ ft' = ft
      BY <1>1, <2>2 DEF StepValue
    <3> QED
      BY <2>1, <3>1 DEF SetsUp
  <2>3. ASSUME SetsUpUgen(Pipe, s, r), Pipe.type = "ugen"
        PROVE  SetsUp(Item(Pipe), s, r)
    BY <2>1, <2>3 DEF SetsUp, SetsUpUgen
  <2>4. CASE StepSkipped
    BY <2>3, <2>4 DEF StepSkipped, Entered, SetsUpUgen
  <2>5. CASE StepInit
    <3>1. /\ Supplied(e, stack) => FindsAll(e, stack, ft[CurMap].entries)
          /\ stack' = Apply(e, stack) /\ Pipe.type = "ugen"
      BY <1>1, <2>5 DEF StepInit, InHandler
    <3>2. ft'[CurMap].entries = TablesAfter(e, stack, ft[CurMap].entries)
      BY <1>1, <1>2, <2>5 DEF StepInit, TablesAfter, Maps
    <3> QED
      BY <2>3, <3>1, <3>2 DEF SetsUpUgen
  <2>6. CASE StepInitMissing
    BY <1>1, <2>3, <2>6 DEF StepInitMissing, InHandler, SetsUpUgen
  <2>7. CASE StepInitQuits
    BY <2>3, <2>7 DEF StepInitQuits, InHandler, SetsUpUgen
  <2>8. ~StepCompute /\ ~StepDestroy
    BY <1>1 DEF StepCompute, StepDestroy, InHandler, PLUMBER_INIT, PLUMBER_COMPUTE, PLUMBER_DESTROY
  <2> QED
    BY <2>2, <2>4, <2>5, <2>6, <2>7, <2>8 DEF Step
<1>6. PICK prog, m, tr :
        /\ prog \in Programs
        /\ ParsedAs(prog, m) /\ m.text = TextOf(q)
        /\ InitTrace(m, n - 1, tr) /\ tr[n - 1] = s
  BY <1>0 DEF StartsWhole
<1>7. pass'.at = n + 1 /\ n - 1 \in Nat /\ n - 1 + 1 = n /\ n + 1 - 1 = n /\ n <= Len(m.text)
  BY <1>0, <1>2, <1>4, <1>6 DEF TypeOK, Passes
<1> HIDE DEF s, r
<1>8. SetsUp(m.text[n - 1 + 1], tr[n - 1], r)
  BY <1>4, <1>5, <1>6, <1>7
<1>9. \E t : InitTrace(m, n - 1 + 1, t) /\ t[n - 1 + 1] = r
  <2>1. PICK k \in Nat : k = n - 1
    BY <1>7
  <2>2. InitTrace(m, k, tr) /\ SetsUp(m.text[k + 1], tr[k], r)
    BY <1>6, <1>8, <2>1
  <2>3. \E t : InitTrace(m, k + 1, t) /\ t[k + 1] = r
    BY <2>2, InitLonger
  <2> QED
    BY <2>1, <2>3
<1>10. PICK t : InitTrace(m, n, t) /\ t[n] = r
  BY <1>7, <1>9
<1>11. n + 1 <= Len(m.text) + 1
  BY <1>2, <1>4, <1>6
<1> HIDE DEF n
<1> QED
  BY <1>0, <1>3, <1>6, <1>7, <1>10, <1>11 DEF StartsWhole, r

\* A parse that took every token of its program.
LEMMA ParsedWhole ==
  ASSUME Inv, ParsesWhole, pc \in {"parse", "reparse"}, todo = <<>>, ~err
  PROVE  \E prog \in Programs :
           ParsedAs(prog, [text |-> TextOf(plumbing[Cur].pipes), stack |-> stack,
                           tables |-> ft[CurMap].entries])
<1> DEFINE m == [text |-> TextOf(plumbing[Cur].pipes), stack |-> stack, tables |-> ft[CurMap].entries]
<1>1. PICK prog, n, tr :
        /\ prog \in Programs /\ n \in Nat
        /\ n + Len(todo) = Len(prog) /\ ParseTrace(prog, n, tr) /\ tr[n] = m
  BY DEF ParsesWhole
<1>2. n = Len(prog)
  BY <1>1
<1> HIDE DEF m
<1>3. prog \in Programs /\ ParsedAs(prog, m)
  BY <1>1, <1>2 DEF ParsedAs
<1> QED
  BY <1>3 DEF m

\* A parse begins with nothing but the tables of the host.
LEMMA ParseBegins ==
  ASSUME NEW prog \in Programs, NEW g \in Given, NEW m,
         m = [text |-> <<>>, stack |-> sporth_stack_init, tables |-> g]
  PROVE  \E n \in Nat : \E tr :
           /\ n + Len(prog) = Len(prog) /\ \A i \in 1 .. Len(prog) : prog[i] = prog[n + i]
           /\ ParseTrace(prog, n, tr) /\ tr[n] = m
<1> DEFINE tr == [i \in 0 .. 0 |-> m]
<1>1. DOMAIN tr = 0 .. 0 /\ tr[0] = m
  OBVIOUS
<1> HIDE DEF tr
<1>2. ParseTrace(prog, 0, tr)
  BY <1>1 DEF ParseTrace
<1>3. Len(prog) \in Nat
  BY PlumberAssumption
<1>4. /\ 0 + Len(prog) = Len(prog) /\ \A i \in 1 .. Len(prog) : prog[i] = prog[0 + i]
  BY <1>3
<1> QED
  BY <1>1, <1>2, <1>4

\* And INIT with the stack of the parse or none.
LEMMA InitBegins ==
  ASSUME NEW m, NEW st \in {m.stack, sporth_stack_init}
  PROVE  \E tr : InitTrace(m, 0, tr) /\ tr[0] = [stack |-> st, tables |-> m.tables]
<1> DEFINE tr == [i \in 0 .. 0 |-> [stack |-> st, tables |-> m.tables]]
<1>1. DOMAIN tr = 0 .. 0 /\ tr[0] = [stack |-> st, tables |-> m.tables]
  OBVIOUS
<1> HIDE DEF tr
<1> QED
  BY <1>1 DEF InitTrace

\* When INIT is over the patch is whole.
LEMMA StartedWhole ==
  ASSUME Inv, StartsWhole, NEW next \in {"start", "resume"}, PassOver(next)
  PROVE  [text |-> TextOf(plumbing[Cur].pipes), tables |-> ft[CurMap].entries] \in WholePatches
<1> DEFINE q == plumbing[Cur].pipes
           w == [text |-> TextOf(q), tables |-> ft[CurMap].entries]
           n == pass.at
<1>1. pc = "pass" /\ pass.then \in {"start", "resume"} /\ n > Len(plumbing[pass.on].pipes)
  BY DEF PassOver
<1>2. pass.on = Cur
  BY <1>1 DEF Inv, Roles, PassRoles
<1>3. q \in Seq(Pipes) /\ ft[CurMap].entries \in Seq(Entries) /\ n \in Nat
  BY PairsDiffer DEF Inv, TypeOK, Plumbings, Maps, Passes
<1>4. PICK prog, m, tr :
        /\ prog \in Programs
        /\ ParsedAs(prog, m) /\ m.text = TextOf(q) /\ n <= Len(m.text) + 1
        /\ InitTrace(m, n - 1, tr)
        /\ tr[n - 1] = [stack |-> stack, tables |-> ft[CurMap].entries]
  BY <1>1 DEF StartsWhole
<1>5. TextOf(q) \in Seq(Items) /\ Len(TextOf(q)) = Len(q)
  BY <1>3, TextType
<1>6. n - 1 = Len(m.text)
  BY <1>1, <1>2, <1>3, <1>4, <1>5
<1>7. InitTrace(m, Len(m.text), tr) /\ w.tables = tr[Len(m.text)].tables
  BY <1>4, <1>6
<1>8. w \in [text : Seq(Items), tables : Seq(Entries)] /\ w.text = m.text
  BY <1>3, <1>4, <1>5
<1> HIDE DEF w
<1>9. w \in WholePatches
  BY <1>4, <1>7, <1>8 DEF WholePatches
<1> QED
  BY <1>9 DEF w

\* What is heard, in the terms of Inv.
LEMMA HeardIs ==
  /\ Patch = IF Phase # "playing" THEN NoPatch
             ELSE [text |-> TextOf(plumbing[Playing].pipes), tables |-> ft[PairedMap(Playing)].entries]
  /\ Playing = IF Swapping THEN Old ELSE Cur
  BY DEF Patch, TextOf, Item, Playing, Old, Cur

\* The same text and the same tables are the same patch.
LEMMA SamePatch ==
  ASSUME Phase' = Phase, Playing' = Playing,
         Phase = "playing" => /\ TextOf(plumbing'[Playing].pipes) = TextOf(plumbing[Playing].pipes)
                              /\ ft'[PairedMap(Playing)].entries = ft[PairedMap(Playing)].entries
  PROVE  UNCHANGED <<Phase, Patch>>
<1>1. Patch' = IF Phase' # "playing" THEN NoPatch
               ELSE [text   |-> TextOf(plumbing'[Playing'].pipes),
                     tables |-> ft'[PairedMap(Playing')].entries]
  BY DEF Patch, TextOf, Item, NoPatch
<1> QED
  BY <1>1, HeardIs

\* A token is not heard: it goes into the pair that does not play.
LEMMA LexUnheard ==
  ASSUME Inv, AtRest, Lex
  PROVE  UNCHANGED <<Phase, Patch>>
<1>1. /\ TypeOK /\ pc \in {"parse", "reparse"} /\ UNCHANGED <<pc, pass, current_pipe>>
      /\ UNCHANGED plumbing \/ \E type, ud : AddPipe(type, ud)
  BY LexFrame DEF Inv, pointers
<1>2. Phase' = Phase /\ Playing' = Playing
  BY <1>1 DEF Phase, Playing, Swapping
<1>3. ASSUME Phase = "playing"
      PROVE  plumbing'[Playing] = plumbing[Playing] /\ ft'[PairedMap(Playing)] = ft[PairedMap(Playing)]
  <2>1. pc = "reparse" /\ tmp = Cur /\ ftmap = CurMap
    BY <1>1, <1>3, WhereParsed DEF Phase
  <2>2. Playing = Old /\ Old # Cur /\ CurMap # OldMap /\ PairedMap(Old) = OldMap
        /\ Old \in PlumbingNames /\ MapNames = {CurMap, OldMap}
    BY <1>1, <2>1, HeardIs, PairsDiffer DEF Swapping
  <2>3. plumbing'[Old] = plumbing[Old]
    BY <1>1, <2>1, <2>2, AddPipeEffect
  <2>4. ft' = ft \/ \E s : ft' = [ft EXCEPT ![CurMap].entries = s]
    <3>1. CASE \E u \in Ugens : CreateDone(u)
      BY <2>1, <3>1 DEF CreateDone
    <3> QED
      BY <3>1 DEF Lex, LexValue, LexOther, LexUnknown, CreateSkipped, CreateBadArgs, CreateMissing,
         CreateFailed, Refuse
  <2>5. ft'[OldMap] = ft[OldMap]
    BY <1>1, <2>2, <2>4 DEF TypeOK
  <2> QED
    BY <2>2, <2>3, <2>5
<1> QED
  BY <1>2, <1>3, SamePatch

\* Nor is a pipe of a pass: only INIT adds tables, and to the new pair.
LEMMA StepUnheard ==
  ASSUME Inv, AtRest, Step
  PROVE  UNCHANGED <<Phase, Patch>>
<1>1. /\ TypeOK /\ TypeOK' /\ InPass /\ pc = "pass" /\ UNCHANGED <<pc, current_pipe>>
      /\ pass' = [pass EXCEPT !.at = @ + 1]
  BY StepFrame, TypeNext DEF Inv, pointers, InPass, Next
<1>2. pass'.then = pass.then
  BY <1>1 DEF TypeOK, Passes
<1>3. Phase' = Phase /\ Playing' = Playing
  BY <1>1, <1>2 DEF Phase, Playing, Swapping
<1>4. ASSUME Phase = "playing"
      PROVE  ft'[PairedMap(Playing)] = ft[PairedMap(Playing)]
  <2>1. pass.then \in {"sample", "revert", "commit", "resume"}
    BY <1>1, <1>4 DEF Phase, Inv, Roles, PassRoles
  <2>2. CASE pass.then = "resume"
    <3>1. Playing = Old /\ PairedMap(Old) = OldMap
      BY <1>1, <2>2, HeardIs, PairsDiffer DEF Swapping
    <3> QED
      BY <3>1, StepTables
  <2>3. CASE pass.then # "resume"
    <3>1. mode # PLUMBER_INIT
      BY <1>1, <2>1, <2>3
      DEF Inv, Roles, PassRoles, PLUMBER_INIT, PLUMBER_COMPUTE, PLUMBER_DESTROY
    <3> QED
      BY <3>1, StepTables
  <2> QED
    BY <2>2, <2>3
<1>5. TextOf(plumbing'[Playing].pipes) = TextOf(plumbing[Playing].pipes)
  <2>1. Playing \in PlumbingNames
    BY <1>1, HeardIs, PairsDiffer
  <2>2. SameText(plumbing[Playing].pipes, plumbing'[Playing].pipes)
    BY <1>1, <2>1, StepText
  <2> QED
    BY <2>2 DEF SameText, TextOf, Item
<1> QED
  BY <1>3, <1>4, <1>5, SamePatch

\* What is heard changes when a first patch has been set up, when a new one
\* has, and when all is cleaned up: in these steps and no others.
Heard ==
  \/ UNCHANGED <<Phase, Patch>>
  \/ Started /\ Swap!Accept
  \/ Resumed /\ Swap!Replace
  \/ Clean /\ Swap!Stop

\* What the host does.
LEMMA HostHeard ==
  ASSUME SwapInv, Host
  PROVE  Heard
<1>0. /\ Inv /\ AtRest /\ StartsWhole /\ TypeOK
      /\ Cur # Old /\ CurMap # OldMap /\ CurMap = PairedMap(Cur) /\ OldMap = PairedMap(Old)
      /\ PlumbingNames = {Cur, Old} /\ MapNames = {CurMap, OldMap}
      /\ 1 - (1 - current_pipe) = current_pipe
  BY PairsDiffer DEF SwapInv, Inv
<1>1. Playing = IF Swapping THEN Old ELSE Cur
  BY HeardIs
<1>2. /\ current_pipe' = current_pipe => UNCHANGED <<Cur, Old, CurMap, OldMap>>
      /\ current_pipe' = 1 - current_pipe =>
           Cur' = Old /\ Old' = Cur /\ CurMap' = OldMap /\ OldMap' = CurMap
  BY <1>0 DEF Cur, Old, CurMap, OldMap
<1>3. Playing' = IF Swapping' THEN Old' ELSE Cur'
  BY DEF Playing, Old, Cur
<1>4. UNCHANGED <<Phase, Patch>> => Heard
  BY DEF Heard
<1>5. ASSUME Phase' = Phase, Playing' = Playing, UNCHANGED <<plumbing, ft>>
      PROVE  Heard
  BY <1>4, <1>5, SamePatch
<1>6. CASE Start
  <2>1. /\ pc = "parse" /\ pc' = "pass" /\ pass'.then = "start" /\ UNCHANGED <<plumbing, ft, current_pipe>>
        /\ pass.then = "none"
    BY <1>0, <1>6 DEF Start, Begin, AtRest
  <2>2. Phase = "loading" /\ Phase' = "loading" /\ Playing' = Playing
    BY <1>1, <1>2, <1>3, <2>1 DEF Phase, Swapping
  <2> QED
    BY <1>5, <2>1, <2>2
<1>7. CASE Started
  <2>1. /\ pc = "pass" /\ pass.then = "start" /\ PassOver("start") /\ pc' = "idle" /\ pass'.then = "none"
        /\ UNCHANGED <<plumbing, ft, current_pipe>>
    BY <1>7 DEF Started, PassOver, Rest, NoPass
  <2>2. Phase = "loading" /\ Phase' = "playing" /\ Playing' = Cur
    BY <1>2, <1>3, <2>1 DEF Phase, Swapping
  <2>3. Patch' = [text |-> TextOf(plumbing[Cur].pipes), tables |-> ft[CurMap].entries]
    BY <1>0, <2>1, <2>2 DEF Patch, TextOf, Item
  <2>4. Patch' \in WholePatches
    BY <1>0, <2>1, <2>3, StartedWhole
  <2> QED
    BY <1>7, <2>2, <2>4 DEF Heard, Swap!Accept
<1>8. CASE Sample
  <2>1. /\ pc = "idle" /\ pc' = "pass" /\ pass'.then = "sample" /\ UNCHANGED <<plumbing, ft, current_pipe>>
        /\ pass.then = "none"
    BY <1>0, <1>8 DEF Sample, Begin, AtRest
  <2>2. Phase' = Phase /\ Playing' = Playing
    BY <1>1, <1>2, <1>3, <2>1 DEF Phase, Swapping
  <2> QED
    BY <1>5, <2>1, <2>2
<1>9. CASE Sampled
  <2>1. /\ pc = "pass" /\ pass.then = "sample" /\ pc' = "idle" /\ pass'.then = "none"
        /\ UNCHANGED <<plumbing, ft, current_pipe>>
    BY <1>9 DEF Sampled, PassOver, Rest, NoPass
  <2>2. Phase' = Phase /\ Playing' = Playing
    BY <1>1, <1>2, <1>3, <2>1 DEF Phase, Swapping
  <2> QED
    BY <1>5, <2>1, <2>2
<1>10. CASE plumber_reinit
  <2>1. /\ pc = "idle" /\ pc' = "reparse" /\ pass' = pass /\ pass.then = "none"
        /\ current_pipe' = 1 - current_pipe
        /\ plumbing' = [plumbing EXCEPT ![Old] = plumbing_init]
        /\ \E x : ft' = [ft EXCEPT ![OldMap] = x]
    BY <1>0, <1>10 DEF plumber_reinit, AtRest, Old, OldMap
  <2>2. Phase = "playing" /\ Phase' = "playing" /\ Playing = Cur /\ Playing' = Cur
    BY <1>1, <1>2, <1>3, <2>1 DEF Phase, Swapping
  <2>3. plumbing'[Cur] = plumbing[Cur] /\ ft'[CurMap] = ft[CurMap]
    BY <1>0, <2>1 DEF TypeOK
  <2> QED
    BY <1>0, <1>4, <2>2, <2>3, SamePatch
<1>11. CASE Revert
  <2>1. /\ pc = "reparse" /\ pc' = "pass" /\ pass'.then = "revert" /\ UNCHANGED <<plumbing, ft, current_pipe>>
        /\ pass.then = "none"
    BY <1>0, <1>11 DEF Revert, Begin, AtRest
  <2>2. Phase' = Phase /\ Playing' = Playing
    BY <1>1, <1>2, <1>3, <2>1 DEF Phase, Swapping
  <2> QED
    BY <1>5, <2>1, <2>2
<1>12. CASE Reverted
  <2>1. /\ pc = "pass" /\ pass.then = "revert" /\ pc' = "idle" /\ pass'.then = "none"
        /\ current_pipe' = 1 - current_pipe /\ FreePipes(tmp) /\ FreeMap(ftmap)
    BY <1>12 DEF Reverted, PassOver, Rest, NoPass
  <2>2. Phase = "playing" /\ Phase' = "playing" /\ Playing = Old /\ Playing' = Old
    BY <1>1, <1>2, <1>3, <2>1 DEF Phase, Swapping
  <2>3. tmp = Cur /\ ftmap = CurMap
    BY <1>0, <2>1 DEF Inv, Roles, PassRoles, Compiled
  <2>4. plumbing'[Old] = plumbing[Old] /\ ft'[OldMap] = ft[OldMap]
    BY <1>0, <2>1, <2>3, FreeEffect
  <2> QED
    BY <1>0, <1>4, <2>2, <2>4, SamePatch
<1>13. CASE Commit
  <2>1. /\ pc = "reparse" /\ pc' = "pass" /\ pass'.then = "commit" /\ UNCHANGED <<plumbing, ft, current_pipe>>
        /\ pass.then = "none"
    BY <1>0, <1>13 DEF Commit, Begin, AtRest
  <2>2. Phase' = Phase /\ Playing' = Playing
    BY <1>1, <1>2, <1>3, <2>1 DEF Phase, Swapping
  <2> QED
    BY <1>5, <2>1, <2>2
<1>14. CASE Committed
  <2>1. /\ pc = "pass" /\ pass.then = "commit" /\ pc' = "pass" /\ pass'.then = "resume"
        /\ current_pipe' = current_pipe /\ FreePipes(pass.prev) /\ FreeMap(ftold)
    BY <1>14 DEF Committed, PassOver, Begin
  <2>2. Phase = "playing" /\ Phase' = "playing" /\ Playing = Old /\ Playing' = Old
    BY <1>1, <1>2, <1>3, <2>1 DEF Phase, Swapping
  <2>3. pass.prev = Old /\ ftold = OldMap
    BY <1>0, <2>1 DEF Inv, Roles, PassRoles, Compiled
  <2>4. plumbing'[Old].pipes = plumbing[Old].pipes /\ ft'[OldMap].entries = ft[OldMap].entries
    BY <1>0, <2>1, <2>3, FreeEffect
  <2> QED
    BY <1>0, <1>4, <2>2, <2>4, SamePatch
<1>15. CASE Resumed
  <2>1. /\ pc = "pass" /\ pass.then = "resume" /\ PassOver("resume") /\ pc' = "idle" /\ pass'.then = "none"
        /\ UNCHANGED <<plumbing, ft, current_pipe>>
    BY <1>15 DEF Resumed, PassOver, Rest, NoPass
  <2>2. Phase = "playing" /\ Phase' = "playing" /\ Playing' = Cur
    BY <1>2, <1>3, <2>1 DEF Phase, Swapping
  <2>3. Patch' = [text |-> TextOf(plumbing[Cur].pipes), tables |-> ft[CurMap].entries]
    BY <1>0, <2>1, <2>2 DEF Patch, TextOf, Item
  <2>4. Patch' \in WholePatches
    BY <1>0, <2>1, <2>3, StartedWhole
  <2> QED
    BY <1>15, <2>2, <2>4 DEF Heard, Swap!Replace
<1>16. CASE Clean
  <2>1. pc \in {"idle", "parse"} /\ pass.then = "none" /\ pass'.then = "clean"
    BY <1>0, <1>16 DEF Clean, Begin, AtRest
  <2>2. Phase # "stopped" /\ Phase' = "stopped" /\ Patch' = NoPatch
    BY <2>1 DEF Phase, Patch, NoPatch
  <2> QED
    BY <1>16, <2>2 DEF Heard, Swap!Stop
<1>17. CASE Cleaned
  <2>1. pass.then = "clean" /\ pc' = "stopped" /\ UNCHANGED current_pipe
    BY <1>17 DEF Cleaned, PassOver
  <2>2. Phase = "stopped" /\ Phase' = "stopped"
    BY <2>1 DEF Phase
  <2>3. Patch = NoPatch /\ Patch' = NoPatch
    BY <2>2 DEF Patch, NoPatch
  <2> QED
    BY <1>4, <2>2, <2>3
<1> QED
  BY <1>6, <1>7, <1>8, <1>9, <1>10, <1>11, <1>12, <1>13, <1>14, <1>15, <1>16, <1>17 DEF Host

\* Every step.
LEMMA EveryStepHeard ==
  ASSUME SwapInv, [Next]_vars
  PROVE  Heard
<1>1. CASE UNCHANGED vars
  BY <1>1 DEF Heard, vars, Phase, Patch, Playing, Swapping, NoPatch
<1>2. CASE Lex
  BY <1>2, LexUnheard DEF SwapInv, Heard
<1>3. CASE Step
  BY <1>3, StepUnheard DEF SwapInv, Heard
<1>4. CASE Host
  BY <1>4, HostHeard
<1> QED
  BY <1>1, <1>2, <1>3, <1>4 DEF Next, Host

\* At first nothing has been parsed and nothing is heard.
LEMMA SwapInit == Init => SwapInv /\ Swap!Init
<1> SUFFICES ASSUME Init PROVE SwapInv /\ Swap!Init
  OBVIOUS
<1>1. Inv
  BY InvInit
<1>2. /\ pc = "parse" /\ pass.then = "none" /\ todo \in Programs /\ stack = sporth_stack_init
      /\ plumbing["main"].pipes = <<>> /\ ft["ft1"].entries = <<>> /\ current_pipe = 0
  BY DEF Init, NoPass, plumbing_init, plumber_ftmap_init
<1>3. plumbing[Cur].pipes = <<>> /\ ft[CurMap].entries = <<>>
  BY <1>2 DEF Cur, CurMap, PlumbingOf, MapOf
<1>4. TextOf(plumbing[Cur].pipes) = <<>>
  BY <1>3 DEF TextOf
<1>5. <<>> \in Given
  <2> DEFINE g == [i \in 1 .. Len(<<>>) |-> [name |-> (<<>>)[i], type |-> PTYPE_TABLE, owned |-> TRUE]]
  <2>1. g = <<>>
    OBVIOUS
  <2>2. g \in Given
    BY DEF Given
  <2> HIDE DEF g
  <2> QED
    BY <2>1, <2>2
<1>6. ParsesWhole
  <2> DEFINE m == [text |-> <<>>, stack |-> sporth_stack_init, tables |-> <<>>]
  <2>1. \E n \in Nat : \E tr :
           /\ n + Len(todo) = Len(todo) /\ \A i \in 1 .. Len(todo) : todo[i] = todo[n + i]
           /\ ParseTrace(todo, n, tr) /\ tr[n] = m
    <3>1. \A x : x = m => \E n \in Nat : \E tr :
             /\ n + Len(todo) = Len(todo) /\ \A i \in 1 .. Len(todo) : todo[i] = todo[n + i]
             /\ ParseTrace(todo, n, tr) /\ tr[n] = x
      BY <1>2, <1>5, ParseBegins
    <3> HIDE DEF m
    <3> QED
      BY <3>1
  <2> QED
    BY <1>2, <1>3, <1>4, <2>1 DEF ParsesWhole
<1>7. Phase = "loading" /\ Patch = NoPatch
  BY <1>2 DEF Phase, Patch
<1> QED
  BY <1>1, <1>2, <1>6, <1>7 DEF SwapInv, CommitsWhole, StartsWhole, PlaysWhole, AtRest, Swap!Init

\* What is heard is whole after a step, since the step is one of HotSwap.
LEMMA PlaysNext ==
  ASSUME SwapInv, [Next]_vars
  PROVE  PlaysWhole'
  BY EveryStepHeard DEF SwapInv, PlaysWhole, Heard, Swap!Accept, Swap!Replace, Swap!Stop

\* A recompilation begins with an empty plumbing and the tables of the host.
LEMMA ReinitWhole ==
  ASSUME Inv, plumber_reinit
  PROVE  ParsesWhole'
<1>1. /\ TypeOK /\ Cur # Old /\ CurMap # OldMap /\ PlumbingNames = {Cur, Old}
      /\ MapNames = {CurMap, OldMap} /\ 1 - (1 - current_pipe) = current_pipe
  BY PairsDiffer DEF Inv
<1>2. /\ current_pipe' = 1 - current_pipe /\ stack' = sporth_stack_init /\ todo' \in Programs
      /\ plumbing' = [plumbing EXCEPT ![Old] = plumbing_init]
  BY DEF plumber_reinit, Old
<1>3. PICK g \in {<<>>} \cup {<<name>> : name \in Globals} :
        ft' = [ft EXCEPT ![OldMap] =
                 [plumber_ftmap_init EXCEPT !.entries =
                    [i \in 1 .. Len(g) |-> [name |-> g[i], type |-> PTYPE_TABLE, owned |-> TRUE]]]]
  BY DEF plumber_reinit, OldMap
<1> DEFINE e == [i \in 1 .. Len(g) |-> [name |-> g[i], type |-> PTYPE_TABLE, owned |-> TRUE]]
<1>4. e \in Given
  BY DEF Given
<1> HIDE DEF e
<1>5. ft'[OldMap].entries = e
  BY <1>1, <1>3 DEF TypeOK, plumber_ftmap_init, e
<1>6. Cur' = Old /\ CurMap' = OldMap
  BY <1>2 DEF Cur, Old, CurMap, OldMap
<1>7. TextOf(plumbing'[Old].pipes) = <<>>
  BY <1>1, <1>2 DEF TypeOK, plumbing_init, TextOf
<1> DEFINE m == [text |-> <<>>, stack |-> sporth_stack_init, tables |-> e]
<1>8. \A x : x = m => \E n \in Nat : \E tr :
         /\ n + Len(todo') = Len(todo') /\ \A i \in 1 .. Len(todo') : todo'[i] = todo'[n + i]
         /\ ParseTrace(todo', n, tr) /\ tr[n] = x
  BY <1>2, <1>4, ParseBegins
<1>9. m = [text |-> TextOf(plumbing'[Old].pipes), stack |-> stack', tables |-> ft'[OldMap].entries]
  BY <1>2, <1>5, <1>7
<1> HIDE DEF m
<1> QED
  BY <1>2, <1>6, <1>8, <1>9 DEF ParsesWhole

\* INIT starts on a whole program, the first time and after a commit.
LEMMA BeginWhole ==
  ASSUME Inv, NEW next \in {"start", "resume"}, Begin(Cur, PLUMBER_INIT, next, Cur), UNCHANGED current_pipe,
         TextOf(plumbing'[Cur].pipes) = TextOf(plumbing[Cur].pipes),
         ft'[CurMap].entries = ft[CurMap].entries,
         NEW prog \in Programs, NEW m, ParsedAs(prog, m), stack \in {m.stack, sporth_stack_init},
         m.text = TextOf(plumbing[Cur].pipes), m.tables = ft[CurMap].entries
  PROVE  StartsWhole'
<1>1. pc' = "pass" /\ pass'.at = 1 /\ stack' = stack /\ UNCHANGED <<Cur, CurMap>>
  BY NamesFrame DEF Begin, PLUMBER_INIT, PLUMBER_DESTROY
<1>2. PICK tr : InitTrace(m, 0, tr) /\ tr[0] = [stack |-> stack, tables |-> m.tables]
  <2>1. \A st \in {m.stack, sporth_stack_init} :
          \E tr : InitTrace(m, 0, tr) /\ tr[0] = [stack |-> st, tables |-> m.tables]
    BY InitBegins
  <2> QED
    BY <2>1
<1>3. Len(m.text) \in Nat
  <2>1. plumbing[Cur].pipes \in Seq(Pipes)
    BY PairsDiffer DEF Inv, TypeOK, Plumbings
  <2> QED
    BY <2>1, TextType
<1>4. /\ pass'.at <= Len(m.text) + 1 /\ pass'.at - 1 = 0
  BY <1>1, <1>3
<1> QED
  BY <1>1, <1>2, <1>4 DEF StartsWhole

\* What the host does between the passes.
LEMMA HostWhole ==
  ASSUME SwapInv, Host
  PROVE  ParsesWhole' /\ CommitsWhole' /\ StartsWhole' /\ AtRest'
<1>0. Inv /\ ParsesWhole /\ CommitsWhole /\ StartsWhole /\ AtRest
  BY DEF SwapInv
<1>1. CASE Start
  <2>1. /\ pc = "parse" /\ todo = <<>> /\ ~err /\ pipes = Cur
        /\ pc' = "pass" /\ pass'.then = "start" /\ Begin(Cur, PLUMBER_INIT, "start", Cur)
        /\ UNCHANGED <<plumbing, ft, current_pipe>>
    BY <1>0, <1>1 DEF Start, Accepted, ParseOver, Begin, Inv, Roles
  <2> DEFINE m == [text |-> TextOf(plumbing[Cur].pipes), stack |-> stack, tables |-> ft[CurMap].entries]
  <2>2. PICK prog \in Programs : ParsedAs(prog, m)
    BY <1>0, <2>1, ParsedWhole
  <2>3. m.stack = stack /\ m.text = TextOf(plumbing[Cur].pipes) /\ m.tables = ft[CurMap].entries
    OBVIOUS
  <2> HIDE DEF m
  <2>4. StartsWhole'
    BY <1>0, <2>1, <2>2, <2>3, BeginWhole
  <2> QED
    BY <2>1, <2>4 DEF ParsesWhole, CommitsWhole, AtRest
<1>2. CASE Commit
  <2>1. /\ pc = "reparse" /\ todo = <<>> /\ ~err
        /\ pc' = "pass" /\ pass'.then = "commit" /\ UNCHANGED <<plumbing, ft, current_pipe>>
    BY <1>2 DEF Commit, Accepted, ParseOver, Begin
  <2>2. UNCHANGED <<Cur, CurMap>>
    BY <2>1, NamesFrame
  <2> DEFINE m == [text |-> TextOf(plumbing[Cur].pipes), stack |-> stack, tables |-> ft[CurMap].entries]
  <2>3. PICK prog \in Programs : ParsedAs(prog, m)
    BY <1>0, <2>1, ParsedWhole
  <2>4. m.text = TextOf(plumbing'[Cur].pipes) /\ m.tables = ft'[CurMap].entries
    BY <2>1
  <2> HIDE DEF m
  <2>5. CommitsWhole'
    BY <2>2, <2>3, <2>4 DEF CommitsWhole
  <2> QED
    BY <2>1, <2>5 DEF ParsesWhole, StartsWhole, AtRest
<1>3. CASE Committed
  <2>1. /\ pc = "pass" /\ pass.then = "commit" /\ FreePipes(pass.prev) /\ FreeMap(ftold)
        /\ current_pipe' = current_pipe /\ Begin(tmp, PLUMBER_INIT, "resume", tmp)
    BY <1>3 DEF Committed, PassOver
  <2>2. /\ tmp = Cur /\ pass.prev = Old /\ ftold = OldMap /\ mode = PLUMBER_DESTROY
    BY <1>0, <2>1 DEF Inv, Roles, PassRoles, Compiled
  <2>3. plumbing'[Cur] = plumbing[Cur] /\ ft'[CurMap] = ft[CurMap]
    <3>1. TypeOK /\ Cur # Old /\ CurMap # OldMap /\ Cur \in PlumbingNames /\ Old \in PlumbingNames
          /\ CurMap \in MapNames /\ OldMap \in MapNames
      BY <1>0, PairsDiffer DEF Inv
    <3> QED
      BY <2>1, <2>2, <3>1, FreeEffect
  <2>4. stack = sporth_stack_init
    BY <1>0, <2>1, <2>2 DEF Inv, Lifetimes
  <2>5. PICK prog, m :
          /\ prog \in Programs /\ ParsedAs(prog, m)
          /\ m.text = TextOf(plumbing[Cur].pipes) /\ m.tables = ft[CurMap].entries
    BY <1>0, <2>1 DEF CommitsWhole
  <2>6. /\ TextOf(plumbing'[Cur].pipes) = TextOf(plumbing[Cur].pipes)
        /\ ft'[CurMap].entries = ft[CurMap].entries
        /\ Begin(Cur, PLUMBER_INIT, "resume", Cur)
    BY <2>1, <2>2, <2>3
  <2>7. stack \in {m.stack, sporth_stack_init}
    BY <2>4
  <2>8. StartsWhole'
    BY <1>0, <2>1, <2>5, <2>6, <2>7, BeginWhole
  <2>9. pc' = "pass" /\ pass'.then = "resume"
    BY <2>1 DEF Begin
  <2> QED
    BY <2>8, <2>9 DEF ParsesWhole, CommitsWhole, AtRest
<1>4. CASE plumber_reinit
  <2>1. ParsesWhole'
    BY <1>0, <1>4, ReinitWhole
  <2>2. pc' = "reparse" /\ pass' = pass /\ pass.then = "none"
    BY <1>0, <1>4 DEF plumber_reinit, AtRest
  <2> QED
    BY <2>1, <2>2 DEF CommitsWhole, StartsWhole, AtRest
<1>5. CASE Started \/ Sampled \/ Reverted \/ Resumed \/ Cleaned
  <2>1. pc' \in {"idle", "stopped"} /\ pass'.then = "none"
    BY <1>5 DEF Started, Sampled, Reverted, Resumed, Cleaned, Rest, NoPass
  <2> QED
    BY <2>1 DEF ParsesWhole, CommitsWhole, StartsWhole, AtRest
<1>6. CASE Sample \/ Revert \/ Clean
  <2>1. pc' = "pass" /\ pass'.then \in {"sample", "revert", "clean"}
    BY <1>6 DEF Sample, Revert, Clean, Begin
  <2> QED
    BY <2>1 DEF ParsesWhole, CommitsWhole, StartsWhole, AtRest
<1> QED
  BY <1>1, <1>2, <1>3, <1>4, <1>5, <1>6 DEF Host

\* The invariant is inductive.
LEMMA SwapNext == SwapInv /\ [Next]_vars => SwapInv'
<1> SUFFICES ASSUME SwapInv, [Next]_vars PROVE SwapInv'
  OBVIOUS
<1>1. Inv /\ Inv' /\ PlaysWhole' /\ ParsesWhole /\ CommitsWhole /\ StartsWhole /\ AtRest
  BY InvNext, PlaysNext DEF SwapInv
<1>2. CASE UNCHANGED vars
  BY <1>1, <1>2 DEF vars, SwapInv, ParsesWhole, CommitsWhole, StartsWhole, AtRest, Cur, CurMap
<1>3. CASE Lex
  <2>1. ParsesWhole'
    BY <1>1, <1>3, LexWhole
  <2>2. UNCHANGED <<pc, pass>> /\ pc \in {"parse", "reparse"}
    BY <1>1, <1>3, LexFrame DEF Inv
  <2> QED
    BY <1>1, <2>1, <2>2 DEF SwapInv, CommitsWhole, StartsWhole, AtRest
<1>4. CASE Step
  <2>1. /\ TypeOK /\ UNCHANGED <<pc, mode, current_pipe>> /\ pc = "pass"
        /\ pass' = [pass EXCEPT !.at = @ + 1]
    BY <1>1, <1>4, StepFrame DEF Inv, InPass, pointers
  <2>2. pass'.then = pass.then
    BY <2>1 DEF TypeOK, Passes
  <2>3. StartsWhole'
    <3>1. CASE pass.then \in {"start", "resume"}
      BY <1>1, <1>4, <3>1, InitWhole
    <3>2. CASE pass.then \notin {"start", "resume"}
      BY <2>2, <3>2 DEF StartsWhole
    <3> QED
      BY <3>1, <3>2
  <2>4. CommitsWhole'
    <3> SUFFICES ASSUME pass.then = "commit"
                 PROVE  \E prog \in Programs : \E m :
                          /\ ParsedAs(prog, m)
                          /\ m.text = TextOf(plumbing'[Cur'].pipes) /\ m.tables = ft'[CurMap'].entries
      BY <2>2 DEF CommitsWhole
    <3>1. ft' = ft
      BY <1>1, <1>4, <2>1, StepTables
      DEF Inv, Roles, PassRoles, PLUMBER_INIT, PLUMBER_COMPUTE, PLUMBER_DESTROY
    <3>2. SameText(plumbing[Cur].pipes, plumbing'[Cur].pipes)
      BY <1>4, <2>1, PairsDiffer, StepText
    <3>3. TextOf(plumbing'[Cur].pipes) = TextOf(plumbing[Cur].pipes)
      BY <3>2 DEF SameText, TextOf, Item
    <3>4. UNCHANGED <<Cur, CurMap>>
      BY <2>1, NamesFrame
    <3> QED
      BY <1>1, <2>1, <3>1, <3>3, <3>4 DEF CommitsWhole
  <2> QED
    BY <1>1, <2>1, <2>3, <2>4 DEF SwapInv, ParsesWhole, AtRest
<1>5. CASE Host
  BY <1>1, <1>5, HostWhole DEF SwapInv
<1> QED
  BY <1>2, <1>3, <1>4, <1>5 DEF Next, Host

\* So it always holds.
LEMMA SwapInvariant == Spec => []SwapInv
  BY SwapInit, SwapNext, PTL DEF Spec

(* The engine keeps the promise of HotSwap, for every table of ugens and   *)
(* every set of programs: what is heard is at every moment one whole       *)
(* program, with the tables that its own parse and its own INIT made.      *)
THEOREM HotSwapHolds == Spec => Swap!Spec
<1>1. Init => Swap!Init
  BY SwapInit
<1>2. SwapInv /\ [Next]_vars => [Swap!Next]_(Swap!vars)
  BY EveryStepHeard DEF Heard, Swap!Next, Swap!vars
<1> QED
  BY <1>1, <1>2, SwapInvariant, PTL DEF Spec, Swap!Spec

(* And the old patch is heard until the new one is set up (plumber_swap):  *)
(* tokens of a new program, their refusal, a revert and the destruction of *)
(* the old patch change nothing of the text and the tables that play.      *)
THEOREM HeardUntilReplaced == Spec => [][Patch' # Patch => Started \/ Resumed \/ Clean]_vars
<1>1. SwapInv /\ [Next]_vars => [Patch' # Patch => Started \/ Resumed \/ Clean]_vars
  BY EveryStepHeard DEF Heard
<1> QED
  BY <1>1, SwapInvariant, PTL DEF Spec
===========================================================================
