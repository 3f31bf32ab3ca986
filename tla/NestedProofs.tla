---------------------------- MODULE NestedProofs ----------------------------
(***************************************************************************)
(* Proofs about programs inside programs, however deep they go: the fields *)
(* that the parser, the passes and the handlers share belong to the        *)
(* innermost call, a pass comes to every pipe in the order of the program, *)
(* a sample leaves what the parse left, and when all is over everything    *)
(* that was set up is freed.                                               *)
(***************************************************************************)
EXTENDS Nested, UgenProofs, WellFoundedInduction

Spots == Nat \X Nat   \* a pipe, by its plumbing and its place there

Plumbings == [pipes : Seq(Pipes), entries : Seq(Entries), set : BOOLEAN, freed : BOOLEAN]

Frames ==
  [do : {"parse", "pass"}, by : Nesting \union {"host"}, on : Nat, todo : Seq(Tokens), own : Nat,
   n : Nat \ {0}, pipe : Spots, fp : Nat, ftmap : Nat, tmp : Nat, prev : Nat, next : Spots]

Shape ==
  /\ plumbings \in Seq(Plumbings) /\ plumbings # <<>>
  /\ stack \in Stacks
  /\ fp \in 0 .. MaxOpen /\ opened \subseteq 1 .. MaxOpen
  /\ {ftmap, tmp, pipes} \subseteq 1 .. Len(plumbings) /\ next \in Spots
  /\ mode \in Modes /\ err \in BOOLEAN /\ stacksize \in {-1, nchan}
  /\ host \in (Modes \ {PLUMBER_CREATE}) \union {"parse", "idle", "cleaned", "crashed"}
  /\ frames \in Seq(Frames) /\ visited \in Seq(Spots)

\* The plumbings are a tree: every one but the first belongs to one pipe of
\* an earlier one, and only a parse that went on has put pipes there.
Tree(P) ==
  /\ P[Main].set
  /\ \A p \in 1 .. Len(P) : ~P[p].set => P[p].pipes = <<>>
  /\ \A p \in 1 .. Len(P) : \A k \in 1 .. Len(P[p].pipes) :
       P[p].pipes[k].d \in {0} \union p + 1 .. Len(P)
  /\ \A d \in 2 .. Len(P) : \E p \in 1 .. d - 1 :
       \E k \in 1 .. Len(P[p].pipes) : P[p].pipes[k].d = d

FileCalls == {"host", "load", "render"}
MapCalls == {"host", "render"}

\* Of the first k calls, the last one of these kinds is the ith.
Inner(fs, k, kinds, i) ==
  /\ i \in 1 .. k /\ fs[i].by \in kinds
  /\ \A j \in i + 1 .. k : fs[j].by \notin kinds

\* What a frame of a parse holds for the call that will go on after it.
ParseCall(fs, P, k) ==
  /\ fs[k].on \in 1 .. Len(P) /\ P[fs[k].on].set
  /\ (k = 1) <=> (fs[k].by = "host")
  /\ k = 1 => fs[k].on = Main /\ fs[k].tmp = Main
  /\ k # 1 => fs[k].tmp = fs[k - 1].on
  /\ fs[k].by \in {"eval", "load"} => fs[k].on = fs[k - 1].on
  /\ fs[k].by = "eval" => fs[k].own = NoFile
  /\ fs[k].by \in {"load", "render"} =>
       \A i \in 1 .. k - 1 : Inner(fs, k - 1, FileCalls, i) => fs[k].fp = fs[i].own
  /\ fs[k].by = "render" =>
       \A i \in 1 .. k - 1 : Inner(fs, k - 1, MapCalls, i) => fs[k].ftmap = fs[i].on
  /\ fs[k].own \in 0 .. MaxOpen
  /\ \A j \in 1 .. k - 1 : fs[j].own = fs[k].own => fs[k].own = NoFile

ParseCalls(fs, P) == \A k \in 1 .. Len(fs) : ParseCall(fs, P, k)

\* And what the fields are while they run.
ParseFields ==
  /\ tmp = Top.on /\ pipes = Main
  /\ \A i \in 1 .. Len(frames) : Inner(frames, Len(frames), MapCalls, i) => ftmap = frames[i].on
  /\ \A i \in 1 .. Len(frames) : Inner(frames, Len(frames), FileCalls, i) => fp = frames[i].own
  /\ opened = {frames[i].own : i \in 1 .. Len(frames)} \ {NoFile}

\* A frame of a pass was called by the pipe that the one before is at, and
\* knows the next one.
PassCall(fs, P, k) ==
  /\ fs[k].on \in 1 .. Len(P) /\ fs[k].n <= Len(P[fs[k].on].pipes) + 1
  /\ fs[k].pipe = <<fs[k].on, fs[k].n>>
  /\ fs[k].tmp = Main
  /\ (k = 1) <=> (fs[k].by = "host")
  /\ k = 1 => fs[k].on = Main /\ fs[k].prev = Main
  /\ k # 1 =>
       /\ fs[k].by = "render"
       /\ fs[k - 1].n <= Len(P[fs[k - 1].on].pipes)
       /\ P[fs[k - 1].on].pipes[fs[k - 1].n].d = fs[k].on
       /\ fs[k].prev = fs[k - 1].on /\ fs[k].ftmap = fs[k - 1].on
       /\ fs[k].next = <<fs[k - 1].on, fs[k - 1].n + 1>>

PassCalls(fs, P) == \A k \in 1 .. Len(fs) : PassCall(fs, P, k)

PassFields == pipes = Top.on /\ ftmap = Top.on /\ tmp = Main

Calls ==
  /\ host = "parse" => ParseCalls(frames, plumbings)
  /\ host \in Modes => frames # <<>> /\ PassCalls(frames, plumbings) /\ PassFields /\ mode = host
  /\ host = "parse" /\ frames # <<>> => ParseFields
  /\ frames = <<>> => pipes = Main /\ ftmap = Main /\ tmp = Main
  /\ host # "parse" \/ frames = <<>> => opened \subseteq {fp}
  /\ host \in {"idle", "cleaned"} => frames = <<>>
  /\ host = "crashed" => frames # <<>>

\* A DESTROY pass has freed what belongs to the pipes it has left behind.
Behind(p, k) ==
  \/ plumbings[p].freed
  \/ host = PLUMBER_DESTROY /\ \E i \in 1 .. Len(frames) : frames[i].on = p /\ k < frames[i].n

Freed ==
  /\ \A p \in 1 .. Len(plumbings) : \A k \in 1 .. Len(plumbings[p].pipes) :
       LET d == plumbings[p].pipes[k].d IN
       Behind(p, k) /\ d # 0 /\ plumbings[d].set => plumbings[d].freed
  /\ \A p \in 1 .. Len(plumbings) :
       plumbings[p].freed => host \in {PLUMBER_DESTROY, "cleaned", "crashed"}
  /\ host = "cleaned" => plumbings[Main].freed /\ opened = {}

\* Only a refusal leaves memory as malloc gave it.
Unset == /\ host = "crashed" => err
         /\ ~err => \A p \in 1 .. Len(plumbings) : plumbings[p].set

NestedInv == Shape /\ Tree(plumbings) /\ Calls /\ Freed /\ Unset

---------------------------------------------------------------------------
(* Frames and plumbings.                                                   *)

\* What an assignment to a field of the innermost call leaves.
LEMMA TopReplaced ==
  ASSUME NEW S, NEW fs \in Seq(S), fs # <<>>, NEW x \in S,
         NEW gs, gs = [fs EXCEPT ![Len(fs)] = x]
  PROVE  /\ gs \in Seq(S) /\ Len(gs) = Len(fs) /\ gs # <<>> /\ Last(gs) = x
         /\ gs[Len(fs)] = x /\ \A i \in 1 .. Len(fs) : i # Len(fs) => gs[i] = fs[i]
<1>1. Len(fs) \in Nat \ {0}
  BY EmptySeq
<1>2. /\ gs \in Seq(S) /\ Len(gs) = Len(fs)
      /\ \A j \in 1 .. Len(fs) : gs[j] = IF j = Len(fs) THEN x ELSE fs[j]
  BY <1>1, ExceptSeq
<1>3. gs[Len(fs)] = x
  BY ONLY <1>1, <1>2
<1>4. gs # <<>>
  BY ONLY <1>1, <1>2, EmptySeq
<1>5. Last(gs) = x
  BY ONLY <1>2, <1>3 DEF Last
<1> QED
  BY ONLY <1>2, <1>3, <1>4, <1>5

\* What a further call leaves.
LEMMA Pushed ==
  ASSUME NEW S, NEW fs \in Seq(S), NEW x \in S
  PROVE  LET gs == Append(fs, x) IN
         /\ gs \in Seq(S) /\ Len(gs) = Len(fs) + 1 /\ gs # <<>> /\ Last(gs) = x
         /\ gs[Len(fs) + 1] = x /\ \A i \in 1 .. Len(fs) : gs[i] = fs[i]
  BY AppendProperties DEF Last

\* And what a call that returns leaves.
LEMMA Popping ==
  ASSUME NEW S, NEW fs \in Seq(S), fs # <<>>, NEW gs, gs = Front(fs)
  PROVE  /\ gs \in Seq(S) /\ Len(gs) = Len(fs) - 1 /\ Len(fs) \in Nat \ {0}
         /\ (gs = <<>>) <=> (Len(fs) = 1)
         /\ \A i \in 1 .. Len(fs) - 1 : gs[i] = fs[i]
<1>1. Len(fs) \in Nat \ {0}
  BY EmptySeq
<1> DEFINE n == Len(fs) - 1
<1>2. n \in Nat /\ \A i \in 1 .. n : i \in 1 .. Len(fs)
  BY <1>1
<1>3. \A i \in 1 .. n : fs[i] \in S
  BY <1>2, ElementOfSeq
<1>4. gs = SubSeq(fs, 1, n)
  BY DEF Front
<1> HIDE DEF n
<1>5. n \in Int /\ 1 \in Int
  BY <1>2
<1>6. /\ SubSeq(fs, 1, n) \in Seq(S) /\ Len(SubSeq(fs, 1, n)) = IF 1 <= n THEN n - 1 + 1 ELSE 0
      /\ \A i \in 1 .. n - 1 + 1 : SubSeq(fs, 1, n)[i] = fs[1 + i - 1]
  BY ONLY <1>3, <1>5, SubSeqProperties
<1>7. gs \in Seq(S) /\ Len(gs) = n /\ \A i \in 1 .. n : gs[i] = fs[i]
  BY ONLY <1>2, <1>4, <1>6
<1>8. (gs = <<>>) <=> (n = 0)
  BY ONLY <1>7, EmptySeq
<1> QED
  BY <1>1, <1>7, <1>8 DEF n

\* The innermost call is one of them.
LEMMA TopFrame ==
  ASSUME NEW S, NEW fs \in Seq(S), fs # <<>>
  PROVE  Last(fs) \in S /\ Last(fs) = fs[Len(fs)] /\ Len(fs) \in Nat \ {0}
<1>1. Len(fs) \in Nat \ {0}
  BY EmptySeq
<1>2. Len(fs) \in 1 .. Len(fs)
  BY <1>1
<1> QED
  BY <1>1, <1>2, ElementOfSeq DEF Last

\* Q is P with the pipe x more in p, and the plumbing of x if it has one.
Grows(P, Q, p, x) ==
  /\ x \in Pipes /\ p \in 1 .. Len(P) /\ Q \in Seq(Plumbings)
  /\ \A i \in 1 .. Len(P) :
       /\ Q[i].set = P[i].set /\ Q[i].freed = P[i].freed
       /\ Q[i].pipes = IF i = p THEN Append(P[i].pipes, x) ELSE P[i].pipes
  /\ \/ Len(Q) = Len(P) /\ x.d = 0
     \/ /\ Len(Q) = Len(P) + 1 /\ x.d = Len(Q)
        /\ Q[Len(Q)].pipes = <<>> /\ Q[Len(Q)].freed = FALSE

WithPipe(P, p, x) == [P EXCEPT ![p].pipes = Append(@, x)]

\* A pipe is added where the code adds it.
LEMMA PipeAdded ==
  ASSUME NEW P \in Seq(Plumbings), NEW p \in 1 .. Len(P), NEW x \in Pipes
  PROVE  LET Q == WithPipe(P, p, x) IN
         /\ Q \in Seq(Plumbings) /\ Len(Q) = Len(P)
         /\ \A i \in 1 .. Len(P) :
              /\ Q[i].set = P[i].set /\ Q[i].freed = P[i].freed /\ Q[i].entries = P[i].entries
              /\ Q[i].pipes = IF i = p THEN Append(P[i].pipes, x) ELSE P[i].pipes
         /\ x.d = 0 => Grows(P, Q, p, x)
<1> DEFINE Q == WithPipe(P, p, x)
           y == [P[p] EXCEPT !.pipes = Append(P[p].pipes, x)]
<1>1. P[p] \in Plumbings
  BY ElementOfSeq
<1>2. P[p].pipes \in Seq(Pipes)
  BY <1>1 DEF Plumbings
<1>3. Append(P[p].pipes, x) \in Seq(Pipes)
  BY <1>2, AppendProperties
<1>4. /\ y \in Plumbings /\ y.pipes = Append(P[p].pipes, x) /\ y.entries = P[p].entries
      /\ y.set = P[p].set /\ y.freed = P[p].freed
  BY <1>1, <1>3 DEF Plumbings
<1>5. Q = [P EXCEPT ![p] = y]
  BY DEF WithPipe
<1> HIDE DEF y, Q
<1>6. /\ [P EXCEPT ![p] = y] \in Seq(Plumbings) /\ Len([P EXCEPT ![p] = y]) = Len(P)
      /\ \A i \in 1 .. Len(P) : [P EXCEPT ![p] = y][i] = IF i = p THEN y ELSE P[i]
  BY ONLY P \in Seq(Plumbings), p \in 1 .. Len(P), <1>4, ExceptSeq
<1>7. /\ Q \in Seq(Plumbings) /\ Len(Q) = Len(P)
      /\ \A i \in 1 .. Len(P) : Q[i] = IF i = p THEN y ELSE P[i]
  BY ONLY <1>5, <1>6
<1>8. \A i \in 1 .. Len(P) :
         /\ Q[i].set = P[i].set /\ Q[i].freed = P[i].freed /\ Q[i].entries = P[i].entries
         /\ Q[i].pipes = IF i = p THEN Append(P[i].pipes, x) ELSE P[i].pipes
  BY ONLY <1>4, <1>7
<1>9. x.d = 0 => Grows(P, Q, p, x)
  BY ONLY <1>7, <1>8, x \in Pipes, p \in 1 .. Len(P) DEF Grows
<1> QED
  BY ONLY <1>7, <1>8, <1>9 DEF Q

\* So is a plumbing.
LEMMA PlumbingAdded ==
  ASSUME NEW P \in Seq(Plumbings), NEW p \in 1 .. Len(P), NEW x \in Pipes, NEW y \in Plumbings,
         x.d = Len(P) + 1, y.pipes = <<>>, y.freed = FALSE
  PROVE  LET Q == Append(WithPipe(P, p, x), y)
         IN  Grows(P, Q, p, x) /\ Q[Len(P) + 1] = y /\ Len(Q) = Len(P) + 1
<1> DEFINE R == WithPipe(P, p, x)
           Q == Append(R, y)
<1>1. /\ R \in Seq(Plumbings) /\ Len(R) = Len(P)
      /\ \A i \in 1 .. Len(P) :
           /\ R[i].set = P[i].set /\ R[i].freed = P[i].freed /\ R[i].entries = P[i].entries
           /\ R[i].pipes = IF i = p THEN Append(P[i].pipes, x) ELSE P[i].pipes
  BY PipeAdded
<1>2. Q = Append(R, y)
  OBVIOUS
<1> HIDE DEF R, Q
<1>3. /\ Append(R, y) \in Seq(Plumbings) /\ Len(Append(R, y)) = Len(R) + 1
      /\ Append(R, y)[Len(R) + 1] = y
      /\ \A i \in 1 .. Len(R) : Append(R, y)[i] = R[i]
  BY ONLY <1>1, y \in Plumbings, AppendProperties
<1>4. /\ Q \in Seq(Plumbings) /\ Len(Q) = Len(R) + 1 /\ Q[Len(R) + 1] = y
      /\ \A i \in 1 .. Len(R) : Q[i] = R[i]
  BY ONLY <1>2, <1>3
<1>5. Len(Q) = Len(P) + 1 /\ Q[Len(P) + 1] = y
  BY ONLY <1>1, <1>4
<1>6. \A i \in 1 .. Len(P) :
         /\ Q[i].set = P[i].set /\ Q[i].freed = P[i].freed
         /\ Q[i].pipes = IF i = p THEN Append(P[i].pipes, x) ELSE P[i].pipes
  BY ONLY <1>1, <1>4
<1>7. x.d = Len(Q) /\ Q[Len(Q)].pipes = <<>> /\ Q[Len(Q)].freed = FALSE
  BY <1>5
<1>8. Grows(P, Q, p, x)
  BY ONLY <1>4, <1>5, <1>6, <1>7, x \in Pipes, p \in 1 .. Len(P) DEF Grows
<1> QED
  BY ONLY <1>5, <1>8 DEF Q, R
---------------------------------------------------------------------------
(* The innermost call of some kind.                                        *)

\* A set of numbers has a least one.
LEMMA Least ==
  ASSUME NEW T, T \subseteq Nat, T # {}
  PROVE  \E x \in T : \A y \in T : x <= y
<1>1. IsWellFoundedOn(OpToRel(<, Nat), Nat)
  BY NatLessThanWellFounded
<1>2. PICK x \in T : \A y \in T : <<y, x>> \notin OpToRel(<, Nat)
  BY <1>1, WFMin
<1>3. \A y \in T : ~(y < x)
  BY <1>2 DEF OpToRel
<1>4. \A y \in T : y \in Nat /\ x \in Nat
  OBVIOUS
<1> QED
  BY <1>3, <1>4

\* Only the kinds of the calls say which it is.
LEMMA InnerSame ==
  ASSUME NEW fs, NEW gs, NEW k \in Nat, NEW kinds, \A i \in 1 .. k : gs[i].by = fs[i].by
  PROVE  \A i : Inner(gs, k, kinds, i) <=> Inner(fs, k, kinds, i)
<1> SUFFICES ASSUME NEW i \in 1 .. k PROVE Inner(gs, k, kinds, i) <=> Inner(fs, k, kinds, i)
  BY DEF Inner
<1>1. \A j \in i + 1 .. k : j \in 1 .. k
  OBVIOUS
<1>2. \A j \in i + 1 .. k : gs[j].by = fs[j].by
  BY <1>1
<1>3. gs[i].by = fs[i].by
  OBVIOUS
<1> QED
  BY ONLY <1>2, <1>3 DEF Inner

\* There is one at most.
LEMMA InnerUnique ==
  ASSUME NEW fs, NEW k \in Nat, NEW kinds, NEW i, NEW j,
         Inner(fs, k, kinds, i), Inner(fs, k, kinds, j)
  PROVE  i = j
<1>1. i \in 1 .. k /\ j \in 1 .. k /\ fs[i].by \in kinds /\ fs[j].by \in kinds
  BY DEF Inner
<1>2. ~(i \in j + 1 .. k) /\ ~(j \in i + 1 .. k)
  BY <1>1 DEF Inner
<1> QED
  BY <1>1, <1>2

\* A call more is the innermost of its kinds, and no other changes.
LEMMA InnerPush ==
  ASSUME NEW fs, NEW k \in Nat, NEW kinds
  PROVE  /\ fs[k + 1].by \in kinds => Inner(fs, k + 1, kinds, k + 1)
         /\ fs[k + 1].by \notin kinds => \A i : Inner(fs, k + 1, kinds, i) <=> Inner(fs, k, kinds, i)
<1>1. k + 1 \in 1 .. k + 1 /\ k + 1 + 1 .. k + 1 = {}
  OBVIOUS
<1>2. fs[k + 1].by \in kinds => Inner(fs, k + 1, kinds, k + 1)
  BY ONLY <1>1 DEF Inner
<1>3. ASSUME fs[k + 1].by \notin kinds, NEW i, Inner(fs, k + 1, kinds, i)
      PROVE  Inner(fs, k, kinds, i)
  <2>1. i \in 1 .. k + 1 /\ fs[i].by \in kinds /\ \A j \in i + 1 .. k + 1 : fs[j].by \notin kinds
    BY <1>3 DEF Inner
  <2>2. i # k + 1
    BY <1>3, <2>1
  <2>3. i \in 1 .. k /\ \A j \in i + 1 .. k : j \in i + 1 .. k + 1
    BY <2>1, <2>2
  <2> QED
    BY ONLY <2>1, <2>3 DEF Inner
<1>4. ASSUME fs[k + 1].by \notin kinds, NEW i, Inner(fs, k, kinds, i)
      PROVE  Inner(fs, k + 1, kinds, i)
  <2>1. i \in 1 .. k /\ fs[i].by \in kinds /\ \A j \in i + 1 .. k : fs[j].by \notin kinds
    BY <1>4 DEF Inner
  <2>2. i \in 1 .. k + 1 /\ \A j \in i + 1 .. k + 1 : j \in i + 1 .. k \/ j = k + 1
    BY <2>1
  <2> QED
    BY ONLY <1>4, <2>1, <2>2 DEF Inner
<1> QED
  BY <1>2, <1>3, <1>4

\* Below the host's call there is nothing, so there is one of its kinds.
LEMMA InnerExists ==
  ASSUME NEW fs, NEW k \in Nat \ {0}, NEW kinds, fs[1].by \in kinds
  PROVE  \E i \in 1 .. k : Inner(fs, k, kinds, i)
<1> DEFINE T == {n \in 0 .. k - 1 : fs[k - n].by \in kinds}
<1>1. k - 1 \in T
  OBVIOUS
<1>2. T \subseteq Nat /\ T # {}
  BY <1>1
<1>3. PICK n \in T : \A m \in T : n <= m
  BY ONLY <1>2, Least
<1>4. n \in 0 .. k - 1 /\ fs[k - n].by \in kinds
  BY <1>3
<1>5. k - n \in 1 .. k
  BY <1>4
<1>6. ASSUME NEW j \in k - n + 1 .. k, fs[j].by \in kinds PROVE FALSE
  <2>1. k - j \in 0 .. k - 1 /\ k - (k - j) = j /\ k - j < n
    BY <1>4
  <2>2. k - j \in T
    BY <1>6, <2>1
  <2> QED
    BY <1>3, <1>4, <2>1, <2>2
<1> QED
  BY <1>4, <1>5, <1>6 DEF Inner

\* The field of the innermost call that Context asks for.
LEMMA InnermostIs ==
  ASSUME NEW kinds, frames \in Seq(Frames), NEW i, Inner(frames, Len(frames), kinds, i)
  PROVE  Innermost(kinds) = frames[i]
<1>1. DOMAIN frames = 1 .. Len(frames) /\ Len(frames) \in Nat
  BY LenProperties
<1>2. \A n : (n \in DOMAIN frames /\ frames[n].by \in kinds
                    /\ \A j \in n + 1 .. Len(frames) : frames[j].by \notin kinds)
             <=> Inner(frames, Len(frames), kinds, n)
  BY ONLY <1>1 DEF Inner
<1>3. \A n : Inner(frames, Len(frames), kinds, n) => n = i
  BY <1>1, InnerUnique
<1>4. (CHOOSE n \in DOMAIN frames :
         frames[n].by \in kinds /\ \A j \in n + 1 .. Len(frames) : frames[j].by \notin kinds) = i
  BY <1>2, <1>3
<1> QED
  BY <1>4 DEF Innermost
---------------------------------------------------------------------------
(* The plumbings grow as a tree.                                           *)

\* Everything about the plumbings, from a pipe more and its plumbing.
LEMMA TreeGrows ==
  ASSUME NEW P \in Seq(Plumbings), P # <<>>, NEW Q, NEW p, NEW x,
         Tree(P), Grows(P, Q, p, x), P[p].set
  PROVE  Tree(Q)
<1> DEFINE n == Len(P)
<1>1. n \in Nat \ {0} /\ \A i \in 1 .. n : P[i].pipes \in Seq(Pipes)
  <2>1. n \in Nat \ {0}
    BY EmptySeq
  <2>2. \A i \in 1 .. n : P[i] \in Plumbings
    BY ElementOfSeq
  <2> QED
    BY <2>1, <2>2 DEF Plumbings
<1>2. /\ p \in 1 .. n /\ x \in Pipes
      /\ \A i \in 1 .. n :
           /\ Q[i].set = P[i].set
           /\ Q[i].pipes = IF i = p THEN Append(P[i].pipes, x) ELSE P[i].pipes
      /\ \/ Len(Q) = n /\ x.d = 0
         \/ Len(Q) = n + 1 /\ x.d = n + 1 /\ Q[n + 1].pipes = <<>>
  BY DEF Grows
<1>3. /\ P[Main].set /\ \A i \in 1 .. n : ~P[i].set => P[i].pipes = <<>>
      /\ \A i \in 1 .. n : \A k \in 1 .. Len(P[i].pipes) : P[i].pipes[k].d \in {0} \union i + 1 .. n
      /\ \A d \in 2 .. n : \E i \in 1 .. d - 1 : \E k \in 1 .. Len(P[i].pipes) : P[i].pipes[k].d = d
  BY DEF Tree
<1> HIDE DEF n
<1>4. /\ Len(Q[p].pipes) = Len(P[p].pipes) + 1 /\ Q[p].pipes[Len(P[p].pipes) + 1] = x
      /\ \A k \in 1 .. Len(P[p].pipes) : Q[p].pipes[k] = P[p].pipes[k]
      /\ Len(P[p].pipes) \in Nat
  <2>1. P[p].pipes \in Seq(Pipes) /\ Q[p].pipes = Append(P[p].pipes, x)
    BY <1>1, <1>2
  <2> QED
    BY ONLY <2>1, <1>2, AppendProperties, LenProperties
<1>5. Q[Main].set
  BY <1>1, <1>2, <1>3 DEF Main
<1>6. \A i \in 1 .. Len(Q) : ~Q[i].set => Q[i].pipes = <<>>
  <2> SUFFICES ASSUME NEW i \in 1 .. Len(Q), ~Q[i].set PROVE Q[i].pipes = <<>>
    OBVIOUS
  <2>0. Len(Q) = n \/ (Len(Q) = n + 1 /\ Q[n + 1].pipes = <<>>)
    BY ONLY <1>2
  <2>1. i \in 1 .. n \/ (i = n + 1 /\ Q[n + 1].pipes = <<>>)
    BY ONLY <1>1, <2>0, i \in 1 .. Len(Q)
  <2> QED
    BY <1>2, <1>3, <2>1
<1>7. ASSUME NEW i \in 1 .. Len(Q), NEW k \in 1 .. Len(Q[i].pipes)
      PROVE  Q[i].pipes[k].d \in {0} \union i + 1 .. Len(Q)
  <2>1. Len(Q) \in {n, n + 1} /\ x.d \in {0} \union p + 1 .. Len(Q)
    BY <1>1, <1>2
  <2>2. CASE i = p /\ k = Len(P[p].pipes) + 1
    BY <1>4, <2>1, <2>2
  <2>3. CASE i \in 1 .. n /\ ~(i = p /\ k = Len(P[p].pipes) + 1)
    <3>1. k \in 1 .. Len(P[i].pipes) /\ Q[i].pipes[k] = P[i].pipes[k]
      <4>1. CASE i = p
        <5>1. k \in 1 .. Len(P[p].pipes) + 1 /\ k # Len(P[p].pipes) + 1
          BY ONLY <1>4, <2>3, <4>1, k \in 1 .. Len(Q[i].pipes)
        <5>2. k \in 1 .. Len(P[p].pipes)
          <6> DEFINE m == Len(P[p].pipes)
          <6>1. m \in Nat /\ k \in 1 .. m + 1 /\ k # m + 1
            BY ONLY <1>4, <5>1
          <6> HIDE DEF m
          <6>2. k \in 1 .. m
            BY ONLY <6>1
          <6> QED
            BY ONLY <6>2 DEF m
        <5> QED
          BY ONLY <1>4, <4>1, <5>2
      <4>2. CASE i # p
        BY ONLY <1>2, <2>3, <4>2, k \in 1 .. Len(Q[i].pipes)
      <4> QED
        BY <4>1, <4>2
    <3>2. P[i].pipes[k].d \in {0} \union i + 1 .. n
      BY <1>3, <2>3, <3>1
    <3> DEFINE d == P[i].pipes[k].d
               l == Len(Q)
    <3>3. d \in {0} \union i + 1 .. n /\ l \in {n, n + 1} /\ n \in Nat /\ i \in Nat
      BY <1>1, <2>1, <2>3, <3>2
    <3>4. Q[i].pipes[k].d = d
      BY ONLY <3>1 DEF d
    <3> HIDE DEF d, l
    <3>5. d \in {0} \union i + 1 .. l
      BY ONLY <3>3
    <3> QED
      BY ONLY <3>4, <3>5 DEF l
  <2>4. CASE i = n + 1
    <3>1. Q[i].pipes = <<>>
      BY <1>1, <1>2, <2>4
    <3> QED
      BY <3>1
  <2> QED
    BY <1>1, <2>1, <2>2, <2>3, <2>4
<1>8. ASSUME NEW d \in 2 .. Len(Q)
      PROVE  \E i \in 1 .. d - 1 : \E k \in 1 .. Len(Q[i].pipes) : Q[i].pipes[k].d = d
  <2>1. CASE d \in 2 .. n
    <3>0. PICK i \in 1 .. d - 1 : \E k \in 1 .. Len(P[i].pipes) : P[i].pipes[k].d = d
      BY <1>3, <2>1
    <3>1. PICK k \in 1 .. Len(P[i].pipes) : P[i].pipes[k].d = d
      BY <3>0
    <3>2. i \in 1 .. n
      BY <1>1, <2>1
    <3>3. k \in 1 .. Len(Q[i].pipes) /\ Q[i].pipes[k] = P[i].pipes[k]
      <4>1. CASE i = p
        BY ONLY <1>4, <4>1, k \in 1 .. Len(P[i].pipes)
      <4>2. CASE i # p
        BY ONLY <1>2, <3>2, <4>2, k \in 1 .. Len(P[i].pipes)
      <4> QED
        BY <4>1, <4>2
    <3> QED
      BY <3>1, <3>3
  <2>2. CASE d = n + 1 /\ x.d = n + 1
    <3>1. p \in 1 .. d - 1
      BY <1>1, <1>2, <2>2
    <3>2. Len(P[p].pipes) + 1 \in 1 .. Len(Q[p].pipes)
      BY <1>4
    <3> QED
      BY <1>4, <2>2, <3>1, <3>2
  <2>3. d \in 2 .. n \/ (d = n + 1 /\ x.d = n + 1)
    BY <1>1, <1>2
  <2> QED
    BY <2>1, <2>2, <2>3
<1> QED
  BY <1>5, <1>6, <1>7, <1>8 DEF Tree

\* The calls stay what they are where there are more plumbings and a call
\* has read a token.
LEMMA CallsGrow ==
  ASSUME NEW P, NEW Q, NEW fs, NEW gs, Len(fs) \in Nat, Len(gs) = Len(fs), Len(P) \in Nat,
         Len(Q) \in Nat, Len(P) <= Len(Q), \A i \in 1 .. Len(P) : Q[i].set = P[i].set,
         \A i \in 1 .. Len(fs) :
           /\ gs[i].on = fs[i].on /\ gs[i].by = fs[i].by /\ gs[i].tmp = fs[i].tmp
           /\ gs[i].fp = fs[i].fp /\ gs[i].ftmap = fs[i].ftmap /\ gs[i].own = fs[i].own,
         ParseCalls(fs, P)
  PROVE  ParseCalls(gs, Q)
<1> SUFFICES ASSUME NEW k \in 1 .. Len(fs) PROVE ParseCall(gs, Q, k)
  BY DEF ParseCalls
<1>1. ParseCall(fs, P, k)
  BY DEF ParseCalls
<1>2. k - 1 \in Nat /\ (k # 1 => k - 1 \in 1 .. Len(fs)) /\ \A j \in 1 .. k - 1 : j \in 1 .. Len(fs)
  OBVIOUS
<1>3. \A j \in 1 .. k - 1 : gs[j].by = fs[j].by /\ gs[j].own = fs[j].own /\ gs[j].on = fs[j].on
  BY <1>2
<1>4. \A i : Inner(gs, k - 1, FileCalls, i) <=> Inner(fs, k - 1, FileCalls, i)
  BY ONLY <1>2, <1>3, InnerSame
<1>5. \A i : Inner(gs, k - 1, MapCalls, i) <=> Inner(fs, k - 1, MapCalls, i)
  BY ONLY <1>2, <1>3, InnerSame
<1>6. /\ gs[k].on = fs[k].on /\ gs[k].by = fs[k].by /\ gs[k].tmp = fs[k].tmp
      /\ gs[k].fp = fs[k].fp /\ gs[k].ftmap = fs[k].ftmap /\ gs[k].own = fs[k].own
  OBVIOUS
<1>7. k # 1 => gs[k - 1].on = fs[k - 1].on
  BY <1>2
<1>8. fs[k].on \in 1 .. Len(Q) /\ Q[fs[k].on].set
  BY <1>1 DEF ParseCall
<1>9. /\ gs[k].by \in {"load", "render"} =>
           \A i \in 1 .. k - 1 : Inner(gs, k - 1, FileCalls, i) => gs[k].fp = gs[i].own
      /\ gs[k].by = "render" =>
           \A i \in 1 .. k - 1 : Inner(gs, k - 1, MapCalls, i) => gs[k].ftmap = gs[i].on
  BY ONLY <1>1, <1>3, <1>4, <1>5, <1>6 DEF ParseCall
<1>10. k # 1 => gs[k].tmp = gs[k - 1].on
  BY ONLY <1>1, <1>6, <1>7 DEF ParseCall
<1>11. gs[k].by \in {"eval", "load"} => gs[k].on = gs[k - 1].on
  <2>1. gs[k].by \in {"eval", "load"} => k # 1
    BY ONLY <1>1, <1>6 DEF ParseCall
  <2> QED
    BY ONLY <1>1, <1>6, <1>7, <2>1 DEF ParseCall
<1>12. /\ (k = 1) <=> (gs[k].by = "host")
       /\ k = 1 => gs[k].on = Main /\ gs[k].tmp = Main
       /\ gs[k].by = "eval" => gs[k].own = NoFile
       /\ gs[k].own \in 0 .. MaxOpen
       /\ \A j \in 1 .. k - 1 : gs[j].own = gs[k].own => gs[k].own = NoFile
  BY ONLY <1>1, <1>3, <1>6 DEF ParseCall
<1> QED
  BY ONLY <1>6, <1>8, <1>9, <1>10, <1>11, <1>12, k \in 1 .. Len(fs), Len(fs) \in Nat DEF ParseCall
---------------------------------------------------------------------------
(* The steps of a parse.                                                   *)

\* The innermost call may have read a token.
Alike(fs, gs) ==
  /\ gs \in Seq(Frames) /\ Len(gs) = Len(fs)
  /\ \A i \in 1 .. Len(fs) :
       /\ gs[i].on = fs[i].on /\ gs[i].by = fs[i].by /\ gs[i].tmp = fs[i].tmp
       /\ gs[i].fp = fs[i].fp /\ gs[i].ftmap = fs[i].ftmap /\ gs[i].own = fs[i].own
       /\ gs[i].do = fs[i].do

\* What is known of the calls of a parse.
LEMMA InParse ==
  ASSUME NestedInv, host = "parse", frames # <<>>
  PROVE  /\ Len(frames) \in Nat \ {0} /\ Len(plumbings) \in Nat \ {0}
         /\ Top \in Frames /\ Top = frames[Len(frames)]
         /\ ParseCalls(frames, plumbings) /\ ParseFields
         /\ tmp \in 1 .. Len(plumbings) /\ plumbings[tmp].set /\ tmp = Top.on
         /\ \A p \in 1 .. Len(plumbings) : ~plumbings[p].freed
<1>1. frames \in Seq(Frames) /\ plumbings \in Seq(Plumbings) /\ plumbings # <<>>
      /\ {ftmap, tmp, pipes} \subseteq 1 .. Len(plumbings)
  BY DEF NestedInv, Shape
<1>2. Len(plumbings) \in Nat \ {0}
  BY ONLY <1>1, EmptySeq
<1>3. Top \in Frames /\ Top = frames[Len(frames)] /\ Len(frames) \in Nat \ {0}
  BY <1>1, TopFrame DEF Top
<1>4. ParseCalls(frames, plumbings) /\ ParseFields
  BY DEF NestedInv, Calls
<1>5. tmp = Top.on
  BY <1>4 DEF ParseFields
<1>6. ParseCall(frames, plumbings, Len(frames))
  BY <1>3, <1>4 DEF ParseCalls
<1>7. plumbings[tmp].set
  BY ONLY <1>3, <1>5, <1>6 DEF ParseCall
<1>8. \A p \in 1 .. Len(plumbings) : ~plumbings[p].freed
  BY DEF NestedInv, Freed, PLUMBER_DESTROY
<1> QED
  BY <1>1, <1>2, <1>3, <1>4, <1>5, <1>7, <1>8

\* A call that reads a token changes nothing else.
LEMMA TakenAlike ==
  ASSUME frames \in Seq(Frames), frames # <<>>, Top.todo # <<>>
  PROVE  Alike(frames, Taken) /\ Head(Top.todo) \in Tokens
<1>1. Top \in Frames /\ Top = frames[Len(frames)] /\ Len(frames) \in Nat \ {0}
  BY TopFrame DEF Top
<1>2. Top.todo \in Seq(Tokens)
  BY <1>1 DEF Frames
<1>3. Tail(Top.todo) \in Seq(Tokens) /\ Head(Top.todo) \in Tokens
  BY ONLY <1>2, Top.todo # <<>>, HeadTailProperties
<1> DEFINE y == [Top EXCEPT !.todo = Tail(Top.todo)]
<1>4. /\ y \in Frames /\ y.on = Top.on /\ y.by = Top.by /\ y.tmp = Top.tmp
      /\ y.fp = Top.fp /\ y.ftmap = Top.ftmap /\ y.own = Top.own /\ y.do = Top.do
  BY <1>1, <1>3 DEF Frames
<1>5. Taken = [frames EXCEPT ![Len(frames)] = y]
  BY <1>1 DEF Taken
<1> HIDE DEF y
<1>6. /\ Taken \in Seq(Frames) /\ Len(Taken) = Len(frames) /\ Taken[Len(frames)] = y
      /\ \A i \in 1 .. Len(frames) : i # Len(frames) => Taken[i] = frames[i]
  BY ONLY <1>4, <1>5, frames \in Seq(Frames), frames # <<>>, TopReplaced
<1>7. ASSUME NEW i \in 1 .. Len(frames)
      PROVE  /\ Taken[i].on = frames[i].on /\ Taken[i].by = frames[i].by
             /\ Taken[i].tmp = frames[i].tmp /\ Taken[i].fp = frames[i].fp
             /\ Taken[i].ftmap = frames[i].ftmap /\ Taken[i].own = frames[i].own
             /\ Taken[i].do = frames[i].do
  <2>1. CASE i = Len(frames)
    BY ONLY <1>1, <1>4, <1>6, <2>1
  <2>2. CASE i # Len(frames)
    BY ONLY <1>6, <2>2, i \in 1 .. Len(frames)
  <2> QED
    BY ONLY <2>1, <2>2
<1> QED
  BY ONLY <1>3, <1>6, <1>7 DEF Alike

\* The fields mean the same after a call has read a token.
LEMMA FieldsAlike ==
  ASSUME Len(frames) \in Nat \ {0}, Alike(frames, frames'), ParseFields,
         UNCHANGED <<tmp, ftmap, fp, pipes, opened>>
  PROVE  ParseFields'
<1>1. Len(frames') = Len(frames)
  BY DEF Alike
<1>2. \A i \in 1 .. Len(frames) : /\ frames'[i].on = frames[i].on /\ frames'[i].by = frames[i].by
                                  /\ frames'[i].own = frames[i].own
  BY DEF Alike
<1>3. Top'.on = Top.on
  BY <1>1, <1>2 DEF Top, Last
<1>4. \A i : Inner(frames', Len(frames), MapCalls, i) <=> Inner(frames, Len(frames), MapCalls, i)
  BY ONLY <1>2, Len(frames) \in Nat \ {0}, InnerSame
<1>5. \A i : Inner(frames', Len(frames), FileCalls, i) <=> Inner(frames, Len(frames), FileCalls, i)
  BY ONLY <1>2, Len(frames) \in Nat \ {0}, InnerSame
<1>6. {frames'[i].own : i \in 1 .. Len(frames)} = {frames[i].own : i \in 1 .. Len(frames)}
  BY ONLY <1>2
<1> QED
  BY <1>1, <1>2, <1>3, <1>4, <1>5, <1>6 DEF ParseFields

\* A token adds a pipe to tmp, and a refused render its memory.
LEMMA TokenStep ==
  ASSUME NestedInv, host = "parse", frames # <<>>, NEW x,
         Grows(plumbings, plumbings', tmp, x), Alike(frames, frames'), stack' \in Stacks,
         err' \in BOOLEAN, ~err' => ~err /\ \A p \in 1 .. Len(plumbings') : plumbings'[p].set,
         UNCHANGED <<fp, ftmap, tmp, pipes, next, mode, stacksize, opened, host, visited>>
  PROVE  NestedInv'
<1>1. /\ Len(frames) \in Nat \ {0} /\ Len(plumbings) \in Nat \ {0}
      /\ ParseCalls(frames, plumbings) /\ ParseFields
      /\ tmp \in 1 .. Len(plumbings) /\ plumbings[tmp].set
      /\ \A p \in 1 .. Len(plumbings) : ~plumbings[p].freed
  BY InParse
<1>2. Shape /\ Tree(plumbings)
  BY DEF NestedInv
<1>3. /\ plumbings' \in Seq(Plumbings) /\ Len(plumbings') \in {Len(plumbings), Len(plumbings) + 1}
      /\ \A i \in 1 .. Len(plumbings) :
           plumbings'[i].set = plumbings[i].set /\ plumbings'[i].freed = plumbings[i].freed
      /\ Len(plumbings') = Len(plumbings) + 1 => plumbings'[Len(plumbings')].freed = FALSE
  <2>1. Len(plumbings) + 1 # Len(plumbings)
    BY <1>1
  <2> QED
    BY <2>1 DEF Grows
<1>4. Len(plumbings') \in Nat \ {0} /\ Len(plumbings) <= Len(plumbings')
  BY ONLY <1>1, <1>3
<1>5. plumbings' # <<>>
  BY ONLY <1>3, <1>4, EmptySeq
<1>6. frames' \in Seq(Frames) /\ Len(frames') = Len(frames)
  BY DEF Alike
<1>7. frames' # <<>>
  BY ONLY <1>1, <1>6, EmptySeq
<1>8. Shape'
  <2>1. {ftmap', tmp', pipes'} \subseteq 1 .. Len(plumbings')
    BY <1>1, <1>2, <1>4 DEF Shape
  <2> QED
    BY <1>2, <1>3, <1>5, <1>6, <2>1 DEF Shape
<1>9. Tree(plumbings')
  <2>1. plumbings \in Seq(Plumbings) /\ plumbings # <<>>
    BY <1>2 DEF Shape
  <2> QED
    BY ONLY <1>1, <1>2, <2>1, Grows(plumbings, plumbings', tmp, x), TreeGrows
<1>10. ParseCalls(frames', plumbings')
  BY ONLY <1>1, <1>3, <1>4, Alike(frames, frames'), CallsGrow DEF Alike
<1>11. ParseFields'
  BY <1>1, FieldsAlike
<1>12. Calls'
  BY <1>7, <1>10, <1>11 DEF Calls, Modes, PLUMBER_CREATE, PLUMBER_INIT, PLUMBER_COMPUTE, PLUMBER_DESTROY
<1>13. \A p \in 1 .. Len(plumbings') : ~plumbings'[p].freed
  <2> SUFFICES ASSUME NEW p \in 1 .. Len(plumbings') PROVE ~plumbings'[p].freed
    OBVIOUS
  <2>1. p \in 1 .. Len(plumbings) \/ (p = Len(plumbings') /\ Len(plumbings') = Len(plumbings) + 1)
    BY ONLY <1>1, <1>3, p \in 1 .. Len(plumbings')
  <2> QED
    BY ONLY <1>1, <1>3, <2>1
<1>14. Freed'
  BY <1>13 DEF Freed, Behind, PLUMBER_DESTROY
<1>15. Unset'
  BY DEF Unset
<1> QED
  BY <1>8, <1>9, <1>12, <1>14, <1>15 DEF NestedInv
\* What the letters of an ordinary ugen let through is what it pops.
LEMMA ChecksFit ==
  ASSUME NEW sig \in Signatures, Even(sig), Lettered(sig), sporth_check_args(stack, sig.args),
         stack \in Stacks
  PROVE  ~stack.error /\ Supplied(sig.create, stack) /\ sig.create \in Effects
<1>1. sig.create \in Effects /\ sig.create.pop \in Seq(Types) /\ sig.args \in Seq(Types \union {"n"})
  BY DEF Signatures, Effects
<1>2. stack.vals \in Seq(Values)
  BY DEF Stacks
<1> DEFINE n == Len(sig.args)
           m == Len(stack.vals)
<1>3. n \in Nat /\ m \in Nat /\ n <= m /\ Len(sig.create.pop) = n /\ ~stack.error
  BY <1>1, <1>2 DEF Even, sporth_check_args
<1>4. \A i \in 1 .. n : sig.create.pop[i] = sig.args[n + 1 - i]
  BY DEF Lettered
<1>5. \A i \in 1 .. n : sig.args[i] = "n" \/ sig.args[i] = TypeOf(stack.vals[m - n + i])
  BY DEF sporth_check_args
<1> HIDE DEF n, m
<1>6. ASSUME NEW i \in 1 .. n PROVE TypeOf(stack.vals[m + 1 - i]) = sig.create.pop[i]
  <2>1. n + 1 - i \in 1 .. n /\ m - n + (n + 1 - i) = m + 1 - i
    BY <1>3
  <2>2. sig.create.pop[i] \in Types
    BY ONLY <1>1, <1>3, i \in 1 .. n, ElementOfSeq
  <2>3. sig.create.pop[i] # "n"
    BY ONLY <2>2 DEF Types
  <2> QED
    BY ONLY <1>4, <1>5, <2>1, <2>3, i \in 1 .. n
<1>7. Fits(stack.vals, sig.create.pop)
  BY <1>3, <1>6 DEF Fits, FromTop, m, n
<1>8. ~PopAll(stack, sig.create.pop).error
  BY ONLY <1>1, <1>3, <1>7, stack \in Stacks, PopAllExact
<1> QED
  BY <1>1, <1>3, <1>8 DEF Supplied

WithEntries(R, f, a) == [R EXCEPT ![f].entries = @ \o a]

\* Tables are entered where the code enters them.
LEMMA EntriesAdded ==
  ASSUME NEW P, NEW R, NEW p, NEW x, Grows(P, R, p, x), NEW f \in 1 .. Len(R), NEW a \in Seq(Entries)
  PROVE  LET Q == WithEntries(R, f, a) IN
         Grows(P, Q, p, x) /\ Len(Q) = Len(R)
         /\ \A i \in 1 .. Len(R) : Q[i].set = R[i].set
<1>1. R \in Seq(Plumbings) /\ R[f] \in Plumbings
  BY ElementOfSeq DEF Grows
<1> DEFINE y == [R[f] EXCEPT !.entries = R[f].entries \o a]
           Q == WithEntries(R, f, a)
<1>2. R[f].entries \in Seq(Entries)
  BY <1>1 DEF Plumbings
<1>3. R[f].entries \o a \in Seq(Entries)
  BY <1>2, ConcatProperties
<1>4. y \in Plumbings /\ y.pipes = R[f].pipes /\ y.set = R[f].set /\ y.freed = R[f].freed
  BY <1>1, <1>3 DEF Plumbings
<1>5. Q = [R EXCEPT ![f] = y]
  BY DEF WithEntries
<1> HIDE DEF y, Q
<1>6. /\ [R EXCEPT ![f] = y] \in Seq(Plumbings) /\ Len([R EXCEPT ![f] = y]) = Len(R)
      /\ \A i \in 1 .. Len(R) : [R EXCEPT ![f] = y][i] = IF i = f THEN y ELSE R[i]
  BY ONLY <1>1, <1>4, f \in 1 .. Len(R), ExceptSeq
<1>7. /\ Q \in Seq(Plumbings) /\ Len(Q) = Len(R)
      /\ \A i \in 1 .. Len(R) : Q[i] = IF i = f THEN y ELSE R[i]
  BY ONLY <1>5, <1>6
<1>8. \A i \in 1 .. Len(R) :
        Q[i].set = R[i].set /\ Q[i].freed = R[i].freed /\ Q[i].pipes = R[i].pipes
  BY ONLY <1>4, <1>7
<1>9. /\ x \in Pipes /\ p \in 1 .. Len(P)
      /\ \A i \in 1 .. Len(P) :
           /\ R[i].set = P[i].set /\ R[i].freed = P[i].freed
           /\ R[i].pipes = IF i = p THEN Append(P[i].pipes, x) ELSE P[i].pipes
      /\ \/ Len(R) = Len(P) /\ x.d = 0
         \/ /\ Len(R) = Len(P) + 1 /\ x.d = Len(R)
            /\ R[Len(R)].pipes = <<>> /\ R[Len(R)].freed = FALSE
  BY DEF Grows
<1>10. Len(R) \in Nat /\ Len(R) \in 1 .. Len(R) /\ Len(P) \in Nat /\ Len(P) <= Len(R)
  BY <1>1, <1>9
<1>11. \A i \in 1 .. Len(P) : i \in 1 .. Len(R)
  BY ONLY <1>10
<1>12. Grows(P, Q, p, x)
  BY ONLY <1>7, <1>8, <1>9, <1>10, <1>11 DEF Grows
<1> QED
  BY ONLY <1>7, <1>8, <1>12 DEF Q
\* A single pop.
LEMMA PopType == ASSUME NEW st \in Stacks, NEW type PROVE Pop(st, type) \in Stacks
<1>1. /\ st.vals \in Seq(Values) /\ Len(st.vals) <= SPORTH_STACK_SIZE
      /\ st.error \in BOOLEAN /\ st = [vals |-> st.vals, error |-> st.error]
  BY DEF Stacks
<1>2. CASE st.vals # <<>>
  <2>1. Len(st.vals) \in Nat \ {0}
    BY ONLY <1>1, <1>2, EmptySeq
  <2>2. \A i \in 1 .. Len(st.vals) - 1 : st.vals[i] \in Values
    BY ONLY <1>1, <2>1, ElementOfSeq
  <2> DEFINE n == Len(st.vals) - 1
             s == SubSeq(st.vals, 1, n)
  <2>3. n \in Nat
    BY <2>1
  <2>4. s \in Seq(Values) /\ Len(s) = IF 1 <= n THEN n - 1 + 1 ELSE 0
    BY <2>2, <2>3, SubSeqProperties
  <2>5. Len(s) <= SPORTH_STACK_SIZE
    BY ONLY <1>1, <2>1, <2>4, StackAssumption DEF n
  <2> HIDE DEF s
  <2>6. [vals |-> s, error |-> st.error] \in Stacks
    BY <1>1, <2>4, <2>5 DEF Stacks
  <2>7. Pop(st, type) \in {st, [vals |-> s, error |-> st.error], Raise(st)}
    BY <1>1 DEF Pop, s
  <2> QED
    BY <2>6, <2>7, RaiseType
<1>3. CASE st.vals = <<>>
  BY <1>3, RaiseType DEF Pop
<1> QED
  BY <1>2, <1>3

\* The argument of a nesting ugen is a string, and there is room for a file.
LEMMA ArgumentType ==
  ASSUME stack \in Stacks, opened \subseteq 1 .. MaxOpen, Given
  PROVE  Argument \in Strings /\ (CanOpen => Handle \in 1 .. MaxOpen /\ Handle \notin opened)
<1>1. stack.vals \in Seq(Values) /\ Len(stack.vals) \in Nat
  BY DEF Stacks
<1>2. 1 <= Len(stack.vals) /\ TypeOf(stack.vals[Len(stack.vals) - 1 + 1]) = "s"
  BY DEF Given, sporth_check_args
<1>3. Argument = stack.vals[Len(stack.vals)] /\ Len(stack.vals) - 1 + 1 = Len(stack.vals)
  BY <1>1 DEF Argument, FromTop
<1>4. Argument \in Values
  BY <1>1, <1>2, <1>3, ElementOfSeq
<1>5. Argument # FLOAT
  BY <1>2, <1>3 DEF TypeOf
<1>6. ASSUME CanOpen PROVE \E h \in 1 .. MaxOpen : h \notin opened
  <2>1. MaxOpen \in Nat /\ Cardinality(1 .. MaxOpen) = MaxOpen
    BY NestedAssumption, UpToCardinality
  <2>2. Cardinality(opened) < MaxOpen
    BY <1>6 DEF CanOpen
  <2>3. CASE opened = 1 .. MaxOpen
    BY <2>1, <2>2, <2>3
  <2> QED
    BY <2>3
<1>7. CanOpen => Handle \in 1 .. MaxOpen /\ Handle \notin opened
  BY <1>6 DEF Handle
<1> QED
  BY <1>4, <1>5, <1>7 DEF Values

\* A token without a call of its own: a value, an ugen or a refused one.
LEMMA PlainToken ==
  ASSUME NestedInv,
         LexValue \/ NotNested \/ \E u \in DOMAIN Sig : Lex(u) \/ LexRefused(u)
  PROVE  NestedInv'
<1>1. Parsing
  BY DEF LexValue, NotNested, Lex, LexRefused, Word
<1>2. host = "parse" /\ frames # <<>> /\ ~err /\ Top.todo # <<>>
  BY <1>1 DEF Parsing
<1>3. /\ Len(plumbings) \in Nat \ {0} /\ tmp \in 1 .. Len(plumbings) /\ tmp = Top.on
      /\ Len(frames) \in Nat \ {0}
  BY <1>2, InParse
<1>4. Shape /\ Unset
  BY DEF NestedInv
<1>5. plumbings \in Seq(Plumbings) /\ frames \in Seq(Frames) /\ stack \in Stacks
      /\ ftmap \in 1 .. Len(plumbings)
  BY <1>4 DEF Shape
<1>6. Alike(frames, Taken) /\ Token \in Tokens
  BY <1>2, <1>5, TakenAlike DEF Token
<1>7. Alike(frames, frames)
  BY <1>5 DEF Alike
<1>8. \A p \in 1 .. Len(plumbings) : plumbings[p].set
  BY <1>2, <1>4 DEF Unset
<1>9. ASSUME NEW x \in Pipes, x.d = 0
      PROVE  /\ Grows(plumbings, WithPipe(plumbings, tmp, x), tmp, x)
             /\ Len(WithPipe(plumbings, tmp, x)) = Len(plumbings)
             /\ \A i \in 1 .. Len(plumbings) : WithPipe(plumbings, tmp, x)[i].set = plumbings[i].set
  BY ONLY <1>3, <1>5, <1>9, PipeAdded
<1>10. CASE LexValue
  <2> DEFINE x == [type |-> Token.type, ud |-> Token.ud, d |-> 0]
  <2>1. Token.type # "func"
    BY <1>10 DEF LexValue
  <2>2. x \in Pipes /\ Token.ud \in Values /\ x.d = 0
    BY <1>6, <2>1 DEF Tokens, Pipes, Values
  <2>3. plumbings' = WithPipe(plumbings, tmp, x)
    BY <1>3, <1>10 DEF LexValue, AddPipe, WithPipe
  <2> HIDE DEF x
  <2>4. stack' \in Stacks
    BY <1>5, <1>10, <2>2, PushType DEF LexValue
  <2>5. /\ frames' = Taken /\ err' = err
        /\ UNCHANGED <<fp, ftmap, tmp, pipes, next, mode, stacksize, opened, host, visited>>
    BY <1>10 DEF LexValue
  <2>6. err' \in BOOLEAN
    BY <1>4, <2>5 DEF Shape
  <2>7. Grows(plumbings, plumbings', tmp, x) /\ \A p \in 1 .. Len(plumbings') : plumbings'[p].set
    BY ONLY <1>8, <1>9, <2>2, <2>3
  <2> QED
    BY <1>2, <1>6, <2>4, <2>5, <2>6, <2>7, TokenStep
<1>11. ASSUME NEW u \in DOMAIN Sig, Lex(u) PROVE NestedInv'
  <2> DEFINE x == [type |-> "ugen", ud |-> u, d |-> 0]
             R == WithPipe(plumbings, tmp, x)
             e == Sig[u].create
  <2>1. x \in Pipes /\ x.d = 0
    BY DEF Pipes
  <2>2. Grows(plumbings, R, tmp, x) /\ Len(R) = Len(plumbings)
        /\ \A i \in 1 .. Len(plumbings) : R[i].set = plumbings[i].set
    BY ONLY <1>9, <2>1
  <2>3. Sig[u] \in Signatures /\ Even(Sig[u]) /\ Lettered(Sig[u])
    BY NestedAssumption
  <2>4. sporth_check_args(stack, Sig[u].args)
    BY <1>11 DEF Lex
  <2>5. ~stack.error /\ Supplied(e, stack) /\ e \in Effects
    BY <1>5, <2>3, <2>4, ChecksFit
  <2>6. Added(e, stack) \in Seq(Entries) /\ Apply(e, stack) \in Stacks
    BY ONLY <1>5, <2>5, AddedType, ApplyType
  <2>7. plumbings' = WithEntries(R, ftmap, Added(e, stack))
    BY <1>11 DEF Lex, AddPipe, WithPipe, WithEntries
  <2>8. stack' = Apply(e, stack)
    BY <1>11 DEF Lex
  <2> HIDE DEF R, x, e
  <2>9. /\ Grows(plumbings, plumbings', tmp, x) /\ Len(plumbings') = Len(R)
        /\ \A i \in 1 .. Len(R) : plumbings'[i].set = R[i].set
    BY ONLY <1>5, <2>2, <2>6, <2>7, EntriesAdded
  <2>10. /\ frames' = Taken /\ err' = err
         /\ UNCHANGED <<fp, ftmap, tmp, pipes, next, mode, stacksize, opened, host, visited>>
    BY <1>11 DEF Lex
  <2>11. err' \in BOOLEAN
    BY <1>4, <2>10 DEF Shape
  <2>12. \A p \in 1 .. Len(plumbings') : plumbings'[p].set
    BY ONLY <1>8, <2>2, <2>9
  <2> QED
    BY <1>2, <1>6, <2>6, <2>8, <2>9, <2>10, <2>11, <2>12, TokenStep
<1>12. ASSUME NEW x \in Pipes, Grows(plumbings, plumbings', tmp, x), Refused
       PROVE  NestedInv'
  <2>1. /\ frames' = frames /\ err' = TRUE /\ stack' = Raise(stack)
        /\ UNCHANGED <<fp, ftmap, tmp, pipes, next, mode, stacksize, opened, host, visited>>
    BY <1>12 DEF Refused
  <2>2. stack' \in Stacks
    BY <1>5, <2>1, RaiseType
  <2> QED
    BY <1>2, <1>7, <1>12, <2>1, <2>2, TokenStep
<1>13. ASSUME NEW u \in DOMAIN Sig \union {"eval", "load"}, Refused,
              plumbings' = AddPipe(tmp, "ugen", u, 0)
       PROVE  NestedInv'
  <2> DEFINE x == [type |-> "ugen", ud |-> u, d |-> 0]
  <2>1. x \in Pipes /\ x.d = 0
    BY DEF Pipes
  <2>2. plumbings' = WithPipe(plumbings, tmp, x)
    BY <1>13 DEF AddPipe, WithPipe
  <2> HIDE DEF x
  <2> QED
    BY <1>9, <1>12, <1>13, <2>1, <2>2
<1>14. ASSUME UNCHANGED plumbings, Refused PROVE NestedInv'
  <2>1. /\ err' = TRUE /\ stack' = Raise(stack) /\ plumbings' = plumbings
        /\ UNCHANGED <<fp, ftmap, tmp, pipes, next, mode, stacksize, opened, frames, host, visited>>
    BY <1>14 DEF Refused
  <2>2. stack' \in Stacks
    BY <1>5, <2>1, RaiseType
  <2>3. Shape'
    BY <1>4, <2>1, <2>2 DEF Shape
  <2> QED
    BY <2>1, <2>3 DEF NestedInv, Calls, ParseFields, PassFields, Freed, Behind, Unset, Top
<1>16. ASSUME NEW u \in DOMAIN Sig, LexRefused(u) PROVE NestedInv'
  <2>1. Refused /\ (UNCHANGED plumbings \/ plumbings' = AddPipe(tmp, "ugen", u, 0))
    BY <1>16 DEF LexRefused
  <2> QED
    BY <1>13, <1>14, <2>1
<1>15. CASE NotNested
  <2>1. CASE Refused /\ plumbings' = Append(AddPipe(tmp, "ugen", "render", Len(plumbings) + 1), Malloced)
    <3> DEFINE x == [type |-> "ugen", ud |-> "render", d |-> Len(plumbings) + 1]
    <3>1. x \in Pipes /\ x.d = Len(plumbings) + 1
      BY <1>3 DEF Pipes
    <3>2. plumbings' = Append(WithPipe(plumbings, tmp, x), Malloced)
      BY <2>1 DEF AddPipe, WithPipe
    <3> HIDE DEF x
    <3>3. Malloced \in Plumbings /\ Malloced.pipes = <<>> /\ Malloced.freed = FALSE
      BY EmptySeq DEF Malloced, plumbing_init, Plumbings
    <3>4. Grows(plumbings, plumbings', tmp, x)
      BY ONLY <1>3, <1>5, <3>1, <3>2, <3>3, PlumbingAdded
    <3> QED
      BY <1>12, <2>1, <3>1, <3>4
  <2>2. ASSUME Refused, NEW u \in {"eval", "load"}, plumbings' = AddPipe(tmp, "ugen", u, 0)
        PROVE  NestedInv'
    BY <1>13, <2>2
  <2> QED
    BY <1>15, <2>1, <2>2 DEF NotNested
<1> QED
  BY <1>10, <1>11, <1>15, <1>16
---------------------------------------------------------------------------
(* A handler that parses, and its return.                                  *)

\* A call depends on those before it only.
LEMMA CallKept ==
  ASSUME NEW P, NEW fs, NEW gs, NEW k \in Nat \ {0}, \A i \in 1 .. k : gs[i] = fs[i],
         ParseCall(fs, P, k)
  PROVE  ParseCall(gs, P, k)
<1>1. /\ gs[k] = fs[k] /\ \A j \in 1 .. k - 1 : gs[j] = fs[j]
      /\ k # 1 => gs[k - 1] = fs[k - 1]
      /\ k - 1 \in Nat
  OBVIOUS
<1>2. \A i \in 1 .. k - 1 : gs[i].by = fs[i].by
  BY ONLY <1>1
<1>3. /\ \A i : Inner(gs, k - 1, FileCalls, i) <=> Inner(fs, k - 1, FileCalls, i)
      /\ \A i : Inner(gs, k - 1, MapCalls, i) <=> Inner(fs, k - 1, MapCalls, i)
  BY ONLY <1>1, <1>2, InnerSame
<1>4. fs[k].by \in {"eval", "load"} => k # 1
  BY DEF ParseCall
<1>5. /\ fs[k].by \in {"load", "render"} =>
           \A i \in 1 .. k - 1 : Inner(gs, k - 1, FileCalls, i) => fs[k].fp = gs[i].own
      /\ fs[k].by = "render" =>
           \A i \in 1 .. k - 1 : Inner(gs, k - 1, MapCalls, i) => fs[k].ftmap = gs[i].on
  BY ONLY ParseCall(fs, P, k), <1>1, <1>3 DEF ParseCall
<1>6. /\ k # 1 => fs[k].tmp = gs[k - 1].on
      /\ fs[k].by \in {"eval", "load"} => fs[k].on = gs[k - 1].on
  BY ONLY ParseCall(fs, P, k), <1>1, <1>4 DEF ParseCall
<1>7. \A j \in 1 .. k - 1 : gs[j].own = fs[k].own => fs[k].own = NoFile
  BY ONLY ParseCall(fs, P, k), <1>1 DEF ParseCall
<1>8. /\ fs[k].on \in 1 .. Len(P) /\ P[fs[k].on].set
      /\ (k = 1) <=> (fs[k].by = "host")
      /\ k = 1 => fs[k].on = Main /\ fs[k].tmp = Main
      /\ fs[k].by = "eval" => fs[k].own = NoFile
      /\ fs[k].own \in 0 .. MaxOpen
  BY ONLY ParseCall(fs, P, k) DEF ParseCall
<1>9. gs[k] = fs[k]
  BY ONLY <1>1
<1> QED
  BY ONLY <1>5, <1>6, <1>7, <1>8, <1>9 DEF ParseCall

\* One more call, that holds what the one before needs.
LEMMA PushCall ==
  ASSUME NEW P, NEW fs \in Seq(Frames), NEW n \in Nat \ {0}, n = Len(fs), ParseCalls(fs, P),
         NEW x \in Frames, x.by \in Nesting, x.on \in 1 .. Len(P), P[x.on].set, x.tmp = fs[n].on,
         x.by \in {"eval", "load"} => x.on = fs[n].on,
         x.by = "eval" => x.own = NoFile,
         x.by \in {"load", "render"} => \A i \in 1 .. n : Inner(fs, n, FileCalls, i) => x.fp = fs[i].own,
         x.by = "render" => \A i \in 1 .. n : Inner(fs, n, MapCalls, i) => x.ftmap = fs[i].on,
         x.own \in 0 .. MaxOpen, \A j \in 1 .. n : fs[j].own = x.own => x.own = NoFile,
         NEW gs, gs = Append(fs, x)
  PROVE  ParseCalls(gs, P)
<1>0. /\ Len(Append(fs, x)) = n + 1 /\ Append(fs, x)[n + 1] = x
      /\ \A i \in 1 .. n : Append(fs, x)[i] = fs[i]
  BY Pushed
<1>1. /\ Len(gs) = n + 1 /\ gs[n + 1] = x /\ \A i \in 1 .. n : gs[i] = fs[i]
  BY ONLY <1>0, gs = Append(fs, x)
<1>2. ASSUME NEW m \in 0 .. n, NEW kinds
      PROVE  \A i : Inner(gs, m, kinds, i) <=> Inner(fs, m, kinds, i)
  <2>1. m \in Nat /\ \A i \in 1 .. m : i \in 1 .. n
    OBVIOUS
  <2>2. \A i \in 1 .. m : gs[i].by = fs[i].by
    BY ONLY <1>1, <2>1
  <2> QED
    BY ONLY <2>1, <2>2, InnerSame
<1>3. ASSUME NEW k \in 1 .. n PROVE ParseCall(gs, P, k)
  <2>1. ParseCall(fs, P, k)
    BY DEF ParseCalls
  <2>2. k \in Nat \ {0} /\ \A i \in 1 .. k : gs[i] = fs[i]
    BY <1>1
  <2> QED
    BY ONLY <2>1, <2>2, CallKept
<1>4. ParseCall(gs, P, n + 1)
  <2>1. /\ gs[n + 1] = x /\ n + 1 - 1 = n /\ n + 1 # 1 /\ gs[n] = fs[n] /\ n \in 0 .. n
    BY <1>1
  <2>2. x.by # "host"
    BY DEF Nesting
  <2>3. /\ x.by \in {"load", "render"} => \A i \in 1 .. n : Inner(gs, n, FileCalls, i) => x.fp = gs[i].own
        /\ x.by = "render" => \A i \in 1 .. n : Inner(gs, n, MapCalls, i) => x.ftmap = gs[i].on
    BY <1>1, <1>2, <2>1
  <2>4. \A j \in 1 .. n : gs[j].own = x.own => x.own = NoFile
    BY <1>1
  <2>5. x.tmp = gs[n].on /\ (x.by \in {"eval", "load"} => x.on = gs[n].on)
    BY <2>1
  <2> QED
    BY <2>1, <2>2, <2>3, <2>4, <2>5 DEF ParseCall
<1>5. \A k \in 1 .. n + 1 : k \in 1 .. n \/ k = n + 1
  OBVIOUS
<1> QED
  BY ONLY <1>1, <1>3, <1>4, <1>5 DEF ParseCalls

\* eval, load and render, each with the frame it pushes.
LEMMA CallStep ==
  ASSUME NestedInv, host = "parse", frames # <<>>, ~err,
         NEW y, Grows(plumbings, plumbings', tmp, y),
         NEW gs, Alike(frames, gs), NEW x \in Frames, frames' = Append(gs, x),
         x.by \in Nesting, x.on \in 1 .. Len(plumbings'), x.tmp = tmp,
         x.by \in {"eval", "load"} => x.on = tmp,
         x.by = "eval" => x.own = NoFile,
         x.by \in {"load", "render"} => x.fp = fp,
         x.by = "render" => x.ftmap = ftmap,
         x.own \in 0 .. MaxOpen, x.own \notin opened,
         tmp' = x.on, ftmap' = IF x.by = "render" THEN x.on ELSE ftmap,
         fp' = IF x.by \in {"load", "render"} THEN x.own ELSE fp,
         opened' = opened \union ({x.own} \ {NoFile}),
         stack' \in Stacks, \A p \in 1 .. Len(plumbings') : plumbings'[p].set,
         UNCHANGED <<pipes, next, mode, stacksize, err, host, visited>>
  PROVE  NestedInv'
<1>1. /\ Len(frames) \in Nat \ {0} /\ Len(plumbings) \in Nat \ {0}
      /\ ParseCalls(frames, plumbings) /\ ParseFields
      /\ tmp \in 1 .. Len(plumbings) /\ plumbings[tmp].set /\ tmp = Top.on /\ Top = frames[Len(frames)]
      /\ \A p \in 1 .. Len(plumbings) : ~plumbings[p].freed
  BY InParse
<1>2. Shape /\ Tree(plumbings)
  BY DEF NestedInv
<1>3. /\ plumbings' \in Seq(Plumbings) /\ Len(plumbings') \in {Len(plumbings), Len(plumbings) + 1}
      /\ \A i \in 1 .. Len(plumbings) :
           plumbings'[i].set = plumbings[i].set /\ plumbings'[i].freed = plumbings[i].freed
      /\ Len(plumbings') = Len(plumbings) + 1 => plumbings'[Len(plumbings')].freed = FALSE
  <2>1. Len(plumbings) + 1 # Len(plumbings)
    BY <1>1
  <2> QED
    BY <2>1 DEF Grows
<1>4. Len(plumbings') \in Nat \ {0} /\ Len(plumbings) <= Len(plumbings')
  BY ONLY <1>1, <1>3
<1>5. plumbings' # <<>>
  BY ONLY <1>3, <1>4, EmptySeq
<1> DEFINE n == Len(frames)
<1>6. gs \in Seq(Frames) /\ Len(gs) = n
  BY DEF Alike
<1>7. \A i \in 1 .. n : gs[i].on = frames[i].on /\ gs[i].by = frames[i].by /\ gs[i].own = frames[i].own
  BY DEF Alike
<1>8. /\ frames' \in Seq(Frames) /\ Len(frames') = n + 1 /\ frames' # <<>> /\ Last(frames') = x
      /\ frames'[n + 1] = x /\ \A i \in 1 .. n : frames'[i] = gs[i]
  <2>1. /\ Append(gs, x) \in Seq(Frames) /\ Len(Append(gs, x)) = Len(gs) + 1
        /\ Append(gs, x) # <<>> /\ Last(Append(gs, x)) = x
        /\ Append(gs, x)[Len(gs) + 1] = x /\ \A i \in 1 .. Len(gs) : Append(gs, x)[i] = gs[i]
    BY ONLY <1>6, x \in Frames, Pushed
  <2> QED
    BY ONLY <1>6, <2>1, frames' = Append(gs, x)
<1>9. n \in Nat \ {0} /\ n \in 1 .. n
  BY <1>1
<1> HIDE DEF n
<1>10. ParseCalls(gs, plumbings')
  BY ONLY <1>1, <1>3, <1>4, Alike(frames, gs), CallsGrow DEF Alike
<1>11. ASSUME NEW kinds PROVE \A i : Inner(gs, n, kinds, i) <=> Inner(frames, n, kinds, i)
  BY ONLY <1>7, <1>9, InnerSame
<1>12. /\ \A i \in 1 .. n : Inner(gs, n, FileCalls, i) => fp = gs[i].own
       /\ \A i \in 1 .. n : Inner(gs, n, MapCalls, i) => ftmap = gs[i].on
  BY <1>1, <1>7, <1>11 DEF ParseFields, n
<1>13. opened = {gs[i].own : i \in 1 .. n} \ {NoFile}
  <2>1. {gs[i].own : i \in 1 .. n} = {frames[i].own : i \in 1 .. n}
    BY ONLY <1>7
  <2> QED
    BY <1>1, <2>1 DEF ParseFields, n
<1>14. ParseCalls(frames', plumbings')
  <2>1. \A j \in 1 .. n : gs[j].own = x.own => x.own = NoFile
    BY <1>13
  <2>2. gs[n].on = tmp
    BY <1>1, <1>7, <1>9 DEF n
  <2>3. plumbings'[x.on].set
    OBVIOUS
  <2>4. x.tmp = gs[n].on /\ (x.by \in {"eval", "load"} => x.on = gs[n].on)
    BY <2>2
  <2>5. /\ x.by \in {"load", "render"} => \A i \in 1 .. n : Inner(gs, n, FileCalls, i) => x.fp = gs[i].own
        /\ x.by = "render" => \A i \in 1 .. n : Inner(gs, n, MapCalls, i) => x.ftmap = gs[i].on
    BY <1>12
  <2> QED
    BY <1>6, <1>9, <1>10, <2>1, <2>3, <2>4, <2>5, PushCall
<1>15. ParseFields'
  <2>1. Top' = x
    BY <1>8 DEF Top
  <2>2. ASSUME NEW kinds PROVE \A i : Inner(frames', n, kinds, i) <=> Inner(gs, n, kinds, i)
    <3>1. \A i \in 1 .. n : frames'[i].by = gs[i].by
      BY <1>8
    <3> QED
      BY ONLY <1>9, <3>1, InnerSame
  <2>3. ASSUME NEW i \in 1 .. n + 1, Inner(frames', n + 1, MapCalls, i)
        PROVE  ftmap' = frames'[i].on
    <3>1. CASE x.by = "render"
      <4>1. Inner(frames', n + 1, MapCalls, n + 1)
        BY ONLY <1>8, <1>9, <3>1, InnerPush DEF MapCalls
      <4>2. i = n + 1
        BY ONLY <1>9, <2>3, <4>1, InnerUnique
      <4> QED
        BY <1>8, <3>1, <4>2
    <3>2. CASE x.by # "render"
      <4>1. frames'[n + 1].by \notin MapCalls
        BY <1>8, <3>2 DEF MapCalls, Nesting
      <4>2. Inner(frames', n, MapCalls, i)
        BY ONLY <1>9, <2>3, <4>1, InnerPush
      <4>3. Inner(gs, n, MapCalls, i) /\ i \in 1 .. n
        BY ONLY <2>2, <4>2 DEF Inner
      <4> QED
        BY <1>8, <1>12, <3>2, <4>3
    <3> QED
      BY <3>1, <3>2
  <2>4. ASSUME NEW i \in 1 .. n + 1, Inner(frames', n + 1, FileCalls, i)
        PROVE  fp' = frames'[i].own
    <3>1. CASE x.by \in {"load", "render"}
      <4>1. Inner(frames', n + 1, FileCalls, n + 1)
        BY ONLY <1>8, <1>9, <3>1, InnerPush DEF FileCalls
      <4>2. i = n + 1
        BY ONLY <1>9, <2>4, <4>1, InnerUnique
      <4> QED
        BY <1>8, <3>1, <4>2
    <3>2. CASE x.by \notin {"load", "render"}
      <4>1. frames'[n + 1].by \notin FileCalls
        BY <1>8, <3>2 DEF FileCalls, Nesting
      <4>2. Inner(frames', n, FileCalls, i)
        BY ONLY <1>9, <2>4, <4>1, InnerPush
      <4>3. Inner(gs, n, FileCalls, i) /\ i \in 1 .. n
        BY ONLY <2>2, <4>2 DEF Inner
      <4> QED
        BY <1>8, <1>12, <3>2, <4>3
    <3> QED
      BY <3>1, <3>2
  <2>5. {frames'[i].own : i \in 1 .. n + 1} = {gs[i].own : i \in 1 .. n} \union {x.own}
    <3>1. 1 .. n + 1 = (1 .. n) \union {n + 1}
      BY <1>9
    <3>2. \A i \in 1 .. n : frames'[i].own = gs[i].own
      BY <1>8
    <3>3. frames'[n + 1].own = x.own
      BY <1>8
    <3> QED
      BY ONLY <3>1, <3>2, <3>3
  <2>6. opened' = {frames'[i].own : i \in 1 .. n + 1} \ {NoFile}
    BY <1>13, <2>5
  <2>7. pipes' = Main
    BY <1>1 DEF ParseFields
  <2> QED
    BY <1>8, <2>1, <2>3, <2>4, <2>6, <2>7 DEF ParseFields
<1>16. Shape'
  <2>1. {ftmap', tmp', pipes'} \subseteq 1 .. Len(plumbings')
    BY <1>1, <1>2, <1>4 DEF Shape
  <2>2. fp' \in 0 .. MaxOpen
    BY <1>2 DEF Shape
  <2>3. opened' \subseteq 1 .. MaxOpen
    <3>1. x.own \in {NoFile} \union 1 .. MaxOpen
      BY NestedAssumption DEF NoFile
    <3> QED
      BY <1>2, <3>1 DEF Shape
  <2> QED
    BY <1>2, <1>3, <1>5, <1>8, <2>1, <2>2, <2>3 DEF Shape
<1>17. Tree(plumbings')
  <2>1. plumbings \in Seq(Plumbings) /\ plumbings # <<>>
    BY <1>2 DEF Shape
  <2> QED
    BY ONLY <1>1, <1>2, <2>1, Grows(plumbings, plumbings', tmp, y), TreeGrows
<1>18. Calls'
  BY <1>8, <1>14, <1>15
  DEF Calls, Modes, PLUMBER_CREATE, PLUMBER_INIT, PLUMBER_COMPUTE, PLUMBER_DESTROY
<1>19. \A p \in 1 .. Len(plumbings') : ~plumbings'[p].freed
  <2> SUFFICES ASSUME NEW p \in 1 .. Len(plumbings') PROVE ~plumbings'[p].freed
    OBVIOUS
  <2>1. p \in 1 .. Len(plumbings) \/ (p = Len(plumbings') /\ Len(plumbings') = Len(plumbings) + 1)
    BY ONLY <1>1, <1>3, p \in 1 .. Len(plumbings')
  <2> QED
    BY ONLY <1>1, <1>3, <2>1
<1>20. Freed'
  BY <1>19 DEF Freed, Behind, PLUMBER_DESTROY
<1>21. Unset'
  BY DEF Unset
<1> QED
  BY <1>16, <1>17, <1>18, <1>20, <1>21 DEF NestedInv
\* A handler that calls the parser.
LEMMA NestingStep ==
  ASSUME NestedInv, sporth_eval \/ sporth_load \/ sporth_render
  PROVE  NestedInv'
<1>1. Parsing /\ Given
  BY DEF sporth_eval, sporth_load, sporth_render, Word
<1>2. host = "parse" /\ frames # <<>> /\ ~err /\ Top.todo # <<>>
  BY <1>1 DEF Parsing
<1>3. /\ Len(plumbings) \in Nat \ {0} /\ tmp \in 1 .. Len(plumbings)
      /\ Len(frames) \in Nat \ {0}
  BY <1>2, InParse
<1>4. Shape /\ Unset
  BY DEF NestedInv
<1>5. /\ plumbings \in Seq(Plumbings) /\ frames \in Seq(Frames) /\ stack \in Stacks
      /\ ftmap \in 1 .. Len(plumbings) /\ fp \in 0 .. MaxOpen /\ opened \subseteq 1 .. MaxOpen
  BY <1>4 DEF Shape
<1>6. Alike(frames, Taken)
  BY <1>2, <1>5, TakenAlike
<1>7. \A p \in 1 .. Len(plumbings) : plumbings[p].set
  BY <1>2, <1>4 DEF Unset
<1>8. ASSUME NEW x \in Pipes, x.d = 0
      PROVE  /\ Grows(plumbings, WithPipe(plumbings, tmp, x), tmp, x)
             /\ Len(WithPipe(plumbings, tmp, x)) = Len(plumbings)
             /\ \A i \in 1 .. Len(plumbings) : WithPipe(plumbings, tmp, x)[i].set = plumbings[i].set
  BY ONLY <1>3, <1>5, <1>8, PipeAdded
<1>9. Argument \in Strings /\ (CanOpen => Handle \in 1 .. MaxOpen /\ Handle \notin opened)
  BY <1>1, <1>5, ArgumentType
<1>10. Codes[Argument] \in Seq(Tokens) /\ (CanOpen => Files[Argument] \in Seq(Tokens))
  BY <1>9, NestedAssumption DEF CanOpen
<1>11. Pop(stack, "s") \in Stacks
  BY <1>5, PopType
<1>12. NoCall \in Frames
  BY EmptySeq DEF NoCall, Frames, Spots, Main, NoFile
<1>13. 0 \notin opened /\ MaxOpen \in Nat
  BY <1>5, NestedAssumption
<1>14. CASE sporth_eval
  <2> DEFINE y == [type |-> "ugen", ud |-> "eval", d |-> 0]
             x == [NoCall EXCEPT !.by = "eval", !.on = tmp, !.todo = Codes[Argument], !.tmp = tmp]
  <2>1. y \in Pipes /\ y.d = 0
    BY DEF Pipes
  <2>2. plumbings' = WithPipe(plumbings, tmp, y)
    BY <1>14 DEF sporth_eval, AddPipe, WithPipe
  <2>3. /\ x \in Frames /\ x.by = "eval" /\ x.on = tmp /\ x.tmp = tmp /\ x.own = NoFile
    <3>1. tmp \in Nat /\ Codes[Argument] \in Seq(Tokens) /\ NoCall.own = NoFile
      BY <1>3, <1>10 DEF NoCall
    <3> QED
      BY <1>12, <3>1 DEF Frames, Nesting
  <2>4. /\ frames' = Append(Taken, x) /\ stack' = Pop(stack, "s")
        /\ UNCHANGED <<fp, ftmap, tmp, pipes, next, mode, opened, err, host, stacksize, visited>>
    BY <1>14 DEF sporth_eval
  <2> HIDE DEF x, y
  <2>5. /\ Grows(plumbings, plumbings', tmp, y) /\ Len(plumbings') = Len(plumbings)
        /\ \A p \in 1 .. Len(plumbings') : plumbings'[p].set
    BY ONLY <1>7, <1>8, <2>1, <2>2
  <2>6. /\ x.by \in Nesting /\ x.on \in 1 .. Len(plumbings') /\ x.own \in 0 .. MaxOpen
        /\ x.own \notin opened /\ opened' = opened \union ({x.own} \ {NoFile})
        /\ x.by \notin {"load", "render"}
    BY <1>3, <1>13, <2>3, <2>4, <2>5 DEF Nesting, NoFile
  <2>7. tmp' = x.on /\ fp' = fp /\ ftmap' = ftmap /\ stack' \in Stacks
    BY <1>11, <2>3, <2>4
  <2> QED
    BY <1>2, <1>6, <2>3, <2>4, <2>5, <2>6, <2>7, CallStep
<1>15. CASE sporth_load
  <2> DEFINE y == [type |-> "ugen", ud |-> "load", d |-> 0]
             x == [NoCall EXCEPT !.by = "load", !.on = tmp, !.todo = Files[Argument],
                                 !.own = Handle, !.tmp = tmp, !.fp = fp]
  <2>0. CanOpen
    BY <1>15 DEF sporth_load
  <2>1. y \in Pipes /\ y.d = 0
    BY DEF Pipes
  <2>2. plumbings' = WithPipe(plumbings, tmp, y)
    BY <1>15 DEF sporth_load, AddPipe, WithPipe
  <2>3. /\ x \in Frames /\ x.by = "load" /\ x.on = tmp /\ x.tmp = tmp /\ x.own = Handle /\ x.fp = fp
    <3>1. Handle \in Nat /\ tmp \in Nat /\ fp \in Nat /\ Files[Argument] \in Seq(Tokens)
      BY <1>3, <1>5, <1>9, <1>10, <1>13, <2>0
    <3> QED
      BY <1>12, <3>1 DEF Frames, Nesting
  <2>4. /\ frames' = Append(Taken, x) /\ stack' = Pop(stack, "s")
        /\ fp' = Handle /\ opened' = opened \union {Handle}
        /\ UNCHANGED <<ftmap, tmp, pipes, next, mode, err, host, stacksize, visited>>
    BY <1>15 DEF sporth_load
  <2> HIDE DEF x, y
  <2>5. /\ Grows(plumbings, plumbings', tmp, y) /\ Len(plumbings') = Len(plumbings)
        /\ \A p \in 1 .. Len(plumbings') : plumbings'[p].set
    BY ONLY <1>7, <1>8, <2>1, <2>2
  <2>6. /\ x.by \in Nesting /\ x.on \in 1 .. Len(plumbings') /\ x.own \in 0 .. MaxOpen
        /\ x.own \notin opened /\ x.own # NoFile
        /\ x.by \in {"load", "render"} /\ x.by # "render" /\ x.by # "eval"
    BY <1>3, <1>9, <1>13, <2>0, <2>3, <2>5 DEF Nesting, NoFile
  <2>7. tmp' = x.on /\ fp' = x.own /\ ftmap' = ftmap /\ stack' \in Stacks
        /\ opened' = opened \union ({x.own} \ {NoFile})
    BY <1>11, <2>3, <2>4, <2>6
  <2> QED
    BY <1>2, <1>6, <2>3, <2>4, <2>5, <2>6, <2>7, CallStep
<1>16. CASE sporth_render
  <2> DEFINE d == Len(plumbings) + 1
             y == [type |-> "ugen", ud |-> "render", d |-> d]
             x == [NoCall EXCEPT !.by = "render", !.on = d, !.todo = Files[Argument],
                                 !.own = Handle, !.tmp = tmp, !.fp = fp, !.ftmap = ftmap]
  <2>0. CanOpen
    BY <1>16 DEF sporth_render
  <2>1. y \in Pipes /\ y.d = d
    BY <1>3 DEF Pipes
  <2>2. plumbings' = Append(WithPipe(plumbings, tmp, y), plumbing_init)
    BY <1>16 DEF sporth_render, AddPipe, WithPipe
  <2>3. /\ x \in Frames /\ x.by = "render" /\ x.on = d /\ x.tmp = tmp /\ x.own = Handle /\ x.fp = fp
        /\ x.ftmap = ftmap
    <3>1. /\ Handle \in Nat /\ tmp \in Nat /\ fp \in Nat /\ Files[Argument] \in Seq(Tokens)
          /\ ftmap \in Nat /\ d \in Nat
      BY <1>3, <1>5, <1>9, <1>10, <1>13, <2>0
    <3> HIDE DEF d
    <3> QED
      BY <1>12, <3>1 DEF Frames, Nesting
  <2>4. /\ frames' = Append(Taken, x) /\ stack' = Pop(stack, "s")
        /\ fp' = Handle /\ opened' = opened \union {Handle}
        /\ ftmap' = d /\ tmp' = d
        /\ UNCHANGED <<pipes, next, mode, err, host, stacksize, visited>>
    BY <1>16 DEF sporth_render
  <2>8. d \in Nat /\ d = Len(plumbings) + 1
    BY <1>3
  <2> HIDE DEF x, y, d
  <2>9. plumbing_init \in Plumbings /\ plumbing_init.pipes = <<>> /\ plumbing_init.freed = FALSE
        /\ plumbing_init.set
    BY EmptySeq DEF plumbing_init, Plumbings
  <2>10. /\ Grows(plumbings, plumbings', tmp, y) /\ plumbings'[d] = plumbing_init
         /\ Len(plumbings') = d
    <3>1. y \in Pipes /\ y.d = Len(plumbings) + 1
      BY <2>1, <2>8
    <3> DEFINE Q == Append(WithPipe(plumbings, tmp, y), plumbing_init)
    <3>2. Grows(plumbings, Q, tmp, y) /\ Q[Len(plumbings) + 1] = plumbing_init
          /\ Len(Q) = Len(plumbings) + 1
      BY ONLY <1>3, <1>5, <2>9, <3>1, PlumbingAdded
    <3> QED
      BY ONLY <2>2, <2>8, <3>2
  <2>5. \A p \in 1 .. Len(plumbings') : plumbings'[p].set
    <3>1. \A p \in 1 .. Len(plumbings) : plumbings'[p].set = plumbings[p].set
      BY <2>10 DEF Grows
    <3>2. \A p \in 1 .. d : p \in 1 .. Len(plumbings) \/ p = d
      BY <1>3, <2>8
    <3> QED
      BY ONLY <1>7, <2>9, <2>10, <3>1, <3>2
  <2>6. /\ x.by \in Nesting /\ x.on \in 1 .. Len(plumbings') /\ x.own \in 0 .. MaxOpen
        /\ x.own \notin opened /\ x.own # NoFile
        /\ x.by \in {"load", "render"} /\ x.by \notin {"eval", "load"} /\ x.by # "eval"
    BY <1>3, <1>9, <1>13, <2>0, <2>3, <2>8, <2>10 DEF Nesting, NoFile
  <2>7. tmp' = x.on /\ fp' = x.own /\ ftmap' = x.on /\ stack' \in Stacks
        /\ opened' = opened \union ({x.own} \ {NoFile})
    BY <1>11, <2>3, <2>4, <2>6
  <2> QED
    BY <1>2, <1>6, <2>3, <2>4, <2>5, <2>6, <2>7, <2>10, CallStep
<1> QED
  BY <1>14, <1>15, <1>16
\* The end of a parse.
LEMMA ReturnStep ==
  ASSUME NestedInv, Return
  PROVE  NestedInv'
<1>0. host = "parse" /\ frames # <<>>
  BY DEF Return
<1> DEFINE n == Len(frames)
<1>1. /\ n \in Nat \ {0} /\ Len(plumbings) \in Nat \ {0}
      /\ ParseCalls(frames, plumbings) /\ ParseFields /\ Top = frames[n]
      /\ \A p \in 1 .. Len(plumbings) : ~plumbings[p].freed
  BY <1>0, InParse
<1>2. Shape /\ Tree(plumbings) /\ Unset
  BY DEF NestedInv
<1>3. frames \in Seq(Frames) /\ stack \in Stacks
  BY <1>2 DEF Shape
<1>4. /\ frames' = Front(frames) /\ tmp' = Top.tmp
      /\ fp' = IF Top.by \in {"load", "render"} THEN Top.fp ELSE fp
      /\ opened' = IF Top.by \in {"load", "render"} THEN opened \ {Top.own} ELSE opened
      /\ ftmap' = IF Top.by = "render" THEN Top.ftmap ELSE ftmap
      /\ stack' \in {stack, Raise(stack)} /\ err' = (err \/ ~Balanced)
      /\ UNCHANGED <<plumbings, pipes, next, mode, host, stacksize, visited>>
  BY DEF Return
<1>5. /\ frames' \in Seq(Frames) /\ Len(frames') = n - 1 /\ ((frames' = <<>>) <=> (n = 1))
      /\ \A i \in 1 .. n - 1 : frames'[i] = frames[i]
  <2>1. LET gs == Front(frames) IN
        /\ gs \in Seq(Frames) /\ Len(gs) = n - 1 /\ ((gs = <<>>) <=> (n = 1))
        /\ \A i \in 1 .. n - 1 : gs[i] = frames[i]
    BY <1>0, <1>3, Popping
  <2> QED
    BY <1>4, <2>1
<1>6. ParseCall(frames, plumbings, n)
  BY <1>1 DEF ParseCalls
<1>7. pipes = Main
      /\ \A i \in 1 .. n : Inner(frames, n, MapCalls, i) => ftmap = frames[i].on
  BY <1>1 DEF ParseFields
<1>11. \A i \in 1 .. n : Inner(frames, n, FileCalls, i) => fp = frames[i].own
  BY <1>1 DEF ParseFields
<1>12. opened = {frames[i].own : i \in 1 .. n} \ {NoFile}
  BY <1>1 DEF ParseFields
<1> HIDE DEF n
<1>8. err' \in BOOLEAN /\ (~err' => ~err) /\ stack' \in Stacks
  <2>1. Raise(stack) \in Stacks
    BY <1>3, RaiseType
  <2> QED
    BY <1>2, <1>3, <1>4, <2>1 DEF Shape
<1>9. CASE n = 1
  <2>1. /\ Top.by = "host" /\ Top.on = Main /\ Top.tmp = Main
    BY <1>1, <1>6, <1>9 DEF ParseCall
  <2>2. 1 .. n = {1} /\ Top = frames[1]
    BY <1>1, <1>9
  <2>3. /\ Inner(frames, n, MapCalls, 1) /\ Inner(frames, n, FileCalls, 1)
    BY <1>9, <2>1, <2>2 DEF Inner, MapCalls, FileCalls
  <2>4. ftmap = Main /\ fp = frames[1].own /\ opened = {frames[1].own} \ {NoFile}
    BY <1>7, <1>11, <1>12, <2>1, <2>2, <2>3
  <2>5. /\ frames' = <<>> /\ tmp' = Main /\ ftmap' = Main /\ pipes' = Main /\ fp' = fp
        /\ opened' = opened /\ opened \subseteq {fp}
    BY <1>4, <1>5, <1>7, <1>9, <2>1, <2>4
  <2>6. Shape'
    <3>1. Main \in 1 .. Len(plumbings)
      BY <1>1 DEF Main
    <3> QED
      BY <1>2, <1>4, <1>5, <1>8, <2>5, <3>1 DEF Shape
  <2>7. ParseCalls(frames', plumbings')
    <3>1. Len(frames') = 0
      BY <1>5, <1>9
    <3> QED
      BY <3>1 DEF ParseCalls
  <2>8. Calls'
    BY <1>0, <1>4, <2>5, <2>7
    DEF Calls, Modes, PLUMBER_CREATE, PLUMBER_INIT, PLUMBER_COMPUTE, PLUMBER_DESTROY
  <2>9. Freed'
    BY <1>0, <1>1, <1>4 DEF Freed, Behind, PLUMBER_DESTROY
  <2>10. Unset' /\ Tree(plumbings')
    BY <1>0, <1>2, <1>4, <1>8 DEF Unset
  <2> QED
    BY <2>6, <2>8, <2>9, <2>10 DEF NestedInv
<1>10. CASE n # 1
  <2> DEFINE m == n - 1
  <2>1. m \in Nat \ {0} /\ n = m + 1 /\ m \in 1 .. m /\ \A i \in 1 .. m : i \in 1 .. n
    BY <1>1, <1>10
  <2>2. /\ Len(frames') = m /\ frames' # <<>> /\ \A i \in 1 .. m : frames'[i] = frames[i]
    BY <1>5, <1>10
  <2>3. /\ Top.by # "host" /\ Top.tmp = frames[m].on
        /\ Top.by = "eval" => Top.own = NoFile
        /\ Top.by \in {"load", "render"} =>
             \A i \in 1 .. m : Inner(frames, m, FileCalls, i) => Top.fp = frames[i].own
        /\ Top.by = "render" =>
             \A i \in 1 .. m : Inner(frames, m, MapCalls, i) => Top.ftmap = frames[i].on
        /\ \A j \in 1 .. m : frames[j].own = Top.own => Top.own = NoFile
    BY ONLY <1>1, <1>6, <1>10 DEF ParseCall
  <2>4. Top \in Frames
    BY <1>0, <1>3, TopFrame DEF Top
  <2>5. Top.by \in Nesting /\ Top = frames[m + 1]
    BY ONLY <1>1, <2>1, <2>3, <2>4 DEF Frames
  <2>6. ParseCalls(frames, plumbings)
    BY <1>1
  <2> HIDE DEF m
  <2>7. ASSUME NEW k \in 0 .. m, NEW kinds
        PROVE  \A i : Inner(frames', k, kinds, i) <=> Inner(frames, k, kinds, i)
    <3>1. k \in Nat /\ \A i \in 1 .. k : i \in 1 .. m
      BY <2>1
    <3>2. \A i \in 1 .. k : frames'[i].by = frames[i].by
      BY ONLY <2>2, <3>1
    <3> QED
      BY ONLY <3>1, <3>2, InnerSame
  <2>8. ParseCalls(frames', plumbings')
    <3> SUFFICES ASSUME NEW k \in 1 .. m PROVE ParseCall(frames', plumbings, k)
      BY <1>4, <2>2 DEF ParseCalls
    <3>1. ParseCall(frames, plumbings, k)
      BY <1>1, <2>1 DEF ParseCalls, n
    <3>2. k \in Nat \ {0} /\ \A i \in 1 .. k : frames'[i] = frames[i]
      BY <2>1, <2>2
    <3> QED
      BY ONLY <3>1, <3>2, CallKept
  <2>9. ASSUME NEW i \in 1 .. m, Inner(frames', m, MapCalls, i) PROVE ftmap' = frames'[i].on
    <3>1. Inner(frames, m, MapCalls, i)
      BY <2>1, <2>7, <2>9
    <3>2. CASE Top.by = "render"
      BY <1>4, <2>2, <2>3, <3>1, <3>2
    <3>3. CASE Top.by # "render"
      <4>1. frames[m + 1].by \notin MapCalls
        BY <2>5, <2>3, <3>3 DEF MapCalls
      <4>2. Inner(frames, n, MapCalls, i)
        BY ONLY <2>1, <3>1, <4>1, InnerPush
      <4> QED
        BY <1>4, <1>7, <2>1, <2>2, <3>3, <4>2
    <3> QED
      BY <3>2, <3>3
  <2>10. ASSUME NEW i \in 1 .. m, Inner(frames', m, FileCalls, i) PROVE fp' = frames'[i].own
    <3>1. Inner(frames, m, FileCalls, i)
      BY <2>1, <2>7, <2>10
    <3>2. CASE Top.by \in {"load", "render"}
      BY <1>4, <2>2, <2>3, <3>1, <3>2
    <3>3. CASE Top.by \notin {"load", "render"}
      <4>1. frames[m + 1].by \notin FileCalls
        BY <2>5, <2>3, <3>3 DEF FileCalls
      <4>2. Inner(frames, n, FileCalls, i)
        BY ONLY <2>1, <3>1, <4>1, InnerPush
      <4>3. fp' = fp
        BY <1>4, <3>3
      <4> QED
        BY <1>11, <2>1, <2>2, <4>2, <4>3
    <3> QED
      BY <3>2, <3>3
  <2>11. opened' = {frames'[i].own : i \in 1 .. m} \ {NoFile}
    <3>1. {frames'[i].own : i \in 1 .. m} = {frames[i].own : i \in 1 .. m}
      BY <2>2
    <3>2. {frames[i].own : i \in 1 .. n} = {frames[i].own : i \in 1 .. m} \union {Top.own}
      <4>1. 1 .. n = (1 .. m) \union {m + 1}
        BY <2>1
      <4> QED
        BY ONLY <2>5, <4>1
    <3> DEFINE O == {frames[i].own : i \in 1 .. m}
    <3>5. Top.own \in O => Top.own = NoFile
      BY <2>3
    <3>6. opened = (O \union {Top.own}) \ {NoFile}
      BY ONLY <1>12, <3>2
    <3> HIDE DEF O
    <3>3. CASE Top.by \in {"load", "render"}
      <4>1. opened' = opened \ {Top.own}
        BY <1>4, <3>3
      <4>2. opened' = O \ {NoFile}
        BY ONLY <3>5, <3>6, <4>1
      <4> QED
        BY ONLY <3>1, <4>2 DEF O
    <3>4. CASE Top.by \notin {"load", "render"}
      <4>1. opened' = opened
        BY <1>4, <3>4
      <4>2. Top.own = NoFile
        BY <2>3, <2>5, <3>4 DEF Nesting
      <4>3. opened' = O \ {NoFile}
        BY ONLY <3>6, <4>1, <4>2
      <4> QED
        BY ONLY <3>1, <4>3 DEF O
    <3> QED
      BY <3>3, <3>4
  <2>12. ParseFields'
    <3>1. Top' = frames[m]
      BY <2>1, <2>2 DEF Top, Last
    <3>2. tmp' = Top'.on /\ pipes' = Main
      BY <1>4, <1>7, <2>3, <3>1
    <3> QED
      BY <2>2, <2>9, <2>10, <2>11, <3>2 DEF ParseFields
  <2>13. Calls'
    BY <1>0, <1>4, <2>2, <2>8, <2>12
    DEF Calls, Modes, PLUMBER_CREATE, PLUMBER_INIT, PLUMBER_COMPUTE, PLUMBER_DESTROY
  <2>14. Shape'
    <3>1. ParseCall(frames, plumbings, 1) /\ frames[1].by = "host"
      BY <1>1, <2>1 DEF ParseCalls, ParseCall, n
    <3>2. PICK i \in 1 .. m : Inner(frames', m, MapCalls, i)
      <4>1. frames'[1].by \in MapCalls
        BY <2>1, <2>2, <3>1 DEF MapCalls
      <4> QED
        BY ONLY <2>1, <4>1, InnerExists
    <3>3. PICK j \in 1 .. m : Inner(frames', m, FileCalls, j)
      <4>1. frames'[1].by \in FileCalls
        BY <2>1, <2>2, <3>1 DEF FileCalls
      <4> QED
        BY ONLY <2>1, <4>1, InnerExists
    <3>4. ftmap' = frames[i].on /\ fp' = frames[j].own /\ tmp' = frames[m].on
      BY <1>4, <2>2, <2>3, <2>9, <2>10, <3>2, <3>3
    <3>5. ParseCall(frames, plumbings, i) /\ ParseCall(frames, plumbings, j)
          /\ ParseCall(frames, plumbings, m)
      BY <1>1, <2>1 DEF ParseCalls, n
    <3>6. ftmap' \in 1 .. Len(plumbings) /\ tmp' \in 1 .. Len(plumbings) /\ fp' \in 0 .. MaxOpen
      BY <3>4, <3>5 DEF ParseCall
    <3>7. opened' \subseteq 1 .. MaxOpen
      BY <1>2, <1>4 DEF Shape
    <3> QED
      BY <1>2, <1>4, <1>5, <1>8, <3>6, <3>7 DEF Shape
  <2>15. Freed'
    BY <1>0, <1>1, <1>4 DEF Freed, Behind, PLUMBER_DESTROY
  <2>16. Unset' /\ Tree(plumbings')
    BY <1>0, <1>2, <1>4, <1>8 DEF Unset
  <2> QED
    BY <2>13, <2>14, <2>15, <2>16 DEF NestedInv
<1> QED
  BY <1>9, <1>10
---------------------------------------------------------------------------
(* The steps of a pass.                                                    *)

\* What is known of the calls of a pass.
LEMMA InAPass ==
  ASSUME NestedInv, host \in Modes
  PROVE  /\ frames # <<>> /\ Len(frames) \in Nat \ {0} /\ frames \in Seq(Frames)
         /\ Len(plumbings) \in Nat \ {0} /\ plumbings \in Seq(Plumbings)
         /\ Top \in Frames /\ Top = frames[Len(frames)]
         /\ \A k \in 1 .. Len(frames) : PassCall(frames, plumbings, k)
         /\ PassCall(frames, plumbings, Len(frames))
         /\ mode = host /\ Top.on \in 1 .. Len(plumbings) /\ plumbings[Top.on].pipes \in Seq(Pipes)
         /\ Top.n \in Nat \ {0} /\ Top.n <= Len(plumbings[Top.on].pipes) + 1
         /\ Top.pipe = <<Top.on, Top.n>>
         /\ pipes = Top.on /\ ftmap = Top.on /\ tmp = Main /\ opened \subseteq {fp}
<1>1. Shape /\ Calls
  BY DEF NestedInv
<1>2. host # "parse"
  BY DEF Modes, PLUMBER_CREATE, PLUMBER_INIT, PLUMBER_COMPUTE, PLUMBER_DESTROY
<1>3. /\ frames # <<>> /\ PassCalls(frames, plumbings) /\ PassFields /\ mode = host /\ opened \subseteq {fp}
  BY <1>1, <1>2 DEF Calls
<1>4. frames \in Seq(Frames) /\ plumbings \in Seq(Plumbings) /\ plumbings # <<>>
  BY <1>1 DEF Shape
<1>5. Len(plumbings) \in Nat \ {0}
  BY ONLY <1>4, EmptySeq
<1>6. Top \in Frames /\ Top = frames[Len(frames)] /\ Len(frames) \in Nat \ {0}
  BY <1>3, <1>4, TopFrame DEF Top
<1>7. \A k \in 1 .. Len(frames) : PassCall(frames, plumbings, k)
  BY <1>3 DEF PassCalls
<1>8. PassCall(frames, plumbings, Len(frames))
  BY <1>6, <1>7
<1>9. /\ Top.on \in 1 .. Len(plumbings) /\ Top.n <= Len(plumbings[Top.on].pipes) + 1
      /\ Top.pipe = <<Top.on, Top.n>>
  BY ONLY <1>6, <1>8 DEF PassCall
<1>10. Top.n \in Nat \ {0}
  BY <1>6 DEF Frames
<1>11. plumbings[Top.on] \in Plumbings
  BY ONLY <1>4, <1>9, ElementOfSeq
<1>12. plumbings[Top.on].pipes \in Seq(Pipes)
  BY <1>11 DEF Plumbings
<1> QED
  BY <1>3, <1>4, <1>5, <1>6, <1>7, <1>8, <1>9, <1>10, <1>12 DEF PassFields

\* The pipe that the pass is at.
LEMMA AtPipe ==
  ASSUME NestedInv, InPass
  PROVE  /\ host \in Modes /\ Pipe = plumbings[Top.on].pipes[Top.n] /\ Pipe \in Pipes
         /\ Following = <<Top.on, Top.n + 1>> /\ Top.n \in 1 .. Len(plumbings[Top.on].pipes)
         /\ Pipe.d \in {0} \union Top.on + 1 .. Len(plumbings)
<1>1. host \in Modes /\ Top.n <= Len(plumbings[Top.on].pipes)
  BY DEF InPass, Passing
<1>2. /\ Top.on \in 1 .. Len(plumbings) /\ plumbings[Top.on].pipes \in Seq(Pipes)
      /\ Top.n \in Nat \ {0} /\ Top.pipe = <<Top.on, Top.n>>
  BY <1>1, InAPass
<1>3. Len(plumbings[Top.on].pipes) \in Nat
  BY <1>2, LenProperties
<1>4. Top.n \in 1 .. Len(plumbings[Top.on].pipes)
  BY <1>1, <1>2, <1>3
<1>5. Pipe = plumbings[Top.on].pipes[Top.n] /\ Following = <<Top.on, Top.n + 1>>
  BY <1>2 DEF Pipe, Following
<1>6. Pipe \in Pipes
  BY ONLY <1>2, <1>4, <1>5, ElementOfSeq
<1>7. Pipe.d \in {0} \union Top.on + 1 .. Len(plumbings)
  BY <1>2, <1>4, <1>5 DEF NestedInv, Tree
<1> QED
  BY <1>1, <1>4, <1>5, <1>6, <1>7

\* A call of a pass depends on itself and the one before.
LEMMA PassKept ==
  ASSUME NEW P, NEW Q, NEW fs, NEW gs, NEW k \in Nat \ {0}, PassCall(fs, P, k),
         Len(Q) = Len(P), \A i \in 1 .. Len(P) : Q[i].pipes = P[i].pipes,
         gs[k] = fs[k], k # 1 => gs[k - 1] = fs[k - 1] /\ fs[k - 1].on \in 1 .. Len(P)
  PROVE  PassCall(gs, Q, k)
<1>1. /\ fs[k].on \in 1 .. Len(P) /\ fs[k].n <= Len(P[fs[k].on].pipes) + 1
      /\ fs[k].pipe = <<fs[k].on, fs[k].n>> /\ fs[k].tmp = Main
      /\ (k = 1) <=> (fs[k].by = "host")
      /\ k = 1 => fs[k].on = Main /\ fs[k].prev = Main
  BY DEF PassCall
<1>2. k # 1 => /\ fs[k].by = "render"
               /\ fs[k - 1].n <= Len(P[fs[k - 1].on].pipes)
               /\ P[fs[k - 1].on].pipes[fs[k - 1].n].d = fs[k].on
               /\ fs[k].prev = fs[k - 1].on /\ fs[k].ftmap = fs[k - 1].on
               /\ fs[k].next = <<fs[k - 1].on, fs[k - 1].n + 1>>
  BY DEF PassCall
<1>3. Q[fs[k].on].pipes = P[fs[k].on].pipes
  BY <1>1
<1>4. k # 1 => Q[fs[k - 1].on].pipes = P[fs[k - 1].on].pipes
  OBVIOUS
<1>5. k # 1 => /\ gs[k].by = "render"
               /\ gs[k - 1].n <= Len(Q[gs[k - 1].on].pipes)
               /\ Q[gs[k - 1].on].pipes[gs[k - 1].n].d = gs[k].on
               /\ gs[k].prev = gs[k - 1].on /\ gs[k].ftmap = gs[k - 1].on
               /\ gs[k].next = <<gs[k - 1].on, gs[k - 1].n + 1>>
  BY <1>2, <1>4
<1>6. /\ gs[k].on \in 1 .. Len(Q) /\ gs[k].n <= Len(Q[gs[k].on].pipes) + 1
      /\ gs[k].pipe = <<gs[k].on, gs[k].n>> /\ gs[k].tmp = Main
      /\ (k = 1) <=> (gs[k].by = "host")
      /\ k = 1 => gs[k].on = Main /\ gs[k].prev = Main
  BY <1>1, <1>3
<1> QED
  BY <1>5, <1>6 DEF PassCall

\* One call goes on to its next pipe.
Further(f) == Onward(f, <<f.on, f.n + 1>>)

\* Nothing else of its frame changes.
LEMMA OnwardIs ==
  ASSUME NEW f \in Frames
  PROVE  LET g == Further(f) IN
         /\ g \in Frames /\ g.n = f.n + 1 /\ g.pipe = <<f.on, f.n + 1>>
         /\ g.on = f.on /\ g.by = f.by /\ g.tmp = f.tmp
         /\ g.prev = f.prev /\ g.ftmap = f.ftmap /\ g.next = f.next
<1>1. f.n \in Nat \ {0} /\ f.on \in Nat
  BY DEF Frames
<1>2. f.n + 1 \in Nat \ {0} /\ <<f.on, f.n + 1>> \in Spots
  BY <1>1 DEF Spots
<1> QED
  BY <1>1, <1>2 DEF Further, Onward, Frames

\* And its frame stays right when there is a pipe it is at.
LEMMA PassOnward ==
  ASSUME NEW P, NEW Q, NEW fs, NEW gs, NEW k \in Nat \ {0}, PassCall(fs, P, k),
         Len(Q) = Len(P), \A i \in 1 .. Len(P) : Q[i].pipes = P[i].pipes,
         fs[k] \in Frames, gs[k] = Further(fs[k]),
         Len(P[fs[k].on].pipes) \in Nat, fs[k].n <= Len(P[fs[k].on].pipes),
         k # 1 => gs[k - 1] = fs[k - 1] /\ fs[k - 1].on \in 1 .. Len(P)
  PROVE  PassCall(gs, Q, k)
<1>0. /\ gs[k].n = fs[k].n + 1 /\ gs[k].pipe = <<fs[k].on, fs[k].n + 1>>
      /\ gs[k].on = fs[k].on /\ gs[k].by = fs[k].by /\ gs[k].tmp = fs[k].tmp
      /\ gs[k].prev = fs[k].prev /\ gs[k].ftmap = fs[k].ftmap /\ gs[k].next = fs[k].next
  BY OnwardIs
<1>1. /\ fs[k].on \in 1 .. Len(P) /\ fs[k].tmp = Main /\ fs[k].n \in Nat
      /\ (k = 1) <=> (fs[k].by = "host")
      /\ k = 1 => fs[k].on = Main /\ fs[k].prev = Main
  BY DEF PassCall, Frames
<1>2. k # 1 => /\ fs[k].by = "render"
               /\ fs[k - 1].n <= Len(P[fs[k - 1].on].pipes)
               /\ P[fs[k - 1].on].pipes[fs[k - 1].n].d = fs[k].on
               /\ fs[k].prev = fs[k - 1].on /\ fs[k].ftmap = fs[k - 1].on
               /\ fs[k].next = <<fs[k - 1].on, fs[k - 1].n + 1>>
  BY DEF PassCall
<1>3. Q[fs[k].on].pipes = P[fs[k].on].pipes
  BY <1>1
<1>4. k # 1 => Q[fs[k - 1].on].pipes = P[fs[k - 1].on].pipes
  OBVIOUS
<1>5. k # 1 => /\ gs[k].by = "render"
               /\ gs[k - 1].n <= Len(Q[gs[k - 1].on].pipes)
               /\ Q[gs[k - 1].on].pipes[gs[k - 1].n].d = gs[k].on
               /\ gs[k].prev = gs[k - 1].on /\ gs[k].ftmap = gs[k - 1].on
               /\ gs[k].next = <<gs[k - 1].on, gs[k - 1].n + 1>>
  BY <1>0, <1>2, <1>4
<1>6. gs[k].n <= Len(Q[gs[k].on].pipes) + 1
  BY <1>0, <1>1, <1>3
<1>7. /\ gs[k].on \in 1 .. Len(Q)
      /\ gs[k].pipe = <<gs[k].on, gs[k].n>> /\ gs[k].tmp = Main
      /\ (k = 1) <=> (gs[k].by = "host")
      /\ k = 1 => gs[k].on = Main /\ gs[k].prev = Main
  BY <1>0, <1>1
<1> QED
  BY <1>5, <1>6, <1>7 DEF PassCall

\* What changes when the pass goes on to the next pipe.
LEMMA SteppedIs ==
  ASSUME NestedInv, InPass, Stepped
  PROVE  /\ next' = Following /\ visited' = Append(visited, Top.pipe)
         /\ UNCHANGED <<plumbings, fp, ftmap, tmp, pipes, mode, opened, err, host, stacksize>>
         /\ Further(Top) \in Frames /\ Further(Top).n = Top.n + 1 /\ Further(Top).on = Top.on
         /\ frames' \in Seq(Frames) /\ Len(frames') = Len(frames) /\ frames' # <<>>
         /\ frames'[Len(frames)] = Further(Top) /\ Last(frames') = Further(Top)
         /\ \A i \in 1 .. Len(frames) : i # Len(frames) => frames'[i] = frames[i]
<1> DEFINE n == Len(frames)
           P == plumbings
<1>1. /\ host \in Modes /\ Pipe = P[Top.on].pipes[Top.n]
      /\ Following = <<Top.on, Top.n + 1>> /\ Top.n \in 1 .. Len(P[Top.on].pipes)
  BY AtPipe
<1>2. /\ frames # <<>> /\ n \in Nat \ {0} /\ frames \in Seq(Frames)
      /\ Top \in Frames /\ Top = frames[n] /\ Top.n \in Nat \ {0}
      /\ \A k \in 1 .. n : PassCall(frames, P, k)
      /\ mode = host /\ Top.on \in 1 .. Len(P) /\ P[Top.on].pipes \in Seq(Pipes)
      /\ pipes = Top.on /\ ftmap = Top.on /\ tmp = Main /\ opened \subseteq {fp} /\ Len(P) \in Nat \ {0}
      /\ Top.pipe = <<Top.on, Top.n>>
  BY <1>1, InAPass
<1>3. /\ next' = Following /\ frames' = [frames EXCEPT ![n] = Further(Top)]
      /\ visited' = Append(visited, Top.pipe)
      /\ UNCHANGED <<plumbings, fp, ftmap, tmp, pipes, mode, opened, err, host, stacksize>>
  <2>1. /\ next' = Following /\ visited' = Append(visited, Top.pipe)
        /\ frames' = [frames EXCEPT ![n] = Onward(frames[n], Following)]
        /\ UNCHANGED <<plumbings, fp, ftmap, tmp, pipes, mode, opened, err, host, stacksize>>
    BY DEF Stepped
  <2>2. Onward(frames[n], Following) = Further(Top)
    BY <1>1, <1>2 DEF Further
  <2> QED
    BY ONLY <2>1, <2>2
<1>5. Further(Top) \in Frames /\ Further(Top).n = Top.n + 1 /\ Further(Top).on = Top.on
  BY <1>2, OnwardIs
<1>6. /\ [frames EXCEPT ![n] = Further(Top)] \in Seq(Frames)
      /\ Len([frames EXCEPT ![n] = Further(Top)]) = n
      /\ [frames EXCEPT ![n] = Further(Top)][n] = Further(Top)
      /\ [frames EXCEPT ![n] = Further(Top)] # <<>>
      /\ Last([frames EXCEPT ![n] = Further(Top)]) = Further(Top)
      /\ \A i \in 1 .. n : i # n => [frames EXCEPT ![n] = Further(Top)][i] = frames[i]
  BY <1>2, <1>5, TopReplaced
<1> HIDE DEF n
<1>7. /\ frames' \in Seq(Frames) /\ Len(frames') = n /\ frames'[n] = Further(Top) /\ frames' # <<>>
      /\ Last(frames') = Further(Top)
      /\ \A i \in 1 .. n : i # n => frames'[i] = frames[i]
  BY ONLY <1>3, <1>6
<1> QED
  BY ONLY <1>3, <1>5, <1>7 DEF n

\* The pass goes on behind a pipe that has no plumbing to free.
LEMMA SteppedStep ==
  ASSUME NestedInv, InPass, Stepped, stack' \in Stacks,
         Pipe.d = 0 \/ ~plumbings[Pipe.d].set
  PROVE  NestedInv'
<1> DEFINE n == Len(frames)
           P == plumbings
<1>1. /\ host \in Modes /\ Pipe = P[Top.on].pipes[Top.n]
      /\ Following = <<Top.on, Top.n + 1>> /\ Top.n \in 1 .. Len(P[Top.on].pipes)
  BY AtPipe
<1>2. /\ frames # <<>> /\ n \in Nat \ {0} /\ frames \in Seq(Frames)
      /\ Top \in Frames /\ Top = frames[n] /\ Top.n \in Nat \ {0}
      /\ \A k \in 1 .. n : PassCall(frames, P, k)
      /\ mode = host /\ Top.on \in 1 .. Len(P) /\ P[Top.on].pipes \in Seq(Pipes)
      /\ pipes = Top.on /\ ftmap = Top.on /\ tmp = Main /\ opened \subseteq {fp} /\ Len(P) \in Nat \ {0}
      /\ Top.pipe = <<Top.on, Top.n>>
  BY <1>1, InAPass
<1>3. /\ next' = Following /\ visited' = Append(visited, Top.pipe)
      /\ UNCHANGED <<plumbings, fp, ftmap, tmp, pipes, mode, opened, err, host, stacksize>>
  BY SteppedIs
<1>4. Shape /\ Tree(P) /\ Freed /\ Unset
  BY DEF NestedInv
<1>5. Further(Top) \in Frames /\ Further(Top).n = Top.n + 1 /\ Further(Top).on = Top.on
  BY SteppedIs
<1>7. /\ frames' \in Seq(Frames) /\ Len(frames') = n /\ frames'[n] = Further(Top) /\ frames' # <<>>
      /\ Last(frames') = Further(Top)
      /\ \A i \in 1 .. n : i # n => frames'[i] = frames[i]
  BY SteppedIs
<1> HIDE DEF n
<1>8. PassCalls(frames', P)
  <2> SUFFICES ASSUME NEW k \in 1 .. n PROVE PassCall(frames', P, k)
    BY <1>7 DEF PassCalls
  <2>1. PassCall(frames, P, k) /\ k \in Nat \ {0}
    BY <1>2
  <2>2. k # 1 => k - 1 \in 1 .. n /\ k - 1 # n
    BY <1>2
  <2>3. k # 1 => frames'[k - 1] = frames[k - 1] /\ frames[k - 1].on \in 1 .. Len(P)
    <3>1. k # 1 => PassCall(frames, P, k - 1)
      BY <1>2, <2>2
    <3> QED
      BY <1>7, <2>2, <3>1 DEF PassCall
  <2>4. CASE k = n
    <3>1. frames[k] = Top /\ frames'[k] = Further(frames[k])
      BY <1>2, <1>7, <2>4
    <3>2. Len(P[Top.on].pipes) \in Nat /\ Top.n <= Len(P[Top.on].pipes)
      <4>1. Len(P[Top.on].pipes) \in Nat
        BY ONLY <1>2, LenProperties
      <4> QED
        BY ONLY <1>1, <4>1
    <3> QED
      BY ONLY <1>2, <2>1, <2>3, <3>1, <3>2, PassOnward
  <2>5. CASE k # n
    <3>1. frames'[k] = frames[k]
      BY <1>7, <2>5
    <3> QED
      BY ONLY <2>1, <2>3, <3>1, PassKept
  <2> QED
    BY <2>4, <2>5
<1>9. Shape'
  <2>1. next' \in Spots /\ Top.pipe \in Spots
    <3>1. Top.on \in Nat /\ Top.n \in Nat /\ Top.n + 1 \in Nat
      BY <1>2
    <3>2. <<Top.on, Top.n + 1>> \in Spots /\ <<Top.on, Top.n>> \in Spots
      BY ONLY <3>1 DEF Spots
    <3> QED
      BY ONLY <1>1, <1>2, <1>3, <3>2
  <2>2. visited' \in Seq(Spots)
    BY <1>3, <1>4, <2>1, AppendProperties DEF Shape
  <2> QED
    BY <1>3, <1>4, <1>7, <2>1, <2>2 DEF Shape
<1>10. Calls'
  <2>1. Top' = Further(Top)
    BY <1>7 DEF Top
  <2>2. PassFields'
    BY <1>2, <1>3, <1>5, <2>1 DEF PassFields
  <2> QED
    BY <1>1, <1>2, <1>3, <1>7, <1>8, <2>2
    DEF Calls, Modes, PLUMBER_CREATE, PLUMBER_INIT, PLUMBER_COMPUTE, PLUMBER_DESTROY
<1>11. ASSUME NEW p \in 1 .. Len(P), NEW k \in 1 .. Len(P[p].pipes), Behind(p, k)',
              P[p].pipes[k].d # 0, P[P[p].pipes[k].d].set
       PROVE  Behind(p, k)
  <2>1. CASE P[p].freed
    BY <2>1 DEF Behind
  <2>2. ASSUME host = PLUMBER_DESTROY, NEW i \in 1 .. n, frames'[i].on = p, k < frames'[i].n
        PROVE  Behind(p, k)
    <3>1. CASE i # n
      BY <1>7, <2>2, <3>1 DEF Behind, n
    <3>2. CASE i = n
      <4>1. p = Top.on /\ k < Top.n + 1
        BY <1>5, <1>7, <2>2, <3>2
      <4>2. k # Top.n
        BY <1>1, <1>11, <4>1
      <4>3. k < Top.n
        <5>1. k \in Int
          OBVIOUS
        <5> QED
          BY ONLY <1>2, <4>1, <4>2, <5>1
      <4>4. n \in 1 .. n
        BY <1>2
      <4> QED
        BY <1>2, <2>2, <4>1, <4>3, <4>4 DEF Behind, n
    <3> QED
      BY <3>1, <3>2
  <2> QED
    BY <1>3, <1>7, <1>11, <2>1, <2>2 DEF Behind
<1>12. Freed'
  BY <1>1, <1>3, <1>4, <1>11
  DEF Freed, Modes, PLUMBER_CREATE, PLUMBER_INIT, PLUMBER_COMPUTE, PLUMBER_DESTROY
<1>13. Unset' /\ Tree(plumbings')
  BY <1>3, <1>4 DEF Unset
<1> QED
  BY <1>9, <1>10, <1>12, <1>13 DEF NestedInv

\* A pass over the plumbing of a pipe is called right.
LEMMA PassBegun ==
  ASSUME NEW P, NEW fs, NEW x, NEW f, NEW n \in Nat \ {0}, fs[n] = f, fs[n + 1] = x,
         x.on \in 1 .. Len(P), x.n <= Len(P[x.on].pipes) + 1, x.pipe = <<x.on, x.n>>,
         x.tmp = Main, x.by = "render", x.prev = f.on, x.ftmap = f.on, x.next = <<f.on, f.n + 1>>,
         f.n <= Len(P[f.on].pipes), P[f.on].pipes[f.n].d = x.on
  PROVE  PassCall(fs, P, n + 1)
<1>1. PICK m \in Nat : m = n + 1
  OBVIOUS
<1>2. m # 1 /\ m - 1 = n
  BY <1>1
<1>3. fs[m] = x /\ fs[m - 1] = f
  BY <1>1, <1>2
<1>4. PassCall(fs, P, m)
  BY <1>2, <1>3 DEF PassCall
<1> QED
  BY <1>1, <1>4

\* What changes when a render begins a pass over its own plumbing.
LEMMA RenderIs ==
  ASSUME NestedInv, StepRender
  PROVE  LET x == [Pass("render", Pipe.d) EXCEPT !.next = Following] IN
         /\ InPass /\ Pipe.type = "ugen" /\ Pipe.ud = "render" /\ plumbings[Pipe.d].set
         /\ Pipe.d \in 1 .. Len(plumbings)
         /\ next' = Following /\ ftmap' = Pipe.d /\ pipes' = Pipe.d
         /\ visited' = Append(visited, Top.pipe)
         /\ stack' \in {stack, Pop(stack, "s"), sporth_stack_init}
         /\ UNCHANGED <<plumbings, fp, tmp, mode, opened, err, host, stacksize>>
         /\ x \in Frames /\ x.on = Pipe.d /\ x.n = 1 /\ x.pipe = <<Pipe.d, 1>> /\ x.by = "render"
         /\ x.tmp = Main /\ x.prev = Top.on /\ x.ftmap = Top.on /\ x.next = <<Top.on, Top.n + 1>>
         /\ frames' \in Seq(Frames) /\ Len(frames') = Len(frames) + 1 /\ frames' # <<>>
         /\ Last(frames') = x /\ frames'[Len(frames) + 1] = x
         /\ \A i \in 1 .. Len(frames) : frames'[i] = frames[i]
<1> DEFINE n == Len(frames)
           P == plumbings
           x == [Pass("render", Pipe.d) EXCEPT !.next = Following]
<1>0. InPass /\ Pipe.type = "ugen" /\ Pipe.ud = "render" /\ P[Pipe.d].set
  BY DEF StepRender, AtRender
<1>1. /\ host \in Modes /\ Pipe = P[Top.on].pipes[Top.n] /\ Pipe \in Pipes
      /\ Following = <<Top.on, Top.n + 1>> /\ Top.n \in 1 .. Len(P[Top.on].pipes)
      /\ Pipe.d \in {0} \union Top.on + 1 .. Len(P)
  BY <1>0, AtPipe
<1>2. /\ frames # <<>> /\ n \in Nat \ {0} /\ frames \in Seq(Frames)
      /\ Top \in Frames /\ Top = frames[n] /\ Top.n \in Nat \ {0}
      /\ \A k \in 1 .. n : PassCall(frames, P, k)
      /\ mode = host /\ Top.on \in 1 .. Len(P) /\ P[Top.on].pipes \in Seq(Pipes)
      /\ pipes = Top.on /\ ftmap = Top.on /\ tmp = Main /\ opened \subseteq {fp} /\ Len(P) \in Nat \ {0}
      /\ Top.pipe = <<Top.on, Top.n>>
  BY <1>1, InAPass
<1>3. /\ next' = Following /\ frames' = Append(frames, x) /\ ftmap' = Pipe.d /\ pipes' = Pipe.d
      /\ visited' = Append(visited, Top.pipe)
      /\ stack' \in {stack, Pop(stack, "s"), sporth_stack_init}
      /\ UNCHANGED <<plumbings, fp, tmp, mode, opened, err, host, stacksize>>
  BY DEF StepRender
<1>5. Pipe.d \in 1 .. Len(P)
  <2> DEFINE q == Pipe
             m == Top.on
             l == Len(P)
  <2>1. "render" \notin DOMAIN Sig
    BY NestedAssumption DEF Nesting
  <2>2. q \in Pipes /\ q.type = "ugen" /\ q.ud = "render"
    BY <1>0, <1>1
  <2>3. q.d \in {0} \union m + 1 .. l /\ m \in 1 .. l /\ l \in Nat
    BY <1>1, <1>2
  <2> HIDE DEF q, m, l
  <2>4. q.d # 0
    BY ONLY <2>1, <2>2 DEF Pipes
  <2>5. q.d \in 1 .. l
    BY ONLY <2>3, <2>4
  <2> QED
    BY <2>5 DEF q, l
<1>6. Top.on \in Nat /\ Top.n \in Nat /\ Top.n + 1 \in Nat /\ Pipe.d \in Nat
  BY <1>2, <1>5
<1>7. /\ x \in Frames /\ x.on = Pipe.d /\ x.n = 1 /\ x.pipe = <<Pipe.d, 1>> /\ x.by = "render"
      /\ x.tmp = Main /\ x.prev = Top.on /\ x.ftmap = Top.on /\ x.next = <<Top.on, Top.n + 1>>
  <2>1. NoCall \in Frames
    BY EmptySeq DEF NoCall, Frames, Spots, Main, NoFile
  <2>2. /\ NoCall.n = 1 /\ Main \in Nat /\ <<Pipe.d, 1>> \in Spots /\ <<Top.on, Top.n + 1>> \in Spots
    BY <1>6 DEF NoCall, Main, Spots
  <2> DEFINE d == Pipe.d
             f == Following
  <2>3. f = <<Top.on, Top.n + 1>> /\ d \in Nat
    BY <1>1, <1>6
  <2>4. x = [NoCall EXCEPT !.do = "pass", !.by = "render", !.on = d, !.pipe = <<d, 1>>,
                           !.prev = Top.on, !.tmp = Main, !.ftmap = Top.on, !.next = f]
    BY <1>2, <2>1 DEF Pass, Frames
  <2> HIDE DEF x, f, d
  <2>5. <<d, 1>> \in Spots /\ f \in Spots
    BY <2>2, <2>3 DEF d
  <2>6. /\ x \in Frames /\ x.on = d /\ x.n = 1 /\ x.pipe = <<d, 1>> /\ x.by = "render"
        /\ x.tmp = Main /\ x.prev = Top.on /\ x.ftmap = Top.on /\ x.next = f
    BY ONLY <1>6, <2>1, <2>2, <2>3, <2>4, <2>5 DEF Frames, Nesting
  <2> QED
    BY <2>3, <2>6 DEF d
<1> HIDE DEF x
<1>8. /\ frames' \in Seq(Frames) /\ Len(frames') = n + 1 /\ frames' # <<>> /\ Last(frames') = x
      /\ frames'[n + 1] = x /\ \A i \in 1 .. n : frames'[i] = frames[i]
  <2>1. /\ Append(frames, x) \in Seq(Frames) /\ Len(Append(frames, x)) = Len(frames) + 1
        /\ Append(frames, x) # <<>> /\ Last(Append(frames, x)) = x
        /\ Append(frames, x)[Len(frames) + 1] = x
        /\ \A i \in 1 .. Len(frames) : Append(frames, x)[i] = frames[i]
    BY ONLY <1>2, <1>7, Pushed
  <2> QED
    BY ONLY <1>3, <2>1 DEF n
<1> QED
  BY ONLY <1>0, <1>3, <1>5, <1>7, <1>8 DEF n, x

\* A render begins a pass over its own plumbing.
LEMMA RenderStep ==
  ASSUME NestedInv, StepRender
  PROVE  NestedInv'
<1> DEFINE n == Len(frames)
           P == plumbings
           x == [Pass("render", Pipe.d) EXCEPT !.next = Following]
<1>0. InPass /\ Pipe.type = "ugen" /\ Pipe.ud = "render" /\ P[Pipe.d].set
  BY DEF StepRender, AtRender
<1>1. /\ host \in Modes /\ Pipe = P[Top.on].pipes[Top.n] /\ Pipe \in Pipes
      /\ Following = <<Top.on, Top.n + 1>> /\ Top.n \in 1 .. Len(P[Top.on].pipes)
      /\ Pipe.d \in {0} \union Top.on + 1 .. Len(P)
  BY <1>0, AtPipe
<1>2. /\ frames # <<>> /\ n \in Nat \ {0} /\ frames \in Seq(Frames)
      /\ Top \in Frames /\ Top = frames[n] /\ Top.n \in Nat \ {0}
      /\ \A k \in 1 .. n : PassCall(frames, P, k)
      /\ mode = host /\ Top.on \in 1 .. Len(P) /\ P[Top.on].pipes \in Seq(Pipes)
      /\ pipes = Top.on /\ ftmap = Top.on /\ tmp = Main /\ opened \subseteq {fp} /\ Len(P) \in Nat \ {0}
      /\ Top.pipe = <<Top.on, Top.n>>
  BY <1>1, InAPass
<1>3. /\ next' = Following /\ ftmap' = Pipe.d /\ pipes' = Pipe.d
      /\ visited' = Append(visited, Top.pipe)
      /\ stack' \in {stack, Pop(stack, "s"), sporth_stack_init}
      /\ UNCHANGED <<plumbings, fp, tmp, mode, opened, err, host, stacksize>>
  BY RenderIs
<1>4. Shape /\ Tree(P) /\ Freed /\ Unset
  BY DEF NestedInv
<1>5. Pipe.d \in 1 .. Len(P)
  BY RenderIs
<1>6. Top.on \in Nat /\ Top.n \in Nat /\ Top.n + 1 \in Nat /\ Pipe.d \in Nat
  BY <1>2, <1>5
<1>7. /\ x \in Frames /\ x.on = Pipe.d /\ x.n = 1 /\ x.pipe = <<Pipe.d, 1>> /\ x.by = "render"
      /\ x.tmp = Main /\ x.prev = Top.on /\ x.ftmap = Top.on /\ x.next = <<Top.on, Top.n + 1>>
  BY RenderIs
<1>8. /\ frames' \in Seq(Frames) /\ Len(frames') = n + 1 /\ frames' # <<>> /\ Last(frames') = x
      /\ frames'[n + 1] = x /\ \A i \in 1 .. n : frames'[i] = frames[i]
  BY RenderIs
<1> HIDE DEF n, x
<1>9. PassCalls(frames', P)
  <2>1. ASSUME NEW k \in 1 .. n PROVE PassCall(frames', P, k)
    <3>1. PassCall(frames, P, k) /\ k \in Nat \ {0}
      BY <1>2
    <3>2. k # 1 => k - 1 \in 1 .. n
      BY <1>2
    <3>3. k # 1 => frames'[k - 1] = frames[k - 1] /\ frames[k - 1].on \in 1 .. Len(P)
      <4>1. k # 1 => PassCall(frames, P, k - 1)
        BY <1>2, <3>2
      <4> QED
        BY <1>8, <3>2, <4>1 DEF PassCall
    <3>4. frames'[k] = frames[k]
      BY <1>8
    <3> QED
      BY ONLY <3>1, <3>3, <3>4, PassKept
  <2>2. PassCall(frames', P, n + 1)
    <3>1. /\ frames'[n + 1] = x /\ n + 1 # 1 /\ n + 1 - 1 = n /\ frames'[n] = Top
      BY <1>2, <1>8
    <3>2. Len(P[Pipe.d].pipes) \in Nat
      <4>1. P[Pipe.d] \in Plumbings
        BY <1>4, <1>5, ElementOfSeq DEF Shape
      <4> QED
        BY <4>1 DEF Plumbings
    <3>3. x.n <= Len(P[Pipe.d].pipes) + 1
      BY <1>7, <3>2
    <3>4. Top.n <= Len(P[Top.on].pipes)
      BY <1>1
    <3>5. P[Top.on].pipes[Top.n].d = x.on
      BY <1>1, <1>7
    <3>6. frames'[n + 1] = x /\ frames'[n] = Top /\ n \in Nat \ {0}
      BY <1>2, <3>1
    <3>7. x.on \in 1 .. Len(P) /\ x.n <= Len(P[x.on].pipes) + 1
      BY <1>5, <1>7, <3>3
    <3> QED
      BY ONLY <1>7, <3>4, <3>5, <3>6, <3>7, PassBegun
  <2>3. \A k \in 1 .. n + 1 : k \in 1 .. n \/ k = n + 1
    BY <1>2
  <2> QED
    BY <1>8, <2>1, <2>2, <2>3 DEF PassCalls
<1>10. Shape'
  <2>1. next' \in Spots /\ Top.pipe \in Spots
    <3>1. <<Top.on, Top.n + 1>> \in Spots /\ <<Top.on, Top.n>> \in Spots
      BY ONLY <1>6 DEF Spots
    <3> QED
      BY ONLY <1>1, <1>2, <1>3, <3>1
  <2>2. visited' \in Seq(Spots)
    BY <1>3, <1>4, <2>1, AppendProperties DEF Shape
  <2>3. stack' \in Stacks
    <3>1. stack \in Stacks
      BY <1>4 DEF Shape
    <3>2. Pop(stack, "s") \in Stacks
      BY <3>1, PopType
    <3> QED
      BY <1>3, <3>1, <3>2, InitStackType
  <2> QED
    BY <1>3, <1>4, <1>5, <1>8, <2>1, <2>2, <2>3 DEF Shape
<1>11. Calls'
  <2>1. Top' = x
    BY <1>8 DEF Top
  <2>2. PassFields'
    BY <1>2, <1>3, <1>7, <2>1 DEF PassFields
  <2> QED
    BY <1>1, <1>2, <1>3, <1>8, <1>9, <2>2
    DEF Calls, Modes, PLUMBER_CREATE, PLUMBER_INIT, PLUMBER_COMPUTE, PLUMBER_DESTROY
<1>12. ASSUME NEW p \in 1 .. Len(P), NEW k \in 1 .. Len(P[p].pipes), Behind(p, k)'
       PROVE  Behind(p, k)
  <2>1. CASE P[p].freed
    BY <2>1 DEF Behind
  <2>2. ASSUME host = PLUMBER_DESTROY, NEW i \in 1 .. n + 1, frames'[i].on = p, k < frames'[i].n
        PROVE  Behind(p, k)
    <3>1. i # n + 1
      BY <1>7, <1>8, <2>2
    <3>2. i \in 1 .. n
      BY <1>2, <3>1
    <3> QED
      BY <1>8, <2>2, <3>2 DEF Behind, n
  <2> QED
    BY <1>3, <1>8, <1>12, <2>1, <2>2 DEF Behind
<1>13. Freed'
  BY <1>1, <1>3, <1>4, <1>12
  DEF Freed, Modes, PLUMBER_CREATE, PLUMBER_INIT, PLUMBER_COMPUTE, PLUMBER_DESTROY
<1>14. Unset' /\ Tree(plumbings')
  BY <1>3, <1>4 DEF Unset
<1> QED
  BY <1>10, <1>11, <1>13, <1>14 DEF NestedInv

\* The tree is made of the pipes, and stays when a plumbing is freed.
LEMMA TreeKept ==
  ASSUME NEW P, NEW Q, Tree(P), Len(Q) = Len(P), Len(P) \in Nat \ {0},
         \A i \in 1 .. Len(P) : Q[i].pipes = P[i].pipes /\ Q[i].set = P[i].set
  PROVE  Tree(Q)
<1>1. Main \in 1 .. Len(P)
  BY DEF Main
<1>2. Q[Main].set /\ \A p \in 1 .. Len(P) : ~Q[p].set => Q[p].pipes = <<>>
  BY <1>1 DEF Tree
<1>3. \A p \in 1 .. Len(P) : \A k \in 1 .. Len(Q[p].pipes) :
        Q[p].pipes[k].d \in {0} \union p + 1 .. Len(P)
  BY DEF Tree
<1>4. ASSUME NEW d \in 2 .. Len(P)
      PROVE  \E p \in 1 .. d - 1 : \E k \in 1 .. Len(Q[p].pipes) : Q[p].pipes[k].d = d
  <2>1. PICK p \in 1 .. d - 1 : \E k \in 1 .. Len(P[p].pipes) : P[p].pipes[k].d = d
    BY DEF Tree
  <2>2. p \in 1 .. Len(P)
    OBVIOUS
  <2> QED
    BY <2>1, <2>2
<1> QED
  BY <1>2, <1>3, <1>4 DEF Tree

\* What a freed plumbing is, and that nothing else changes.
LEMMA PlumbingFreed ==
  ASSUME NEW P \in Seq(Plumbings), NEW p \in 1 .. Len(P)
  PROVE  LET Q == [P EXCEPT ![p].freed = TRUE] IN
         /\ Q \in Seq(Plumbings) /\ Len(Q) = Len(P)
         /\ \A i \in 1 .. Len(P) :
              /\ Q[i].pipes = P[i].pipes /\ Q[i].set = P[i].set
              /\ Q[i].freed = IF i = p THEN TRUE ELSE P[i].freed
<1> DEFINE y == [P[p] EXCEPT !.freed = TRUE]
           Q == [P EXCEPT ![p].freed = TRUE]
<1>1. P[p] \in Plumbings
  BY ElementOfSeq
<1>2. y \in Plumbings /\ y.pipes = P[p].pipes /\ y.set = P[p].set /\ y.freed = TRUE
  BY <1>1 DEF Plumbings
<1>3. Q = [P EXCEPT ![p] = y]
  OBVIOUS
<1> HIDE DEF y, Q
<1>4. /\ [P EXCEPT ![p] = y] \in Seq(Plumbings) /\ Len([P EXCEPT ![p] = y]) = Len(P)
      /\ \A i \in 1 .. Len(P) : [P EXCEPT ![p] = y][i] = IF i = p THEN y ELSE P[i]
  BY ONLY P \in Seq(Plumbings), p \in 1 .. Len(P), <1>2, ExceptSeq
<1>5. /\ Q \in Seq(Plumbings) /\ Len(Q) = Len(P)
      /\ \A i \in 1 .. Len(P) : Q[i] = IF i = p THEN y ELSE P[i]
  BY ONLY <1>3, <1>4
<1>6. \A i \in 1 .. Len(P) :
        /\ Q[i].pipes = P[i].pipes /\ Q[i].set = P[i].set
        /\ Q[i].freed = IF i = p THEN TRUE ELSE P[i].freed
  BY ONLY <1>2, <1>5
<1> QED
  BY ONLY <1>5, <1>6 DEF Q

\* What changes when the pass of a render ends.
LEMMA RenderedIs ==
  ASSUME NestedInv, Rendered
  PROVE  LET n == Len(frames)
             f == frames[Len(frames) - 1]
         IN
         /\ n # 1 /\ Top.tmp = Main
         /\ f.n <= Len(plumbings[f.on].pipes) /\ plumbings[f.on].pipes[f.n].d = Top.on
         /\ Top.prev = f.on /\ Top.ftmap = f.on /\ Top.next = <<f.on, f.n + 1>>
         /\ n - 1 \in Nat \ {0} /\ n - 1 \in 1 .. n
         /\ PassCall(frames, plumbings, n - 1) /\ f \in Frames
         /\ f.on \in 1 .. Len(plumbings) /\ f.n \in Nat \ {0} /\ f.on \in Nat
         /\ Len(plumbings[f.on].pipes) \in Nat
         /\ Further(f) \in Frames /\ Further(f).n = f.n + 1 /\ Further(f).on = f.on
         /\ next' = <<f.on, f.n + 1>> /\ pipes' = f.on /\ ftmap' = f.on /\ tmp' = Main
         /\ UNCHANGED <<stack, fp, mode, opened, err, host, stacksize, visited>>
         /\ frames' \in Seq(Frames) /\ Len(frames') = n - 1 /\ frames' # <<>>
         /\ Last(frames') = Further(f) /\ frames'[n - 1] = Further(f)
         /\ \A i \in 1 .. n - 1 : i # n - 1 => frames'[i] = frames[i]
         /\ plumbings' \in Seq(Plumbings) /\ Len(plumbings') = Len(plumbings)
         /\ \A i \in 1 .. Len(plumbings) :
              /\ plumbings'[i].pipes = plumbings[i].pipes /\ plumbings'[i].set = plumbings[i].set
              /\ plumbings'[i].freed =
                   IF mode = PLUMBER_DESTROY /\ i = Top.on THEN TRUE ELSE plumbings[i].freed
<1> DEFINE n == Len(frames)
           P == plumbings
           Q == plumbings'
           f == frames[n - 1]
<1>1. host \in Modes /\ ~(Top.n <= Len(P[Top.on].pipes)) /\ Top.by = "render"
  BY DEF Rendered, Passing, InPass
<1>2. /\ frames # <<>> /\ n \in Nat \ {0} /\ frames \in Seq(Frames)
      /\ Top \in Frames /\ Top = frames[n] /\ Top.n \in Nat \ {0}
      /\ \A k \in 1 .. n : PassCall(frames, P, k)
      /\ mode = host /\ Top.on \in 1 .. Len(P) /\ P[Top.on].pipes \in Seq(Pipes)
      /\ opened \subseteq {fp} /\ Len(P) \in Nat \ {0} /\ P \in Seq(Plumbings)
      /\ PassCall(frames, P, n)
  BY <1>1, InAPass
<1>4. /\ n # 1 /\ Top.tmp = Main
      /\ f.n <= Len(P[f.on].pipes) /\ P[f.on].pipes[f.n].d = Top.on
      /\ Top.prev = f.on /\ Top.ftmap = f.on /\ Top.next = <<f.on, f.n + 1>>
  BY <1>1, <1>2 DEF PassCall
<1>5. n - 1 \in Nat \ {0} /\ n - 1 \in 1 .. n
  <2>1. n \in Nat \ {0} /\ n # 1
    BY <1>2, <1>4
  <2> HIDE DEF n
  <2> QED
    BY ONLY <2>1
<1>6. PassCall(frames, P, n - 1) /\ f \in Frames
  BY <1>2, <1>5, ElementOfSeq
<1>7. /\ f.on \in 1 .. Len(P) /\ f.n \in Nat \ {0} /\ f.on \in Nat
      /\ Len(P[f.on].pipes) \in Nat
  <2>1. f.on \in 1 .. Len(P)
    BY <1>6 DEF PassCall
  <2>2. f.n \in Nat \ {0} /\ f.on \in Nat
    BY <1>6 DEF Frames
  <2>3. P[f.on] \in Plumbings
    BY ONLY <1>2, <2>1, ElementOfSeq
  <2>4. Len(P[f.on].pipes) \in Nat
    BY <2>3, LenProperties DEF Plumbings
  <2> QED
    BY <2>1, <2>2, <2>4
<1>8. /\ Further(f) \in Frames /\ Further(f).n = f.n + 1 /\ Further(f).on = f.on
  BY <1>6, OnwardIs
<1>9. /\ next' = <<f.on, f.n + 1>> /\ pipes' = f.on /\ ftmap' = f.on /\ tmp' = Main
      /\ frames' = [Front(frames) EXCEPT ![n - 1] = Further(f)]
      /\ Q = IF mode = PLUMBER_DESTROY THEN [P EXCEPT ![Top.on].freed = TRUE] ELSE P
      /\ UNCHANGED <<stack, fp, mode, opened, err, host, stacksize, visited>>
  <2>1. Len(Front(frames)) = n - 1 /\ \A i \in 1 .. n - 1 : Front(frames)[i] = frames[i]
    BY <1>2, Popping
  <2>2. Front(frames)[n - 1] = f
    BY <1>5, <2>1
  <2>3. /\ pipes' = Top.prev /\ next' = Top.next /\ tmp' = Top.tmp /\ ftmap' = Top.ftmap
        /\ Q = IF mode = PLUMBER_DESTROY THEN [P EXCEPT ![Top.on].freed = TRUE] ELSE P
        /\ frames' = [Front(frames) EXCEPT ![n - 1] = Onward(Front(frames)[n - 1], next')]
        /\ UNCHANGED <<stack, fp, mode, opened, err, host, stacksize, visited>>
    BY DEF Rendered
  <2>4. Onward(Front(frames)[n - 1], next') = Further(f)
    BY <1>4, <2>2, <2>3 DEF Further
  <2> QED
    BY ONLY <1>4, <2>3, <2>4
<1>10. /\ frames' \in Seq(Frames) /\ Len(frames') = n - 1 /\ frames' # <<>> /\ Last(frames') = Further(f)
       /\ frames'[n - 1] = Further(f)
       /\ \A i \in 1 .. n - 1 : i # n - 1 => frames'[i] = frames[i]
  <2> DEFINE g == Front(frames)
  <2>1. /\ g \in Seq(Frames) /\ Len(g) = n - 1 /\ ((g = <<>>) <=> (n = 1))
        /\ \A i \in 1 .. n - 1 : g[i] = frames[i]
    BY <1>2, Popping
  <2> HIDE DEF n, g
  <2>2. g \in Seq(Frames) /\ g # <<>> /\ Further(f) \in Frames
    BY <1>4, <1>8, <2>1
  <2> HIDE DEF f
  <2>3. /\ [g EXCEPT ![Len(g)] = Further(f)] \in Seq(Frames)
        /\ Len([g EXCEPT ![Len(g)] = Further(f)]) = Len(g)
        /\ [g EXCEPT ![Len(g)] = Further(f)] # <<>>
        /\ Last([g EXCEPT ![Len(g)] = Further(f)]) = Further(f)
        /\ [g EXCEPT ![Len(g)] = Further(f)][Len(g)] = Further(f)
        /\ \A i \in 1 .. Len(g) : i # Len(g) => [g EXCEPT ![Len(g)] = Further(f)][i] = g[i]
    BY ONLY <2>2, TopReplaced
  <2>4. frames' = [g EXCEPT ![Len(g)] = Further(f)]
    BY ONLY <1>9, <2>1 DEF g
  <2>5. /\ frames' \in Seq(Frames) /\ Len(frames') = Len(g) /\ frames' # <<>>
        /\ Last(frames') = Further(f) /\ frames'[Len(g)] = Further(f)
        /\ \A i \in 1 .. Len(g) : i # Len(g) => frames'[i] = g[i]
    BY ONLY <2>3, <2>4
  <2> QED
    BY ONLY <2>1, <2>5
<1>11. /\ Q \in Seq(Plumbings) /\ Len(Q) = Len(P)
       /\ \A i \in 1 .. Len(P) :
            /\ Q[i].pipes = P[i].pipes /\ Q[i].set = P[i].set
            /\ Q[i].freed = IF mode = PLUMBER_DESTROY /\ i = Top.on THEN TRUE ELSE P[i].freed
  <2> DEFINE R == [P EXCEPT ![Top.on].freed = TRUE]
  <2>1. /\ R \in Seq(Plumbings) /\ Len(R) = Len(P)
        /\ \A i \in 1 .. Len(P) :
             /\ R[i].pipes = P[i].pipes /\ R[i].set = P[i].set
             /\ R[i].freed = IF i = Top.on THEN TRUE ELSE P[i].freed
    BY ONLY <1>2, PlumbingFreed
  <2>2. Q = IF mode = PLUMBER_DESTROY THEN R ELSE P
    BY <1>9
  <2> HIDE DEF R, Q
  <2>3. CASE mode = PLUMBER_DESTROY
    BY ONLY <2>1, <2>2, <2>3
  <2>4. CASE mode # PLUMBER_DESTROY
    BY ONLY <1>2, <2>2, <2>4
  <2> QED
    BY ONLY <2>3, <2>4
<1> QED
  BY ONLY <1>4, <1>5, <1>6, <1>7, <1>8, <1>9, <1>10, <1>11 DEF n, f, P, Q

\* The pass of a render ends, and the one that called it goes on.
LEMMA RenderedStep ==
  ASSUME NestedInv, Rendered
  PROVE  NestedInv'
<1> DEFINE n == Len(frames)
           P == plumbings
           Q == plumbings'
           f == frames[n - 1]
<1>1. host \in Modes /\ ~(Top.n <= Len(P[Top.on].pipes)) /\ Top.by = "render"
  BY DEF Rendered, Passing, InPass
<1>2. /\ frames # <<>> /\ n \in Nat \ {0} /\ frames \in Seq(Frames)
      /\ Top \in Frames /\ Top = frames[n] /\ Top.n \in Nat \ {0}
      /\ \A k \in 1 .. n : PassCall(frames, P, k)
      /\ mode = host /\ Top.on \in 1 .. Len(P) /\ P[Top.on].pipes \in Seq(Pipes)
      /\ opened \subseteq {fp} /\ Len(P) \in Nat \ {0} /\ P \in Seq(Plumbings)
      /\ PassCall(frames, P, n)
  BY <1>1, InAPass
<1>3. Shape /\ Tree(P) /\ Freed /\ Unset
  BY DEF NestedInv
<1>4. /\ n # 1 /\ Top.tmp = Main
      /\ f.n <= Len(P[f.on].pipes) /\ P[f.on].pipes[f.n].d = Top.on
      /\ Top.prev = f.on /\ Top.ftmap = f.on /\ Top.next = <<f.on, f.n + 1>>
  BY RenderedIs
<1>5. n - 1 \in Nat \ {0} /\ n - 1 \in 1 .. n
  BY RenderedIs
<1>6. PassCall(frames, P, n - 1) /\ f \in Frames
  BY RenderedIs
<1>7. /\ f.on \in 1 .. Len(P) /\ f.n \in Nat \ {0} /\ f.on \in Nat
      /\ Len(P[f.on].pipes) \in Nat
  BY RenderedIs
<1>8. /\ Further(f) \in Frames /\ Further(f).n = f.n + 1 /\ Further(f).on = f.on
  BY RenderedIs
<1>9. /\ next' = <<f.on, f.n + 1>> /\ pipes' = f.on /\ ftmap' = f.on /\ tmp' = Main
      /\ UNCHANGED <<stack, fp, mode, opened, err, host, stacksize, visited>>
  BY RenderedIs
<1>10. /\ frames' \in Seq(Frames) /\ Len(frames') = n - 1 /\ frames' # <<>> /\ Last(frames') = Further(f)
       /\ frames'[n - 1] = Further(f)
       /\ \A i \in 1 .. n - 1 : i # n - 1 => frames'[i] = frames[i]
  BY RenderedIs
<1>11. /\ Q \in Seq(Plumbings) /\ Len(Q) = Len(P)
       /\ \A i \in 1 .. Len(P) :
            /\ Q[i].pipes = P[i].pipes /\ Q[i].set = P[i].set
            /\ Q[i].freed = IF mode = PLUMBER_DESTROY /\ i = Top.on THEN TRUE ELSE P[i].freed
  BY RenderedIs
<1> HIDE DEF n
<1>12. PassCalls(frames', Q)
  <2> SUFFICES ASSUME NEW k \in 1 .. n - 1 PROVE PassCall(frames', Q, k)
    BY <1>10 DEF PassCalls
  <2>1. PassCall(frames, P, k) /\ k \in Nat \ {0}
    BY <1>2
  <2>2. k # 1 => k - 1 \in 1 .. n /\ k - 1 # n - 1 /\ k - 1 \in 1 .. n - 1
    BY <1>2
  <2>3. k # 1 => frames'[k - 1] = frames[k - 1] /\ frames[k - 1].on \in 1 .. Len(P)
    <3>1. k # 1 => PassCall(frames, P, k - 1)
      BY <1>2, <2>2
    <3> QED
      BY <1>10, <2>2, <3>1 DEF PassCall
  <2>4. CASE k = n - 1
    <3>1. frames'[k] = Further(frames[k]) /\ frames[k] \in Frames
      BY <1>6, <1>10, <2>4
    <3>2. Len(P[frames[k].on].pipes) \in Nat /\ frames[k].n <= Len(P[frames[k].on].pipes)
      BY <1>4, <1>7, <2>4
    <3> QED
      BY ONLY <1>11, <2>1, <2>3, <3>1, <3>2, PassOnward
  <2>5. CASE k # n - 1
    <3>1. frames'[k] = frames[k]
      BY <1>10, <2>5
    <3> QED
      BY ONLY <1>11, <2>1, <2>3, <3>1, PassKept
  <2> QED
    BY <2>4, <2>5
<1>13. Shape'
  <2>1. next' \in Spots
    BY <1>7, <1>9 DEF Spots
  <2>2. Q # <<>>
    BY ONLY <1>2, <1>11, EmptySeq
  <2>3. {ftmap', tmp', pipes'} \subseteq 1 .. Len(Q)
    BY <1>2, <1>7, <1>9, <1>11 DEF Main
  <2> QED
    BY <1>3, <1>9, <1>10, <1>11, <2>1, <2>2, <2>3 DEF Shape
<1>14. Calls'
  <2>1. Top' = Further(f)
    BY <1>10 DEF Top
  <2>2. PassFields'
    BY <1>8, <1>9, <2>1 DEF PassFields
  <2> QED
    BY <1>1, <1>2, <1>9, <1>10, <1>12, <2>2
    DEF Calls, Modes, PLUMBER_CREATE, PLUMBER_INIT, PLUMBER_COMPUTE, PLUMBER_DESTROY
<1>15. Tree(Q)
  BY ONLY <1>2, <1>3, <1>11, TreeKept
<1>16. ASSUME NEW p \in 1 .. Len(P), NEW k \in 1 .. Len(P[p].pipes), Behind(p, k)'
       PROVE  Behind(p, k) \/ (mode = PLUMBER_DESTROY /\ P[p].pipes[k].d = Top.on)
  <2>1. k \in Int /\ n \in 1 .. n
    BY <1>2
  <2>2. CASE P[p].freed
    BY <2>2 DEF Behind
  <2>3. CASE mode = PLUMBER_DESTROY /\ p = Top.on
    <3>1. k < Top.n
      BY <1>1, <1>2, <1>16, <2>1, <2>3, LenProperties
    <3> QED
      BY <1>2, <2>1, <2>3, <3>1 DEF Behind, n
  <2>4. ASSUME host = PLUMBER_DESTROY, NEW i \in 1 .. n - 1, frames'[i].on = p, k < frames'[i].n
        PROVE  Behind(p, k) \/ (mode = PLUMBER_DESTROY /\ P[p].pipes[k].d = Top.on)
    <3>0. i \in 1 .. n
      BY <1>2
    <3>1. CASE i # n - 1
      BY <1>10, <2>4, <3>0, <3>1 DEF Behind, n
    <3>2. CASE i = n - 1
      <4>1. p = f.on /\ k < f.n + 1
        BY <1>8, <1>10, <2>4, <3>2
      <4>2. CASE k = f.n
        BY <1>2, <1>4, <2>4, <4>1, <4>2
      <4>3. CASE k # f.n
        <5>1. k < f.n
          BY ONLY <1>7, <2>1, <4>1, <4>3
        <5> QED
          BY <2>4, <3>0, <3>2, <4>1, <5>1 DEF Behind, n
      <4> QED
        BY <4>2, <4>3
    <3> QED
      BY <3>1, <3>2
  <2> QED
    BY <1>9, <1>10, <1>11, <1>16, <2>2, <2>3, <2>4 DEF Behind
<1>17. Freed'
  <2>1. ASSUME NEW p \in 1 .. Len(P), NEW k \in 1 .. Len(P[p].pipes), Behind(p, k)',
               P[p].pipes[k].d # 0, P[P[p].pipes[k].d].set
        PROVE  Q[P[p].pipes[k].d].freed
    <3>1. P[p].pipes[k].d \in 1 .. Len(P)
      <4>1. P[p].pipes[k].d \in p + 1 .. Len(P)
        BY <1>3, <2>1 DEF Tree
      <4> QED
        BY <1>2, <4>1
    <3>2. P[P[p].pipes[k].d].freed \/ (mode = PLUMBER_DESTROY /\ P[p].pipes[k].d = Top.on)
      BY <1>3, <1>16, <2>1 DEF Freed
    <3> QED
      BY ONLY <1>11, <3>1, <3>2
  <2>2. \A p \in 1 .. Len(P) : \A k \in 1 .. Len(Q[p].pipes) :
          LET d == Q[p].pipes[k].d IN Behind(p, k)' /\ d # 0 /\ Q[d].set => Q[d].freed
    <3> SUFFICES ASSUME NEW p \in 1 .. Len(P), NEW k \in 1 .. Len(Q[p].pipes),
                        Behind(p, k)', Q[p].pipes[k].d # 0, Q[Q[p].pipes[k].d].set
                 PROVE  Q[Q[p].pipes[k].d].freed
      OBVIOUS
    <3>1. Q[p].pipes = P[p].pipes
      BY <1>11
    <3>2. P[p].pipes[k].d \in 1 .. Len(P)
      <4>1. P[p].pipes[k].d \in p + 1 .. Len(P)
        BY <1>3, <3>1 DEF Tree
      <4> QED
        BY <1>2, <4>1
    <3> QED
      BY <1>11, <2>1, <3>1, <3>2
  <2>3. \A p \in 1 .. Len(P) : Q[p].freed => host \in {PLUMBER_DESTROY, "cleaned", "crashed"}
    BY <1>2, <1>3, <1>11 DEF Freed
  <2>4. host # "cleaned"
    BY <1>1 DEF Modes, PLUMBER_CREATE, PLUMBER_INIT, PLUMBER_COMPUTE, PLUMBER_DESTROY
  <2> QED
    BY <1>9, <1>11, <2>2, <2>3, <2>4 DEF Freed
<1>18. Unset'
  BY <1>3, <1>9, <1>11 DEF Unset
<1> QED
  BY <1>13, <1>14, <1>15, <1>17, <1>18 DEF NestedInv

\* Only a render has a plumbing of its own.
LEMMA PlainIs ==
  ASSUME NestedInv, StepValue \/ StepUgen \/ StepInline
  PROVE  InPass /\ Stepped /\ Pipe.d = 0 /\ (StepValue => Pipe.ud \in Values)
<1>1. InPass /\ Stepped
  BY DEF StepValue, StepUgen, StepInline
<1>2. Pipe \in Pipes
  BY <1>1, AtPipe
<1> DEFINE q == Pipe
<1>3. CASE StepValue
  <2>1. q \in Pipes /\ q.type # "ugen"
    BY <1>2, <1>3 DEF StepValue
  <2> HIDE DEF q
  <2>2. q.d = 0 /\ q.ud \in Values
    BY ONLY <2>1 DEF Pipes, Values
  <2> QED
    BY <1>1, <2>2 DEF q
<1>4. CASE (StepUgen \/ StepInline) /\ ~StepValue
  <2>1. q \in Pipes /\ q.type = "ugen" /\ q.ud \in DOMAIN Sig \union {"eval", "load"}
    BY <1>2, <1>4 DEF StepUgen, StepInline
  <2>2. "render" \notin DOMAIN Sig
    BY NestedAssumption DEF Nesting
  <2> HIDE DEF q
  <2>3. q.d = 0
    BY ONLY <2>1, <2>2 DEF Pipes
  <2> QED
    BY <1>1, <1>4, <2>3 DEF q
<1> QED
  BY <1>3, <1>4

\* The steps of a pass over pipes that have no plumbing of their own.
LEMMA PlainPipe ==
  ASSUME NestedInv, StepValue \/ StepUgen \/ StepInline
  PROVE  NestedInv'
<1>1. InPass /\ Stepped /\ Pipe.d = 0 /\ (StepValue => Pipe.ud \in Values)
  BY PlainIs
<1>2. stack \in Stacks
  BY DEF NestedInv, Shape
<1>3. stack' \in Stacks
  <2>1. CASE StepValue
    <3>1. stack' \in {stack, Push(stack, Pipe.ud)} /\ Pipe.ud \in Values
      BY <1>1, <2>1 DEF StepValue
    <3> DEFINE x == Pipe.ud
    <3>2. stack' \in {stack, Push(stack, x)} /\ x \in Values
      BY <3>1
    <3> HIDE DEF x
    <3>3. Push(stack, x) \in Stacks
      BY ONLY <1>2, <3>2, PushType
    <3> QED
      BY ONLY <1>2, <3>2, <3>3
  <2>2. CASE StepInline
    <3>1. stack' \in {stack, Pop(stack, "s")}
      BY <2>2 DEF StepInline
    <3> QED
      BY <1>2, <3>1, PopType
  <2>3. CASE StepUgen
    <3> DEFINE sig == Sig[Pipe.ud]
    <3>1. stack' \in {stack, Apply(sig.init, stack), Apply(sig.compute, stack)} /\ Pipe.ud \in DOMAIN Sig
      BY <2>3 DEF StepUgen
    <3>2. sig \in Signatures
      BY <3>1, NestedAssumption
    <3> HIDE DEF sig
    <3>3. sig.init \in Effects /\ sig.compute \in Effects
      BY <3>2 DEF Signatures
    <3> QED
      BY <1>2, <3>1, <3>3, ApplyType
  <2> QED
    BY <2>1, <2>2, <2>3
<1> QED
  BY <1>1, <1>3, SteppedStep

\* A DESTROY pass that comes to memory nobody set goes on, if it can.
LEMMA UnsetStep ==
  ASSUME NestedInv, StepUnset
  PROVE  NestedInv'
<1>1. InPass /\ ~plumbings[Pipe.d].set
  BY DEF StepUnset, AtRender
<1>2. CASE UNCHANGED stack /\ Stepped
  BY <1>1, <1>2, SteppedStep DEF NestedInv, Shape
<1>3. CASE host' = "crashed" /\ UNCHANGED <<plumbings, fields, opened, frames, err, program, left, visited>>
  <2>1. /\ host' = "crashed"
        /\ UNCHANGED <<plumbings, stack, fp, ftmap, tmp, pipes, next, mode, stacksize, opened, frames, err, visited>>
    BY <1>3 DEF fields
  <2>2. host \in Modes /\ frames # <<>> /\ opened \subseteq {fp}
    BY <1>1, InAPass DEF InPass, Passing
  <2>3. Shape /\ Tree(plumbings) /\ Freed /\ Unset
    BY DEF NestedInv
  <2>4. err
    <3> SUFFICES ASSUME ~err PROVE FALSE
      OBVIOUS
    <3>1. \A p \in 1 .. Len(plumbings) : plumbings[p].set
      BY <2>3 DEF Unset
    <3>2. Pipe.d \in {0} \union Top.on + 1 .. Len(plumbings) /\ Pipe \in Pipes
      BY <1>1, AtPipe
    <3>3. Top.on \in 1 .. Len(plumbings) /\ Len(plumbings) \in Nat
      BY <1>1, InAPass DEF InPass, Passing
    <3>4. Pipe.d \notin 1 .. Len(plumbings)
      BY <1>1, <3>1
    <3> DEFINE q == Pipe
               m == Top.on
               l == Len(plumbings)
    <3>5. /\ q \in Pipes /\ q.d \in {0} \union m + 1 .. l /\ m \in 1 .. l /\ l \in Nat
          /\ q.d \notin 1 .. l
      BY <3>2, <3>3, <3>4
    <3>6. q.type = "ugen" /\ q.ud = "render" /\ "render" \notin DOMAIN Sig
      BY NestedAssumption DEF StepUnset, AtRender, Nesting
    <3> HIDE DEF q, m, l
    <3>7. q.d # 0
      BY ONLY <3>5, <3>6 DEF Pipes
    <3> QED
      BY ONLY <3>5, <3>7
  <2>5. Shape'
    BY <2>1, <2>3 DEF Shape
  <2>6. Calls'
    BY <2>1, <2>2 DEF Calls, Modes, PLUMBER_CREATE, PLUMBER_INIT, PLUMBER_COMPUTE, PLUMBER_DESTROY
  <2>7. \A p \in 1 .. Len(plumbings) : \A k \in 1 .. Len(plumbings[p].pipes) : Behind(p, k)' => Behind(p, k)
    BY <2>1 DEF Behind, PLUMBER_DESTROY
  <2>8. Freed'
    BY <2>1, <2>3, <2>7 DEF Freed
  <2>9. Unset' /\ Tree(plumbings')
    BY <2>1, <2>3, <2>4 DEF Unset
  <2> QED
    BY <2>5, <2>6, <2>8, <2>9 DEF NestedInv
<1> QED
  BY <1>2, <1>3 DEF StepUnset
---------------------------------------------------------------------------
(* The steps of the host.                                                  *)

\* A pass begins at the first pipe, with the fields as they are between calls.
LEMMA EnterStep ==
  ASSUME NestedInv, frames = <<>>, host \in {"parse", "idle"},
         NEW m \in {PLUMBER_INIT, PLUMBER_COMPUTE, PLUMBER_DESTROY}, Enter(m)
  PROVE  NestedInv'
<1> DEFINE x == [Pass("host", Main) EXCEPT !.next = next]
           P == plumbings
<1>1. Shape /\ Tree(P) /\ Calls /\ Freed /\ Unset
  BY DEF NestedInv
<1>2. pipes = Main /\ ftmap = Main /\ tmp = Main /\ opened \subseteq {fp} /\ next \in Spots
  BY <1>1 DEF Calls, Shape
<1>3. /\ frames' = <<x>> /\ mode' = m /\ host' = m /\ visited' = <<>>
      /\ stack' \in {stack, sporth_stack_init}
      /\ UNCHANGED <<plumbings, fp, ftmap, tmp, pipes, next, opened, err, stacksize>>
  BY DEF Enter
<1>4. /\ x \in Frames /\ x.on = Main /\ x.n = 1 /\ x.pipe = <<Main, 1>> /\ x.by = "host"
      /\ x.tmp = Main /\ x.prev = Main
  <2>1. NoCall \in Frames /\ NoCall.n = 1
    BY EmptySeq DEF NoCall, Frames, Spots, Main, NoFile
  <2>2. Main \in Nat /\ <<Main, 1>> \in Spots
    BY DEF Main, Spots
  <2>3. x = [NoCall EXCEPT !.do = "pass", !.by = "host", !.on = Main, !.pipe = <<Main, 1>>,
                           !.prev = Main, !.tmp = Main, !.ftmap = Main, !.next = next]
    BY <1>2, <2>1 DEF Pass, Frames
  <2> HIDE DEF x
  <2> QED
    BY ONLY <1>2, <2>1, <2>2, <2>3 DEF Frames
<1> HIDE DEF x
<1>5. frames' \in Seq(Frames) /\ Len(frames') = 1 /\ frames' # <<>> /\ frames'[1] = x /\ Top' = x
  <2>1. <<x>> \in Seq(Frames) /\ Len(<<x>>) = 1 /\ <<x>> # <<>> /\ <<x>>[1] = x
    BY <1>4
  <2> QED
    BY <1>3, <2>1 DEF Top, Last
<1>6. m \in Modes \ {PLUMBER_CREATE}
  BY DEF Modes, PLUMBER_CREATE, PLUMBER_INIT, PLUMBER_COMPUTE, PLUMBER_DESTROY
<1>7. Len(P) \in Nat \ {0} /\ P \in Seq(Plumbings)
  BY <1>1, EmptySeq DEF Shape
<1>8. Main \in 1 .. Len(P) /\ Len(P[Main].pipes) \in Nat
  <2>1. Main \in 1 .. Len(P)
    BY <1>7 DEF Main
  <2>2. P[Main] \in Plumbings
    BY <1>7, <2>1, ElementOfSeq
  <2> QED
    BY <2>1, <2>2, LenProperties DEF Plumbings
<1>9. PassCalls(frames', P)
  <2>1. PassCall(frames', P, 1)
    BY <1>4, <1>5, <1>8 DEF PassCall
  <2> QED
    BY <1>5, <2>1 DEF PassCalls
<1>10. Shape'
  <2>1. stack' \in Stacks
    BY <1>1, <1>3, InitStackType DEF Shape
  <2> QED
    BY <1>1, <1>3, <1>5, <1>6, <2>1, EmptySeq DEF Shape
<1>11. Calls'
  <2>1. PassFields'
    BY <1>2, <1>3, <1>4, <1>5 DEF PassFields
  <2> QED
    BY <1>2, <1>3, <1>5, <1>9, <2>1
    DEF Calls, PLUMBER_CREATE, PLUMBER_INIT, PLUMBER_COMPUTE, PLUMBER_DESTROY
<1>12. \A p \in 1 .. Len(P) : ~P[p].freed
  BY <1>1 DEF Freed, PLUMBER_DESTROY
<1>13. ASSUME NEW p \in 1 .. Len(P), NEW k \in 1 .. Len(P[p].pipes) PROVE ~Behind(p, k)'
  <2>1. \A i \in 1 .. 1 : ~(k < frames'[i].n)
    BY <1>4, <1>5
  <2> QED
    BY <1>3, <1>5, <1>12, <2>1 DEF Behind
<1>14. Freed'
  <2>1. m # "cleaned"
    BY DEF PLUMBER_INIT, PLUMBER_COMPUTE, PLUMBER_DESTROY
  <2> QED
    BY <1>3, <1>12, <1>13, <2>1 DEF Freed
<1>15. Unset' /\ Tree(plumbings')
  BY <1>1, <1>3 DEF Unset, PLUMBER_INIT, PLUMBER_COMPUTE, PLUMBER_DESTROY
<1> QED
  BY <1>10, <1>11, <1>14, <1>15 DEF NestedInv

\* The pass of the host has come to its end.
LEMMA EndIs ==
  ASSUME NestedInv, Passing, ~InPass, Top.by = "host"
  PROVE  /\ host \in Modes /\ mode = host /\ ftmap = Main
         /\ opened \subseteq {fp} /\ Len(frames) = 1 /\ frames[1] = Top /\ Top.on = Main
         /\ Top.prev = Main /\ Top.tmp = Main /\ Top.next \in Spots
         /\ ~(Top.n <= Len(plumbings[Main].pipes)) /\ Top.n \in Nat
         /\ Len(plumbings) \in Nat \ {0} /\ plumbings \in Seq(Plumbings)
<1>1. host \in Modes /\ Top.by = "host" /\ ~(Top.n <= Len(plumbings[Top.on].pipes))
  BY DEF Passing, InPass
<1>2. /\ Len(frames) \in Nat \ {0} /\ Top \in Frames /\ Top = frames[Len(frames)]
      /\ PassCall(frames, plumbings, Len(frames))
      /\ mode = host /\ opened \subseteq {fp} /\ Top.n \in Nat \ {0} /\ ftmap = Top.on
      /\ Len(plumbings) \in Nat \ {0} /\ plumbings \in Seq(Plumbings)
  BY <1>1, InAPass
<1>3. Len(frames) = 1 /\ Top.on = Main /\ Top.prev = Main /\ Top.tmp = Main
  BY <1>1, <1>2 DEF PassCall
<1>4. Top.next \in Spots
  BY <1>2 DEF Frames
<1> QED
  BY <1>1, <1>2, <1>3, <1>4

\* When it is over, no call is under way and the fields are what they were.
LEMMA OverIs ==
  ASSUME NestedInv, NEW m, Over(m)
  PROVE  /\ host \in Modes /\ host = m /\ mode = m /\ frames' = <<>>
         /\ next' \in Spots /\ pipes' = Main /\ ftmap' = Main /\ tmp' = Main
         /\ opened \subseteq {fp} /\ Len(frames) = 1 /\ frames[1] = Top /\ Top.on = Main
         /\ ~(Top.n <= Len(plumbings[Main].pipes)) /\ Top.n \in Nat
         /\ Len(plumbings) \in Nat \ {0} /\ plumbings \in Seq(Plumbings)
         /\ UNCHANGED <<fp, mode, err, stacksize>>
<1>1. /\ host = m /\ Passing /\ ~InPass /\ Top.by = "host"
      /\ pipes' = Top.prev /\ next' = Top.next /\ tmp' = Top.tmp /\ frames' = <<>>
      /\ UNCHANGED <<fp, ftmap, mode, err, stacksize>>
  BY DEF Over
<1> QED
  BY <1>1, EndIs

\* After the parse and after a sample the host goes on with what there is.
LEMMA IdleStep ==
  ASSUME NestedInv, Started \/ Sampled
  PROVE  NestedInv'
<1> DEFINE P == plumbings
<1>1. PICK m \in {PLUMBER_INIT, PLUMBER_COMPUTE} :
        Over(m) /\ host' = "idle" /\ UNCHANGED <<plumbings, opened, visited>>
  BY DEF Started, Sampled
<1>2. /\ host \in Modes /\ host = m /\ frames' = <<>>
      /\ next' \in Spots /\ pipes' = Main /\ ftmap' = Main /\ tmp' = Main
      /\ opened \subseteq {fp} /\ Len(P) \in Nat \ {0}
      /\ UNCHANGED <<fp, mode, err, stacksize>>
  BY <1>1, OverIs
<1>3. Shape /\ Tree(P) /\ Freed /\ Unset
  BY DEF NestedInv
<1>4. stack' \in Stacks
  <2>1. stack \in Stacks
    BY <1>3 DEF Shape
  <2>2. [stack EXCEPT !.vals = <<>>] \in Stacks
    <3>1. <<>> \in Seq(Values) /\ Len(<<>>) <= SPORTH_STACK_SIZE
      BY EmptySeq, StackAssumption
    <3>2. [stack EXCEPT !.vals = <<>>] = [vals |-> <<>>, error |-> stack.error]
      BY <2>1 DEF Stacks
    <3> QED
      BY <2>1, <3>1, <3>2 DEF Stacks
  <2>3. [c \in 1 .. nchan |-> "f"] \in Seq(Types)
    BY NestedAssumption DEF Types
  <2>4. PopAll(stack, [c \in 1 .. nchan |-> "f"]) \in Stacks
    BY <2>1, <2>3, PopAllType
  <2> QED
    BY <2>2, <2>4 DEF Started, Sampled
<1>5. Shape'
  <2>1. Main \in 1 .. Len(P)
    BY <1>2 DEF Main
  <2> QED
    BY <1>1, <1>2, <1>3, <1>4, <2>1, EmptySeq DEF Shape
<1>6. Calls'
  BY <1>1, <1>2 DEF Calls, Modes, PLUMBER_CREATE, PLUMBER_INIT, PLUMBER_COMPUTE, PLUMBER_DESTROY
<1>7. \A p \in 1 .. Len(P) : ~P[p].freed
  BY <1>2, <1>3 DEF Freed, PLUMBER_INIT, PLUMBER_COMPUTE, PLUMBER_DESTROY
<1>8. \A p \in 1 .. Len(P) : \A k \in 1 .. Len(P[p].pipes) : ~Behind(p, k)'
  BY <1>1, <1>7 DEF Behind, PLUMBER_DESTROY
<1>9. Freed'
  BY <1>1, <1>7, <1>8 DEF Freed
<1>10. Unset' /\ Tree(plumbings')
  BY <1>1, <1>2, <1>3 DEF Unset
<1> QED
  BY <1>5, <1>6, <1>9, <1>10 DEF NestedInv

\* plumber_clean frees the main plumbing when its pass has freed the others.
LEMMA CleanedStep ==
  ASSUME NestedInv, Cleaned
  PROVE  NestedInv'
<1> DEFINE P == plumbings
           Q == plumbings'
<1>1. /\ Over(PLUMBER_DESTROY) /\ host' = "cleaned" /\ Q = [P EXCEPT ![Main].freed = TRUE]
      /\ opened' = opened \ {fp} /\ UNCHANGED <<stack, visited>>
  BY DEF Cleaned
<1>2. /\ host \in Modes /\ host = PLUMBER_DESTROY /\ frames' = <<>>
      /\ next' \in Spots /\ pipes' = Main /\ ftmap' = Main /\ tmp' = Main
      /\ opened \subseteq {fp} /\ Len(P) \in Nat \ {0} /\ P \in Seq(Plumbings)
      /\ Len(frames) = 1 /\ frames[1] = Top /\ Top.on = Main
      /\ ~(Top.n <= Len(P[Main].pipes)) /\ Top.n \in Nat
      /\ UNCHANGED <<fp, mode, err, stacksize>>
  BY <1>1, OverIs
<1>3. Shape /\ Tree(P) /\ Freed /\ Unset
  BY DEF NestedInv
<1>4. Main \in 1 .. Len(P)
  BY <1>2 DEF Main
<1>5. /\ Q \in Seq(Plumbings) /\ Len(Q) = Len(P)
      /\ \A i \in 1 .. Len(P) :
           /\ Q[i].pipes = P[i].pipes /\ Q[i].set = P[i].set
           /\ Q[i].freed = IF i = Main THEN TRUE ELSE P[i].freed
  <2> DEFINE R == [P EXCEPT ![Main].freed = TRUE]
  <2>1. /\ R \in Seq(Plumbings) /\ Len(R) = Len(P)
        /\ \A i \in 1 .. Len(P) :
             /\ R[i].pipes = P[i].pipes /\ R[i].set = P[i].set
             /\ R[i].freed = IF i = Main THEN TRUE ELSE P[i].freed
    BY ONLY <1>2, <1>4, PlumbingFreed
  <2>2. Q = R
    BY <1>1
  <2> HIDE DEF R, Q
  <2> QED
    BY ONLY <2>1, <2>2
<1>6. opened' = {}
  BY <1>1, <1>2
<1>7. Shape'
  <2>1. Q # <<>>
    BY ONLY <1>2, <1>5, EmptySeq
  <2> QED
    BY <1>1, <1>2, <1>3, <1>4, <1>5, <1>6, <2>1, EmptySeq DEF Shape
<1>8. Calls'
  BY <1>1, <1>2, <1>6 DEF Calls, Modes, PLUMBER_CREATE, PLUMBER_INIT, PLUMBER_COMPUTE, PLUMBER_DESTROY
<1>9. Tree(Q)
  BY ONLY <1>2, <1>3, <1>5, TreeKept
<1>10. ASSUME NEW p \in 1 .. Len(P), NEW k \in 1 .. Len(P[p].pipes), Behind(p, k)' PROVE Behind(p, k)
  <2>1. Q[p].freed
    BY <1>1, <1>10 DEF Behind, PLUMBER_DESTROY
  <2>2. CASE P[p].freed
    BY <2>2 DEF Behind
  <2>3. CASE p = Main
    <3>1. k < Top.n
      <4>1. P[Main] \in Plumbings
        BY <1>2, <1>4, ElementOfSeq
      <4>2. Len(P[Main].pipes) \in Nat
        BY <4>1, LenProperties DEF Plumbings
      <4>3. k \in 1 .. Len(P[Main].pipes)
        BY <2>3
      <4> QED
        BY ONLY <1>2, <4>2, <4>3
    <3> QED
      BY <1>2, <2>3, <3>1 DEF Behind
  <2> QED
    BY <1>5, <2>1, <2>2, <2>3
<1>11. Freed'
  <2>1. ASSUME NEW p \in 1 .. Len(P), NEW k \in 1 .. Len(Q[p].pipes),
               Behind(p, k)', Q[p].pipes[k].d # 0, Q[Q[p].pipes[k].d].set
        PROVE  Q[Q[p].pipes[k].d].freed
    <3>1. Q[p].pipes = P[p].pipes
      BY <1>5
    <3>2. P[p].pipes[k].d \in 1 .. Len(P)
      <4>1. P[p].pipes[k].d \in p + 1 .. Len(P)
        BY <1>3, <2>1, <3>1 DEF Tree
      <4> QED
        BY <1>2, <4>1
    <3>3. P[P[p].pipes[k].d].freed
      <4>1. k \in 1 .. Len(P[p].pipes) /\ P[p].pipes[k].d # 0
        BY ONLY <2>1, <3>1
      <4>2. Behind(p, k)
        BY <1>10, <2>1, <4>1
      <4>3. P[P[p].pipes[k].d].set
        BY ONLY <1>5, <2>1, <3>1, <3>2
      <4> QED
        BY <1>3, <4>1, <4>2, <4>3 DEF Freed
    <3> DEFINE d == P[p].pipes[k].d
    <3>4. Q[p].pipes[k].d = d /\ d \in 1 .. Len(P) /\ P[d].freed
      BY ONLY <3>1, <3>2, <3>3
    <3> HIDE DEF d
    <3>5. Q[d].freed
      BY ONLY <1>5, <3>4
    <3> QED
      BY ONLY <3>4, <3>5
  <2> QED
    BY <1>1, <1>4, <1>5, <1>6, <2>1 DEF Freed
<1>12. Unset'
  BY <1>1, <1>2, <1>3, <1>5 DEF Unset
<1> QED
  BY <1>7, <1>8, <1>9, <1>11, <1>12 DEF NestedInv

\* The invariant at the beginning and over every step.
LEMMA Initially == ASSUME Init PROVE NestedInv
<1> DEFINE x == [NoCall EXCEPT !.todo = program, !.own = fp]
<1>1. /\ plumbings = <<plumbing_init>> /\ stack = sporth_stack_init /\ mode = PLUMBER_CREATE
      /\ fp \in {NoFile, 1} /\ opened = {fp} \ {NoFile}
      /\ ftmap = Main /\ tmp = Main /\ pipes = Main /\ next = <<Main, 1>>
      /\ program \in Patches /\ stacksize \in {-1, nchan} /\ frames = <<x>>
      /\ err = FALSE /\ host = "parse" /\ visited = <<>>
  BY DEF Init
<1>2. /\ program \in Seq(Tokens) /\ fp \in 0 .. MaxOpen /\ fp \in Nat /\ opened \subseteq 1 .. MaxOpen
  BY <1>1, NestedAssumption DEF NoFile
<1>3. plumbing_init \in Plumbings /\ plumbing_init.pipes = <<>> /\ plumbing_init.set
      /\ ~plumbing_init.freed
  BY EmptySeq DEF plumbing_init, Plumbings
<1>4. plumbings \in Seq(Plumbings) /\ Len(plumbings) = 1 /\ plumbings[1] = plumbing_init /\ plumbings # <<>>
  BY <1>1, <1>3
<1>5. x \in Frames /\ x.on = Main /\ x.by = "host" /\ x.tmp = Main /\ x.own = fp
  <2>1. NoCall \in Frames /\ NoCall.on = Main /\ NoCall.by = "host" /\ NoCall.tmp = Main
    BY EmptySeq DEF NoCall, Frames, Spots, Main, NoFile
  <2> QED
    BY ONLY <1>2, <2>1 DEF Frames
<1> HIDE DEF x
<1>6. frames \in Seq(Frames) /\ Len(frames) = 1 /\ frames[1] = x /\ Top = x /\ frames # <<>>
  BY <1>1, <1>5 DEF Top, Last
<1>7. Shape
  <2>1. <<Main, 1>> \in Spots /\ Main \in 1 .. 1
    BY DEF Main, Spots
  <2> QED
    BY <1>1, <1>2, <1>4, <1>6, <2>1, InitStackType, EmptySeq DEF Shape, Modes
<1>8. Tree(plumbings)
  <2>1. \A p \in 1 .. 1 : plumbings[p].pipes = <<>> /\ plumbings[p].set
    BY <1>3, <1>4
  <2>2. 2 .. 1 = {} /\ Main = 1 /\ Len(<<>>) = 0 /\ 1 .. 0 = {}
    BY EmptySeq DEF Main
  <2> QED
    BY <1>4, <2>1, <2>2 DEF Tree
<1>9. ParseCalls(frames, plumbings)
  <2>1. ParseCall(frames, plumbings, 1)
    <3>1. 1 - 1 = 0 /\ 1 .. 0 = {}
      OBVIOUS
    <3>2. x.on \in 1 .. 1 /\ plumbings[x.on].set
      BY <1>3, <1>4, <1>5 DEF Main
    <3> QED
      BY <1>2, <1>4, <1>5, <1>6, <3>1, <3>2 DEF ParseCall
  <2> QED
    BY <1>6, <2>1 DEF ParseCalls
<1>10. ParseFields
  <2>1. \A i \in 1 .. 1 : frames[i] = x
    BY <1>6
  <2>2. {frames[i].own : i \in 1 .. 1} = {fp}
    BY <1>5, <2>1
  <2> QED
    BY <1>1, <1>5, <1>6, <2>1, <2>2 DEF ParseFields
<1>11. Calls
  BY <1>1, <1>6, <1>9, <1>10 DEF Calls, Modes, PLUMBER_CREATE, PLUMBER_INIT, PLUMBER_COMPUTE, PLUMBER_DESTROY
<1>12. Freed /\ Unset
  BY <1>1, <1>3, <1>4 DEF Freed, Unset, Behind, PLUMBER_DESTROY
<1> QED
  BY <1>7, <1>8, <1>11, <1>12 DEF NestedInv

\* Every step keeps it.
LEMMA Inductive == ASSUME NestedInv, [Next]_vars PROVE NestedInv'
<1>1. CASE Parse
  BY <1>1, PlainToken, NestingStep, ReturnStep DEF Parse
<1>2. CASE Step
  BY <1>2, PlainPipe, RenderStep, UnsetStep, RenderedStep DEF Step
<1>3. CASE Start
  <2>1. host = "parse" /\ frames = <<>> /\ Enter(PLUMBER_INIT)
    BY <1>3 DEF Start
  <2> QED
    BY <2>1, EnterStep
<1>4. CASE Sample
  <2>1. host = "idle" /\ Enter(PLUMBER_COMPUTE)
    BY <1>4 DEF Sample
  <2>2. frames = <<>>
    BY <2>1 DEF NestedInv, Calls
  <2> QED
    BY <2>1, <2>2, EnterStep
<1>5. CASE plumber_clean
  <2>1. Enter(PLUMBER_DESTROY) /\ (host = "idle" \/ (host = "parse" /\ frames = <<>>))
    BY <1>5 DEF plumber_clean
  <2>2. frames = <<>>
    BY <2>1 DEF NestedInv, Calls
  <2> QED
    BY <2>1, <2>2, EnterStep
<1>6. CASE Started \/ Sampled \/ Cleaned
  BY <1>6, IdleStep, CleanedStep
<1>7. CASE UNCHANGED vars
  <2>1. Shape' /\ Tree(plumbings') /\ Unset'
    BY <1>7 DEF NestedInv, vars, fields, Shape, Unset
  <2>2. Calls'
    BY <1>7 DEF NestedInv, vars, fields, Calls, ParseFields, PassFields, Top
  <2>3. Freed'
    BY <1>7 DEF NestedInv, vars, fields, Freed, Behind
  <2> QED
    BY <2>1, <2>2, <2>3 DEF NestedInv
<1> QED
  BY <1>1, <1>2, <1>3, <1>4, <1>5, <1>6, <1>7 DEF Next

\* The calls and the plumbings are well formed, however deep they nest.
THEOREM NestedInvariant == Spec => []NestedInv
<1>1. Init => NestedInv
  BY Initially
<1>2. NestedInv /\ [Next]_vars => NestedInv'
  BY Inductive
<1> QED
  BY <1>1, <1>2, PTL DEF Spec
---------------------------------------------------------------------------
(* What the runs check.                                                    *)

\* A set of calls that has the first one has an innermost one.
LEMMA InnermostCall ==
  ASSUME frames \in Seq(Frames), Len(frames) \in Nat \ {0}, NEW kinds, frames[1].by \in kinds
  PROVE  \E i \in 1 .. Len(frames) : Inner(frames, Len(frames), kinds, i) /\ Innermost(kinds) = frames[i]
<1>1. PICK i \in 1 .. Len(frames) : Inner(frames, Len(frames), kinds, i)
  BY InnerExists
<1> QED
  BY <1>1, InnermostIs

\* What the fields mean, from what the calls hold.
LEMMA ContextFollows == ASSUME NestedInv PROVE Context
<1>1. Shape /\ Calls
  BY DEF NestedInv
<1>2. ASSUME host = "parse", frames # <<>>
      PROVE  /\ tmp = Top.on
             /\ ftmap = Innermost({"host", "render"}).on
             /\ fp = Innermost({"host", "load", "render"}).own
             /\ opened = {frames[i].own : i \in DOMAIN frames} \ {NoFile}
             /\ pipes = Main
  <2>1. /\ Len(frames) \in Nat \ {0} /\ ParseCalls(frames, plumbings) /\ ParseFields
    BY <1>2, InParse
  <2>2. frames \in Seq(Frames)
    BY <1>1 DEF Shape
  <2>3. frames[1].by = "host"
    BY <2>1 DEF ParseCalls, ParseCall
  <2>4. PICK i \in 1 .. Len(frames) :
          Inner(frames, Len(frames), MapCalls, i) /\ Innermost(MapCalls) = frames[i]
    BY <2>1, <2>2, <2>3, InnermostCall DEF MapCalls
  <2>5. PICK j \in 1 .. Len(frames) :
          Inner(frames, Len(frames), FileCalls, j) /\ Innermost(FileCalls) = frames[j]
    BY <2>1, <2>2, <2>3, InnermostCall DEF FileCalls
  <2>6. ftmap = Innermost(MapCalls).on /\ fp = Innermost(FileCalls).own
    BY <2>1, <2>4, <2>5 DEF ParseFields
  <2>7. DOMAIN frames = 1 .. Len(frames)
    BY <2>2, LenProperties
  <2> QED
    BY <2>1, <2>6, <2>7 DEF ParseFields, MapCalls, FileCalls
<1>3. host \in Modes /\ frames # <<>> => pipes = Top.on /\ ftmap = Top.on /\ tmp = Main
  BY InAPass
<1>4. frames = <<>> => pipes = Main /\ ftmap = Main /\ tmp = Main /\ opened \subseteq {fp}
  BY <1>1 DEF Calls
<1> QED
  BY <1>2, <1>3, <1>4 DEF Context

\* A pipe has a plumbing that is there.
LEMMA TypeFollows == ASSUME NestedInv PROVE TypeOK
<1>1. Shape /\ Tree(plumbings)
  BY DEF NestedInv
<1>2. /\ plumbings \in Seq(Plumbings) /\ DOMAIN plumbings = 1 .. Len(plumbings) /\ Len(plumbings) \in Nat
  BY <1>1, LenProperties DEF Shape
<1>3. ASSUME NEW p \in DOMAIN plumbings
      PROVE  /\ plumbings[p].pipes \in Seq(Pipes) /\ plumbings[p].entries \in Seq(Entries)
             /\ \A k \in DOMAIN plumbings[p].pipes : plumbings[p].pipes[k].d <= Len(plumbings)
             /\ plumbings[p].set \in BOOLEAN /\ plumbings[p].freed \in BOOLEAN
  <2>1. plumbings[p] \in Plumbings
    BY <1>2, ElementOfSeq
  <2>2. /\ plumbings[p].pipes \in Seq(Pipes) /\ plumbings[p].entries \in Seq(Entries)
        /\ plumbings[p].set \in BOOLEAN /\ plumbings[p].freed \in BOOLEAN
    BY <2>1 DEF Plumbings
  <2>3. DOMAIN plumbings[p].pipes = 1 .. Len(plumbings[p].pipes)
    BY <2>2, LenProperties
  <2>4. \A k \in 1 .. Len(plumbings[p].pipes) :
          plumbings[p].pipes[k].d \in {0} \union p + 1 .. Len(plumbings)
    BY <1>1, <1>2 DEF Tree
  <2>5. \A d \in {0} \union p + 1 .. Len(plumbings) : d <= Len(plumbings)
    BY <1>2
  <2> QED
    BY <2>2, <2>3, <2>4, <2>5
<1>4. /\ stack.vals \in Seq(Values) /\ Len(stack.vals) <= SPORTH_STACK_SIZE /\ stack.error \in BOOLEAN
  BY <1>1 DEF Shape, Stacks
<1> QED
  BY <1>1, <1>2, <1>3, <1>4 DEF TypeOK, Shape

\* What was set up is freed, since each plumbing belongs to a pipe of an
\* earlier one, which was freed only after its passes.
LEMMA ReleasedFollows == ASSUME NestedInv PROVE AllReleased
<1> DEFINE P == plumbings
           T == {p \in 1 .. Len(P) : P[p].set /\ ~P[p].freed}
<1>1. Shape /\ Tree(P) /\ Freed /\ Unset
  BY DEF NestedInv
<1>2. Len(P) \in Nat /\ DOMAIN P = 1 .. Len(P)
  BY <1>1, LenProperties DEF Shape
<1>3. ASSUME host = "cleaned", T # {} PROVE FALSE
  <2>1. T \subseteq Nat
    OBVIOUS
  <2>2. PICK d \in T : \A e \in T : d <= e
    BY ONLY <1>3, <2>1, Least
  <2>3. d \in 1 .. Len(P) /\ P[d].set /\ ~P[d].freed
    OBVIOUS
  <2>4. d # Main
    BY <1>1, <1>3, <2>3 DEF Freed
  <2>5. d \in 2 .. Len(P)
    BY <1>2, <2>3, <2>4 DEF Main
  <2>6. PICK p \in 1 .. d - 1 : \E k \in 1 .. Len(P[p].pipes) : P[p].pipes[k].d = d
    BY <1>1, <2>5 DEF Tree
  <2>7. PICK k \in 1 .. Len(P[p].pipes) : P[p].pipes[k].d = d
    BY <2>6
  <2>8. p \in 1 .. Len(P) /\ p < d /\ d # 0
    BY <1>2, <2>5
  <2>9. P[p].set
    <3> SUFFICES ASSUME ~P[p].set PROVE FALSE
      OBVIOUS
    <3>1. P[p].pipes = <<>>
      BY <1>1, <2>8 DEF Tree
    <3>2. 1 .. Len(<<>>) = {}
      BY EmptySeq
    <3> QED
      BY <2>7, <3>1, <3>2
  <2>10. P[p].freed
    <3> SUFFICES ASSUME ~P[p].freed PROVE FALSE
      OBVIOUS
    <3>1. p \in T
      BY <2>8, <2>9
    <3>2. d <= p
      BY <2>2, <3>1
    <3> QED
      BY ONLY <2>3, <2>8, <3>2
  <2>11. Behind(p, k)
    BY <2>10 DEF Behind
  <2>12. P[d].freed
    BY <1>1, <2>3, <2>7, <2>8, <2>11 DEF Freed
  <2> QED
    BY <2>3, <2>12
<1>4. host = "cleaned" => \A p \in DOMAIN P : P[p].set => P[p].freed
  BY <1>2, <1>3
<1> QED
  BY <1>1, <1>4 DEF AllReleased, Freed, Unset

\* A value and a ugen go to the same plumbing, tables to the map of the
\* innermost render, files are open while they are read, and a call that is
\* refused half-way puts back what it set (plumber.c:73-112, load.c:30-36).
THEOREM InvHolds == Spec => []Inv
<1>1. NestedInv => Inv
  BY ContextFollows, TypeFollows DEF Inv
<1> QED
  BY <1>1, NestedInvariant, PTL

\* Whatever was refused on the way, plumber_clean leaves no file open and no
\* plumbing that was set up.
THEOREM AllReleasedHolds == Spec => []AllReleased
<1>1. NestedInv => AllReleased
  BY ReleasedFollows
<1> QED
  BY <1>1, NestedInvariant, PTL
---------------------------------------------------------------------------
(* The order of a pass.                                                    *)

\* What FlattenSeq builds, part by part.
Runs(F, s) == F[0] = <<>> /\ \A i \in 1 .. Len(s) : F[i] = F[i - 1] \o s[i]

\* It can be built for every sequence.
LEMMA RunsExist ==
  ASSUME NEW S, NEW s \in Seq(Seq(S))
  PROVE  \E F \in [0 .. Len(s) -> Seq(S)] : Runs(F, s)
<1> DEFINE Good(m) == \E F \in [0 .. m -> Seq(S)] :
                        F[0] = <<>> /\ \A i \in 1 .. m : F[i] = F[i - 1] \o s[i]
           B == {m \in 0 .. Len(s) : ~Good(m)}
<1>0. Len(s) \in Nat /\ \A i \in 1 .. Len(s) : s[i] \in Seq(S)
  BY ElementOfSeq
<1> HIDE DEF Good
<1>1. B = {}
  <2> SUFFICES ASSUME B # {} PROVE FALSE
    OBVIOUS
  <2>1. B \subseteq Nat
    OBVIOUS
  <2> HIDE DEF B
  <2>2. PICK m \in B : \A x \in B : m <= x
    BY ONLY <2>1, B # {}, Least
  <2>3. m \in 0 .. Len(s) /\ ~Good(m)
    BY DEF B
  <2>4. Good(0)
    <3> DEFINE F == [i \in 0 .. 0 |-> <<>>]
    <3>1. F \in [0 .. 0 -> Seq(S)] /\ F[0] = <<>> /\ 1 .. 0 = {}
      BY EmptySeq
    <3> QED
      BY <3>1 DEF Good
  <2>5. m \in Nat \ {0} /\ m - 1 \in 0 .. Len(s) /\ m \in 1 .. Len(s) /\ m - 1 \in 0 .. m - 1
    <3>1. m # 0
      BY <2>3, <2>4
    <3> QED
      BY <1>0, <2>3, <3>1
  <2>6. Good(m - 1)
    <3>1. m - 1 \notin B
      BY <2>2, <2>5
    <3> QED
      BY <2>5, <3>1 DEF B
  <2>7. PICK F \in [0 .. m - 1 -> Seq(S)] : F[0] = <<>> /\ \A i \in 1 .. m - 1 : F[i] = F[i - 1] \o s[i]
    BY <2>6 DEF Good
  <2> DEFINE G == [i \in 0 .. m |-> IF i = m THEN F[m - 1] \o s[m] ELSE F[i]]
  <2>8. F[m - 1] \in Seq(S) /\ s[m] \in Seq(S)
    BY <1>0, <2>5, <2>7
  <2>9. F[m - 1] \o s[m] \in Seq(S)
    BY ONLY <2>8, ConcatProperties
  <2>10. G \in [0 .. m -> Seq(S)]
    <3>1. \A i \in 0 .. m : i # m => i \in 0 .. m - 1
      BY <2>5
    <3> QED
      BY <2>7, <2>9, <3>1
  <2>11. G[0] = <<>>
    BY <2>5, <2>7
  <2>12. ASSUME NEW i \in 1 .. m PROVE G[i] = G[i - 1] \o s[i]
    <3>1. i \in 0 .. m /\ i - 1 \in 0 .. m /\ i - 1 # m
      BY <2>5
    <3>2. G[i - 1] = F[i - 1]
      BY <3>1
    <3>3. CASE i = m
      BY <3>1, <3>2, <3>3
    <3>4. CASE i # m
      <4>1. i \in 1 .. m - 1
        BY <2>5, <3>4
      <4> QED
        BY <2>7, <3>1, <3>2, <3>4, <4>1
    <3> QED
      BY <3>3, <3>4
  <2> HIDE DEF G
  <2>13. Good(m)
    BY ONLY <2>10, <2>11, <2>12 DEF Good
  <2> QED
    BY <2>3, <2>13
<1>2. Len(s) \in 0 .. Len(s)
  BY <1>0
<1>3. Good(Len(s))
  BY <1>1, <1>2
<1> QED
  BY <1>3 DEF Runs, Good

\* And what is built so is what it returns.
LEMMA FlattenRuns ==
  ASSUME NEW S, NEW s \in Seq(Seq(S)), NEW F \in [0 .. Len(s) -> Seq(S)], Runs(F, s)
  PROVE  FlattenSeq(s) = F[Len(s)]
<1>0. Len(s) \in Nat /\ \A i \in 1 .. Len(s) : s[i] \in Seq(S)
  BY ElementOfSeq
<1>1. CASE Len(s) = 0
  <2>1. s = <<>>
    BY <1>1, EmptySeq
  <2> QED
    BY <1>1, <2>1 DEF FlattenSeq, Runs
<1>2. CASE Len(s) # 0
  <2> DEFINE Link(f, i) == IF i = 1 THEN s[i] ELSE f[i - 1] \o s[i]
             N == Len(s)
             c == CHOOSE f : f = [i \in 1 .. N |-> Link(f, i)]
             w == [i \in 1 .. N |-> F[i]]
  <2>1. FlattenSeq(s) = c[N]
    BY <1>2 DEF FlattenSeq
  <2>2. \A i \in 1 .. N : w[i] = Link(w, i)
    <3> TAKE i \in 1 .. N
    <3>0. F[i] = F[i - 1] \o s[i]
      BY DEF Runs
    <3>1. F[i] = F[i - 1] \o s[i] /\ s[i] \in Seq(S) /\ i \in 0 .. N
      BY <1>0, <3>0
    <3>2. CASE i = 1
      <4>1. F[i - 1] = <<>>
        BY <3>2 DEF Runs
      <4>2. <<>> \o s[i] = s[i]
        BY <3>1, ConcatEmptySeq
      <4> QED
        BY <3>1, <3>2, <4>1, <4>2
    <3>3. CASE i # 1
      <4>1. i - 1 \in 1 .. N
        BY <1>0, <3>3
      <4> QED
        BY <3>1, <3>3, <4>1
    <3> QED
      BY <3>2, <3>3
  <2>3. w = [i \in 1 .. N |-> Link(w, i)]
    BY <2>2
  <2> HIDE DEF Link, N, w
  <2>4. c = [i \in 1 .. N |-> Link(c, i)]
    BY <2>3, Zenon
  <2> DEFINE T == {i \in 1 .. N : c[i] # w[i]}
  <2> HIDE DEF c
  <2>5. T = {}
    <3> SUFFICES ASSUME T # {} PROVE FALSE
      OBVIOUS
    <3>1. T \subseteq Nat
      OBVIOUS
    <3>2. PICK i \in T : \A x \in T : i <= x
      BY ONLY <3>1, T # {}, Least
    <3>3. i \in 1 .. N /\ c[i] # w[i]
      BY <3>2
    <3>4. c[i] = Link(c, i) /\ w[i] = Link(w, i)
      BY <2>2, <2>4, <3>3
    <3>5. i # 1
      BY <3>3, <3>4 DEF Link
    <3>6. i - 1 \in 1 .. N /\ ~(i <= i - 1)
      BY <1>0, <3>3, <3>5 DEF N
    <3>7. c[i - 1] = w[i - 1]
      BY <3>2, <3>6
    <3> QED
      BY <3>3, <3>4, <3>7 DEF Link
  <2>6. N \in 1 .. N
    BY <1>0, <1>2 DEF N
  <2>7. c[N] = w[N] /\ w[N] = F[N]
    BY <2>5, <2>6 DEF w
  <2> QED
    BY <2>1, <2>7 DEF N
<1> QED
  BY <1>1, <1>2

\* One part more is put at the end.
LEMMA FlattenAppend ==
  ASSUME NEW S, NEW s \in Seq(Seq(S)), NEW x \in Seq(S)
  PROVE  FlattenSeq(s) \in Seq(S) /\ FlattenSeq(Append(s, x)) = FlattenSeq(s) \o x
<1> DEFINE t == Append(s, x)
           n == Len(s)
<1>1. t \in Seq(Seq(S)) /\ Len(t) = n + 1 /\ t[n + 1] = x /\ \A i \in 1 .. n : t[i] = s[i]
  BY AppendProperties
<1>2. n \in Nat
  OBVIOUS
<1> HIDE DEF t
<1>3. PICK F \in [0 .. Len(t) -> Seq(S)] : Runs(F, t)
  BY ONLY <1>1, RunsExist
<1>4. FlattenSeq(t) = F[Len(t)]
  BY ONLY <1>1, <1>3, FlattenRuns
<1> HIDE DEF n
<1> DEFINE G == [i \in 0 .. n |-> F[i]]
<1>5. G \in [0 .. n -> Seq(S)]
  BY <1>1, <1>2, <1>3
<1>6. Runs(G, s)
  <2>1. G[0] = <<>>
    BY <1>2, <1>3 DEF Runs
  <2>2. ASSUME NEW i \in 1 .. n PROVE G[i] = G[i - 1] \o s[i]
    <3>1. i \in 1 .. Len(t) /\ i \in 0 .. n /\ i - 1 \in 0 .. n
      BY <1>1, <1>2
    <3> QED
      BY <1>1, <1>3, <3>1 DEF Runs
  <2> HIDE DEF G
  <2> QED
    BY ONLY <2>1, <2>2 DEF Runs, n
<1>7. FlattenSeq(s) = G[n] /\ G[n] = F[n] /\ n \in 0 .. n
  <2>1. n \in 0 .. n
    BY <1>2
  <2>2. G[n] = F[n]
    BY <2>1
  <2>3. G \in [0 .. Len(s) -> Seq(S)]
    BY <1>5 DEF n
  <2> HIDE DEF G
  <2>4. FlattenSeq(s) = G[Len(s)]
    BY ONLY s \in Seq(Seq(S)), <1>6, <2>3, FlattenRuns
  <2> QED
    BY <2>1, <2>2, <2>4 DEF n
<1>8. F[n + 1] = F[n] \o x
  <2>1. PICK m \in 1 .. Len(t) : m = n + 1 /\ m - 1 = n
    BY <1>1, <1>2
  <2>2. F[m] = F[m - 1] \o t[m]
    BY <1>3 DEF Runs
  <2> QED
    BY <1>1, <2>1, <2>2
<1>9. FlattenSeq(s) \in Seq(S)
  BY <1>5, <1>7
<1> QED
  BY <1>1, <1>4, <1>7, <1>8, <1>9 DEF t

\* One part more of a sequence of parts.
LEMMA FlattenPrefix ==
  ASSUME NEW S, NEW s \in Seq(Seq(S)), NEW m \in 1 .. Len(s)
  PROVE  /\ FlattenSeq(SubSeq(s, 1, m - 1)) \in Seq(S)
         /\ FlattenSeq(SubSeq(s, 1, m)) = FlattenSeq(SubSeq(s, 1, m - 1)) \o s[m]
<1> DEFINE a == SubSeq(s, 1, m - 1)
<1>0. Len(s) \in Nat /\ m \in Nat \ {0} /\ \A i \in 1 .. Len(s) : s[i] \in Seq(S)
  BY ElementOfSeq
<1>1. \A l \in 0 .. Len(s) :
        /\ SubSeq(s, 1, l) \in Seq(Seq(S)) /\ Len(SubSeq(s, 1, l)) = l
        /\ \A i \in 1 .. l : SubSeq(s, 1, l)[i] = s[i]
  <2> TAKE l \in 0 .. Len(s)
  <2>1. l \in Int /\ 1 \in Int /\ \A i \in 1 .. l : s[i] \in Seq(S)
    BY <1>0
  <2>2. /\ SubSeq(s, 1, l) \in Seq(Seq(S))
        /\ Len(SubSeq(s, 1, l)) = IF 1 <= l THEN l - 1 + 1 ELSE 0
        /\ \A i \in 1 .. l - 1 + 1 : SubSeq(s, 1, l)[i] = s[1 + i - 1]
    BY ONLY <2>1, SubSeqProperties
  <2>3. l - 1 + 1 = l /\ \A i \in 1 .. l : 1 + i - 1 = i
    BY <2>1
  <2> QED
    BY <1>0, <2>1, <2>2, <2>3
<1>2. m - 1 \in 0 .. Len(s) /\ m \in 0 .. Len(s) /\ s[m] \in Seq(S)
  BY <1>0
<1>3. a \in Seq(Seq(S)) /\ Len(a) = m - 1 /\ \A i \in 1 .. m - 1 : a[i] = s[i]
  BY <1>1, <1>2
<1>4. /\ SubSeq(s, 1, m) \in Seq(Seq(S)) /\ Len(SubSeq(s, 1, m)) = m
      /\ \A i \in 1 .. m : SubSeq(s, 1, m)[i] = s[i]
  BY <1>1, <1>2
<1> HIDE DEF a
<1>5. /\ Append(a, s[m]) \in Seq(Seq(S)) /\ Len(Append(a, s[m])) = Len(a) + 1
      /\ Append(a, s[m])[Len(a) + 1] = s[m]
      /\ \A i \in 1 .. Len(a) : Append(a, s[m])[i] = a[i]
  BY ONLY <1>2, <1>3, AppendProperties
<1>6. Append(a, s[m]) = SubSeq(s, 1, m)
  <2>1. Len(Append(a, s[m])) = m /\ Append(a, s[m])[m] = s[m]
    <3>1. Len(a) + 1 = m
      BY <1>0, <1>3
    <3> QED
      BY ONLY <1>5, <3>1
  <2>2. ASSUME NEW i \in 1 .. m PROVE Append(a, s[m])[i] = SubSeq(s, 1, m)[i]
    <3>1. CASE i = m
      BY <1>4, <2>1, <3>1
    <3>2. CASE i # m
      <4>1. i \in 1 .. m - 1
        BY <1>0, <3>2
      <4> QED
        BY <1>3, <1>4, <1>5, <4>1
    <3> QED
      BY <3>1, <3>2
  <2> QED
    BY ONLY <1>4, <1>5, <2>1, <2>2, SeqEqual
<1>7. FlattenSeq(a) \in Seq(S) /\ FlattenSeq(Append(a, s[m])) = FlattenSeq(a) \o s[m]
  BY ONLY <1>2, <1>3, FlattenAppend
<1> QED
  BY <1>6, <1>7 DEF a

\* What a pass over the plumbing i visits at each of its pipes, where f says
\* what it visits in the plumbings after it.
PartsOf(P, f, i) ==
  [k \in DOMAIN P[i].pipes |->
     <<<<i, k>>>> \o IF P[i].pipes[k].d > 0 /\ P[P[i].pipes[k].d].set
                     THEN f[P[i].pipes[k].d] ELSE <<>>]

\* Only these count.
LEMMA PartsSame ==
  ASSUME NEW P \in Seq(Plumbings), Tree(P), NEW Q, Len(Q) = Len(P),
         \A j \in 1 .. Len(P) : Q[j].pipes = P[j].pipes /\ Q[j].set = P[j].set,
         NEW i \in 1 .. Len(P), NEW f, NEW g, \A j \in i + 1 .. Len(P) : g[j] = f[j]
  PROVE  PartsOf(Q, g, i) = PartsOf(P, f, i)
<1>1. P[i] \in Plumbings /\ Len(P) \in Nat
  BY ElementOfSeq
<1>2. DOMAIN P[i].pipes = 1 .. Len(P[i].pipes)
  BY <1>1 DEF Plumbings
<1>3. Q[i].pipes = P[i].pipes
  OBVIOUS
<1> DEFINE D(k) == P[i].pipes[k].d
           Part(R, h, k) == <<<<i, k>>>> \o IF D(k) > 0 /\ R[D(k)].set THEN h[D(k)] ELSE <<>>
<1>4. ASSUME NEW k \in 1 .. Len(P[i].pipes) PROVE Part(Q, g, k) = Part(P, f, k)
  <2>1. D(k) \in {0} \union i + 1 .. Len(P)
    BY DEF Tree
  <2> HIDE DEF D
  <2>2. D(k) = 0 \/ D(k) \in 1 .. Len(P)
    BY <1>1, <2>1
  <2>3. CASE D(k) = 0
    BY <2>3
  <2>4. CASE D(k) # 0
    <3>1. Q[D(k)].set = P[D(k)].set /\ g[D(k)] = f[D(k)]
      BY <2>1, <2>2, <2>4
    <3> QED
      BY <3>1
  <2> QED
    BY <2>3, <2>4
<1>5. PartsOf(P, f, i) = [k \in 1 .. Len(P[i].pipes) |-> Part(P, f, k)]
  BY <1>2 DEF PartsOf
<1>6. PartsOf(Q, g, i) = [k \in 1 .. Len(P[i].pipes) |-> Part(Q, g, k)]
  BY <1>2, <1>3 DEF PartsOf
<1> HIDE DEF Part
<1> QED
  BY <1>4, <1>5, <1>6

\* So they are the same where the plumbings are.
LEMMA PartsAlike ==
  ASSUME NEW P \in Seq(Plumbings), Tree(P), NEW i \in 1 .. Len(P),
         NEW f, NEW g, \A j \in i + 1 .. Len(P) : g[j] = f[j]
  PROVE  PartsOf(P, g, i) = PartsOf(P, f, i)
<1>1. PICK Q : Q = P
  OBVIOUS
<1>2. /\ Len(Q) = Len(P)
      /\ \A j \in 1 .. Len(P) : Q[j].pipes = P[j].pipes /\ Q[j].set = P[j].set
  BY <1>1
<1>3. PartsOf(Q, g, i) = PartsOf(P, f, i)
  BY <1>2, PartsSame
<1> QED
  BY ONLY <1>1, <1>3

\* They are sequences of pipes.
LEMMA PartsType ==
  ASSUME NEW P \in Seq(Plumbings), Tree(P), NEW i \in 1 .. Len(P), NEW f,
         \A j \in i + 1 .. Len(P) : f[j] \in Seq(Spots)
  PROVE  /\ PartsOf(P, f, i) \in Seq(Seq(Spots)) /\ Len(PartsOf(P, f, i)) = Len(P[i].pipes)
         /\ FlattenSeq(PartsOf(P, f, i)) \in Seq(Spots)
         /\ \A k \in 1 .. Len(P[i].pipes) :
              PartsOf(P, f, i)[k] = <<<<i, k>>>> \o IF P[i].pipes[k].d > 0 /\ P[P[i].pipes[k].d].set
                                                    THEN f[P[i].pipes[k].d] ELSE <<>>
<1>1. P[i] \in Plumbings /\ Len(P) \in Nat
  BY ElementOfSeq
<1>2. DOMAIN P[i].pipes = 1 .. Len(P[i].pipes) /\ Len(P[i].pipes) \in Nat
  BY <1>1 DEF Plumbings
<1> DEFINE D(k) == P[i].pipes[k].d
           Part(k) == <<<<i, k>>>> \o IF D(k) > 0 /\ P[D(k)].set THEN f[D(k)] ELSE <<>>
           n == Len(P[i].pipes)
<1>3. ASSUME NEW k \in 1 .. n PROVE Part(k) \in Seq(Spots)
  <2>1. D(k) \in {0} \union i + 1 .. Len(P)
    BY DEF Tree
  <2> HIDE DEF D
  <2>2. <<<<i, k>>>> \in Seq(Spots)
    <3>1. i \in Nat /\ k \in Nat
      BY <1>1, <1>2
    <3>2. <<i, k>> \in Spots
      BY <3>1 DEF Spots
    <3> QED
      BY <3>2
  <2>3. (IF D(k) > 0 /\ P[D(k)].set THEN f[D(k)] ELSE <<>>) \in Seq(Spots)
    <3>1. <<>> \in Seq(Spots)
      BY EmptySeq
    <3>2. D(k) > 0 => f[D(k)] \in Seq(Spots)
      BY <2>1
    <3> QED
      BY <3>1, <3>2
  <2> QED
    BY ONLY <2>2, <2>3, ConcatProperties
<1>4. PartsOf(P, f, i) = [k \in 1 .. n |-> Part(k)]
  BY <1>2 DEF PartsOf
<1>5. \A k \in 1 .. n : PartsOf(P, f, i)[k] = Part(k)
  BY <1>4
<1> HIDE DEF Part, n
<1>6. PartsOf(P, f, i) \in Seq(Seq(Spots)) /\ Len(PartsOf(P, f, i)) = n
  <2>1. n \in Nat
    BY <1>2 DEF n
  <2>2. PartsOf(P, f, i) \in [1 .. n -> Seq(Spots)]
    BY <1>3, <1>4
  <2> QED
    BY ONLY <2>1, <2>2
<1>7. FlattenSeq(PartsOf(P, f, i)) \in Seq(Spots)
  <2>1. <<>> \in Seq(Spots)
    BY EmptySeq
  <2> QED
    BY ONLY <1>6, <2>1, FlattenAppend
<1> QED
  BY <1>5, <1>6, <1>7 DEF Part, n

\* Of numbers up to n there is a greatest one.
LEMMA Greatest ==
  ASSUME NEW n \in Nat, NEW T, T \subseteq 1 .. n, T # {}
  PROVE  \E x \in T : x \in 1 .. n /\ \A y \in x + 1 .. n : y \notin T
<1> DEFINE R == {m \in 0 .. n : n - m \in T}
<1>1. PICK t \in T : TRUE
  OBVIOUS
<1>2. t \in 1 .. n
  BY <1>1
<1>3. n - t \in R
  BY <1>1, <1>2
<1>4. R \subseteq Nat /\ R # {}
  <2>1. R \subseteq Nat
    OBVIOUS
  <2> HIDE DEF R
  <2> QED
    BY ONLY <1>3, <2>1
<1>5. PICK m \in R : \A y \in R : m <= y
  BY ONLY <1>4, Least
<1>6. m \in 0 .. n /\ n - m \in T /\ n - m \in 1 .. n
  BY <1>5
<1>7. ASSUME NEW y \in n - m + 1 .. n, y \in T PROVE FALSE
  <2>1. n - y \in 0 .. n /\ n - (n - y) = y /\ n - y < m
    BY <1>6
  <2>2. n - y \in R
    BY <1>7, <2>1
  <2> QED
    BY <1>5, <1>6, <2>1, <2>2
<1> QED
  BY <1>6, <1>7

\* From the last plumbing to the first, all walks can be put together.
LEMMA WalksExist ==
  ASSUME NEW P \in Seq(Plumbings), Tree(P)
  PROVE  \E W : W = [i \in 1 .. Len(P) |-> FlattenSeq(PartsOf(P, W, i))]
<1> DEFINE n == Len(P)
           Good(m) == \E f \in [m + 1 .. n -> Seq(Spots)] :
                        \A i \in m + 1 .. n : f[i] = FlattenSeq(PartsOf(P, f, i))
           B == {m \in 1 .. n : ~Good(m - 1)}
<1>0. n \in Nat
  OBVIOUS
<1>1. Good(n)
  <2> DEFINE f == [i \in n + 1 .. n |-> <<>>]
  <2>1. n + 1 .. n = {}
    BY <1>0
  <2>2. f \in [n + 1 .. n -> Seq(Spots)]
    BY <2>1
  <2> QED
    BY <2>1, <2>2
<1> HIDE DEF Good
<1>2. B = {}
  <2> SUFFICES ASSUME B # {} PROVE FALSE
    OBVIOUS
  <2>1. B \subseteq 1 .. n
    OBVIOUS
  <2> HIDE DEF B
  <2>2. PICK m \in B : m \in 1 .. n /\ \A y \in m + 1 .. n : y \notin B
    BY ONLY <1>0, <2>1, B # {}, Greatest
  <2>3. m \in 1 .. n /\ ~Good(m - 1)
    BY <2>2 DEF B
  <2>4. Good(m)
    <3>1. CASE m = n
      BY <1>1, <3>1
    <3>2. CASE m # n
      <4>1. m + 1 \in m + 1 .. n /\ m + 1 \in 1 .. n /\ m + 1 - 1 = m
        BY <1>0, <2>3, <3>2
      <4>2. m + 1 \notin B
        BY <2>2, <4>1
      <4>3. Good(m + 1 - 1)
        BY <4>1, <4>2 DEF B
      <4> QED
        BY <4>1, <4>3
    <3> QED
      BY <3>1, <3>2
  <2>5. PICK f \in [m + 1 .. n -> Seq(Spots)] :
          \A i \in m + 1 .. n : f[i] = FlattenSeq(PartsOf(P, f, i))
    BY <2>4 DEF Good
  <2> DEFINE h == [i \in m .. n |-> IF i = m THEN FlattenSeq(PartsOf(P, f, m)) ELSE f[i]]
  <2>6. m \in 1 .. n /\ m \in m .. n /\ \A j \in m + 1 .. n : j \in m .. n /\ j # m
    BY <1>0, <2>3
  <2>7. \A j \in m + 1 .. n : f[j] \in Seq(Spots) /\ h[j] = f[j]
    BY <2>5, <2>6
  <2>8. FlattenSeq(PartsOf(P, f, m)) \in Seq(Spots) /\ h[m] = FlattenSeq(PartsOf(P, f, m))
    BY <2>6, <2>7, PartsType
  <2>9. h \in [m .. n -> Seq(Spots)]
    <3>1. \A i \in m .. n : i # m => i \in m + 1 .. n
      BY <1>0, <2>3
    <3>2. \A i \in m .. n : (IF i = m THEN FlattenSeq(PartsOf(P, f, m)) ELSE f[i]) \in Seq(Spots)
      BY <2>7, <2>8, <3>1
    <3> QED
      BY <3>2
  <2> HIDE DEF h
  <2>10. ASSUME NEW i \in m .. n PROVE h[i] = FlattenSeq(PartsOf(P, h, i))
    <3>1. i \in 1 .. n /\ \A j \in i + 1 .. n : j \in m + 1 .. n
      BY <1>0, <2>3
    <3>2. \A j \in i + 1 .. n : h[j] = f[j]
      BY <2>7, <3>1
    <3>3. PartsOf(P, h, i) = PartsOf(P, f, i)
      <4>1. \A j \in i + 1 .. Len(P) : h[j] = f[j]
        BY <3>2
      <4>2. i \in 1 .. Len(P)
        BY <3>1
      <4> QED
        BY ONLY P \in Seq(Plumbings), Tree(P), <4>1, <4>2, PartsAlike
    <3>4. CASE i = m
      BY <2>8, <3>3, <3>4
    <3>5. CASE i # m
      <4>1. i \in m + 1 .. n
        BY <1>0, <2>3, <3>5
      <4> QED
        BY <2>5, <2>7, <3>3, <4>1
    <3> QED
      BY <3>4, <3>5
  <2>11. m - 1 + 1 = m
    BY <2>3
  <2>12. Good(m - 1)
    <3>1. /\ h \in [m - 1 + 1 .. n -> Seq(Spots)]
          /\ \A i \in m - 1 + 1 .. n : h[i] = FlattenSeq(PartsOf(P, h, i))
      BY <2>9, <2>10, <2>11
    <3> QED
      BY <3>1 DEF Good
  <2> QED
    BY <2>3, <2>12
<1>3. Good(0)
  <2>1. CASE n = 0
    BY <1>1, <2>1
  <2>2. CASE n # 0
    <3>1. 1 \in 1 .. n /\ 1 - 1 = 0
      BY <1>0, <2>2
    <3>2. 1 \notin B
      BY <1>2
    <3>3. Good(1 - 1)
      BY <3>1, <3>2
    <3> QED
      BY <3>1, <3>3
  <2> QED
    BY <2>1, <2>2
<1>4. 0 + 1 = 1
  OBVIOUS
<1>5. PICK W \in [1 .. n -> Seq(Spots)] : \A i \in 1 .. n : W[i] = FlattenSeq(PartsOf(P, W, i))
  BY <1>3, <1>4 DEF Good
<1>6. W = [i \in 1 .. n |-> FlattenSeq(PartsOf(P, W, i))]
  BY <1>5
<1> QED
  BY <1>6

Walks(P) == [i \in 1 .. Len(P) |-> Walk(P, i)]
Parts(P, i) == PartsOf(P, Walks(P), i)

\* A walk is what its definition says.
LEMMA WalkIs ==
  ASSUME NEW P \in Seq(Plumbings), Tree(P), NEW i \in 1 .. Len(P)
  PROVE  /\ Walk(P, i) = FlattenSeq(Parts(P, i)) /\ Walk(P, i) \in Seq(Spots)
         /\ Parts(P, i) \in Seq(Seq(Spots)) /\ Len(Parts(P, i)) = Len(P[i].pipes)
<1> DEFINE n == Len(P)
           c == CHOOSE f : f = [j \in 1 .. n |-> FlattenSeq(PartsOf(P, f, j))]
<1>0. n \in Nat
  OBVIOUS
<1>1. \A p : Walk(P, p) = c[p]
  BY DEF Walk, PartsOf
<1>2. c = [j \in 1 .. n |-> FlattenSeq(PartsOf(P, c, j))]
  <2> DEFINE Is(f) == f = [j \in 1 .. n |-> FlattenSeq(PartsOf(P, f, j))]
  <2>1. \E f : Is(f)
    BY WalksExist
  <2>2. c = CHOOSE f : Is(f)
    OBVIOUS
  <2> HIDE DEF Is, c
  <2>3. Is(c)
    BY <2>1, <2>2
  <2> QED
    BY <2>3 DEF Is
<1> HIDE DEF c
<1>3. Walks(P) = c
  BY <1>1, <1>2 DEF Walks
<1>4. \A j \in 1 .. n : Walk(P, j) = FlattenSeq(Parts(P, j)) /\ Walks(P)[j] = Walk(P, j)
  BY <1>1, <1>2, <1>3 DEF Parts
<1> DEFINE T == {j \in 1 .. n : Walk(P, j) \notin Seq(Spots)}
<1>5. T = {}
  <2> SUFFICES ASSUME T # {} PROVE FALSE
    OBVIOUS
  <2>1. T \subseteq 1 .. n
    OBVIOUS
  <2>2. PICK j \in T : j \in 1 .. n /\ \A y \in j + 1 .. n : y \notin T
    BY ONLY <1>0, <2>1, T # {}, Greatest
  <2>3. \A y \in j + 1 .. n : Walks(P)[y] \in Seq(Spots)
    <3>1. \A y \in j + 1 .. n : y \in 1 .. n
      BY <1>0, <2>2
    <3> QED
      BY <1>4, <2>2, <3>1
  <2>4. FlattenSeq(Parts(P, j)) \in Seq(Spots)
    BY <2>2, <2>3, PartsType DEF Parts
  <2> QED
    BY <1>4, <2>2, <2>4
<1>6. \A j \in i + 1 .. n : Walks(P)[j] \in Seq(Spots)
  <2>1. \A j \in i + 1 .. n : j \in 1 .. n
    BY <1>0
  <2> QED
    BY <1>4, <1>5, <2>1
<1>7. Parts(P, i) \in Seq(Seq(Spots)) /\ Len(Parts(P, i)) = Len(P[i].pipes)
  BY <1>6, PartsType DEF Parts
<1> QED
  BY <1>4, <1>5, <1>7

\* What a pass visits at its kth pipe: the pipe, and then all that its
\* plumbing has.
LEMMA PartIs ==
  ASSUME NEW P \in Seq(Plumbings), Tree(P), NEW i \in 1 .. Len(P), NEW k \in 1 .. Len(P[i].pipes)
  PROVE  LET d == P[i].pipes[k].d IN
         /\ d = 0 \/ ~P[d].set => Parts(P, i)[k] = <<<<i, k>>>>
         /\ d # 0 => Parts(P, i)[k] = <<<<i, k>>>> \o Walk(P, d)
<1> DEFINE d == P[i].pipes[k].d
<1>1. d \in {0} \union i + 1 .. Len(P)
  BY DEF Tree
<1>2. P[i] \in Plumbings /\ Len(P) \in Nat
  BY ElementOfSeq
<1>3. Parts(P, i)[k] = <<<<i, k>>>> \o IF d > 0 /\ P[d].set THEN Walks(P)[d] ELSE <<>>
  <2>1. \A j \in i + 1 .. Len(P) : Walks(P)[j] \in Seq(Spots)
    <3>1. \A j \in i + 1 .. Len(P) : j \in 1 .. Len(P)
      BY <1>2
    <3> QED
      BY <3>1, WalkIs DEF Walks
  <2> QED
    BY <2>1, PartsType DEF Parts
<1> HIDE DEF d
<1>4. <<<<i, k>>>> \o <<>> = <<<<i, k>>>>
  <2>1. <<<<i, k>>>> \in Seq({<<i, k>>})
    OBVIOUS
  <2> QED
    BY <2>1, ConcatEmptySeq
<1>5. d = 0 \/ ~P[d].set => Parts(P, i)[k] = <<<<i, k>>>>
  <2>1. d = 0 \/ ~P[d].set => ~(d > 0 /\ P[d].set)
    OBVIOUS
  <2> DEFINE v == Walks(P)[d]
             e == <<<<i, k>>>>
  <2>2. d = 0 \/ ~P[d].set => Parts(P, i)[k] = e \o <<>>
    <3> HIDE DEF v, e
    <3> QED
      BY ONLY <1>3, <2>1 DEF v, e
  <2> QED
    BY <1>4, <2>2
<1>6. ASSUME d # 0 PROVE Parts(P, i)[k] = <<<<i, k>>>> \o Walk(P, d)
  <2>1. d > 0 /\ d \in 1 .. Len(P)
    BY <1>1, <1>2, <1>6
  <2>2. Walks(P)[d] = Walk(P, d)
    BY <2>1 DEF Walks
  <2>3. CASE P[d].set
    BY <1>3, <2>1, <2>2, <2>3
  <2>4. CASE ~P[d].set
    <3>1. P[d].pipes = <<>>
      BY <2>1, <2>4 DEF Tree
    <3>2. Parts(P, d) \in Seq(Seq(Spots)) /\ Len(Parts(P, d)) = 0 /\ Walk(P, d) = FlattenSeq(Parts(P, d))
      BY <2>1, <3>1, WalkIs, EmptySeq
    <3>3. Parts(P, d) = <<>>
      BY <3>2, EmptySeq
    <3>4. Walk(P, d) = <<>>
      BY <3>2, <3>3 DEF FlattenSeq
    <3> QED
      BY <1>5, <1>4, <2>4, <3>4
  <2> QED
    BY <2>3, <2>4
<1> QED
  BY <1>5, <1>6 DEF d

\* Freeing a plumbing leaves the walks as they are.
LEMMA WalkSame ==
  ASSUME NEW P \in Seq(Plumbings), Tree(P), NEW Q \in Seq(Plumbings), Tree(Q), Len(Q) = Len(P),
         \A j \in 1 .. Len(P) : Q[j].pipes = P[j].pipes /\ Q[j].set = P[j].set
  PROVE  \A i \in 1 .. Len(P) : Walk(Q, i) = Walk(P, i) /\ Parts(Q, i) = Parts(P, i)
<1> DEFINE n == Len(P)
           T == {j \in 1 .. n : Walk(Q, j) # Walk(P, j)}
<1>0. n \in Nat
  OBVIOUS
<1>1. ASSUME NEW i \in 1 .. n, \A j \in i + 1 .. n : Walk(Q, j) = Walk(P, j)
      PROVE  Parts(Q, i) = Parts(P, i) /\ Walk(Q, i) = Walk(P, i)
  <2>1. \A j \in i + 1 .. n : Walks(Q)[j] = Walks(P)[j]
    <3>1. \A j \in i + 1 .. n : j \in 1 .. n
      BY <1>0
    <3> QED
      BY <1>1, <3>1 DEF Walks
  <2>2. Parts(Q, i) = Parts(P, i)
    BY <2>1, PartsSame DEF Parts
  <2>3. Walk(Q, i) = FlattenSeq(Parts(Q, i)) /\ Walk(P, i) = FlattenSeq(Parts(P, i))
    BY WalkIs
  <2> QED
    BY <2>2, <2>3
<1>2. T = {}
  <2> SUFFICES ASSUME T # {} PROVE FALSE
    OBVIOUS
  <2>1. T \subseteq 1 .. n /\ T # {}
    OBVIOUS
  <2>2. \E j \in T : j \in 1 .. n /\ \A y \in j + 1 .. n : y \notin T
    <3> HIDE DEF n, T
    <3> QED
      BY ONLY <1>0, <2>1, Greatest
  <2>3. PICK j \in T : j \in 1 .. n /\ \A y \in j + 1 .. n : y \notin T
    BY ONLY <2>2
  <2>4. \A y \in j + 1 .. n : y \in 1 .. n
    <3> HIDE DEF n, T
    <3> QED
      BY ONLY <1>0, <2>3
  <2>5. Walk(Q, j) = Walk(P, j)
    BY <1>1, <2>3, <2>4
  <2> QED
    BY <2>3, <2>5
<1>3. \A i \in 1 .. n : \A j \in i + 1 .. n : j \in 1 .. n
  BY <1>0
<1> QED
  BY <1>1, <1>2, <1>3

\* What a pass visits at the first n pipes of the plumbing i.
Upto(P, i, n) == FlattenSeq(SubSeq(Parts(P, i), 1, n))

\* To put one more at the end of the second is to put it at the end of both.
LEMMA AppendConcat ==
  ASSUME NEW S, NEW s \in Seq(S), NEW t \in Seq(S), NEW x \in S
  PROVE  s \o Append(t, x) = Append(s \o t, x)
<1>1. <<x>> \in Seq(S) /\ s \o t \in Seq(S)
  <2>1. <<x>> \in Seq(S)
    OBVIOUS
  <2> QED
    BY ONLY <2>1, s \in Seq(S), t \in Seq(S), ConcatProperties
<1>2. Append(t, x) = t \o <<x>> /\ Append(s \o t, x) = (s \o t) \o <<x>>
  BY <1>1, AppendIsConcat
<1>3. (s \o t) \o <<x>> = s \o (t \o <<x>>)
  BY <1>1, ConcatAssociative
<1> QED
  BY <1>2, <1>3

\* Nor is it other than to put one there first, before the second.
LEMMA AppendFirst ==
  ASSUME NEW S, NEW s \in Seq(S), NEW t \in Seq(S), NEW x \in S
  PROVE  s \o (<<x>> \o t) = Append(s, x) \o t
<1>1. <<x>> \in Seq(S)
  OBVIOUS
<1>2. Append(s, x) = s \o <<x>>
  BY AppendIsConcat
<1>3. (s \o <<x>>) \o t = s \o (<<x>> \o t)
  BY <1>1, ConcatAssociative
<1> QED
  BY <1>2, <1>3

\* Nothing at first, in the end the walk, and between them pipe by pipe.
LEMMA UptoIs ==
  ASSUME NEW P \in Seq(Plumbings), Tree(P), NEW i \in 1 .. Len(P)
  PROVE  /\ Upto(P, i, 0) = <<>> /\ Upto(P, i, Len(P[i].pipes)) = Walk(P, i)
         /\ \A n \in 1 .. Len(P[i].pipes) :
              LET d == P[i].pipes[n].d IN
              /\ Upto(P, i, n - 1) \in Seq(Spots)
              /\ d = 0 \/ ~P[d].set => Upto(P, i, n) = Append(Upto(P, i, n - 1), <<i, n>>)
              /\ d # 0 => Upto(P, i, n) = Append(Upto(P, i, n - 1), <<i, n>>) \o Walk(P, d)
<1> DEFINE r == Parts(P, i)
           l == Len(P[i].pipes)
<1>1. P[i] \in Plumbings /\ Len(P) \in Nat
  BY ElementOfSeq
<1>2. l \in Nat
  BY <1>1, LenProperties DEF Plumbings
<1>3. Walk(P, i) = FlattenSeq(r) /\ r \in Seq(Seq(Spots)) /\ Len(r) = l
  BY WalkIs
<1>4. Upto(P, i, 0) = <<>>
  <2>1. SubSeq(r, 1, 0) = <<>>
    BY <1>3
  <2> QED
    BY <2>1 DEF Upto, FlattenSeq
<1>5. Upto(P, i, l) = Walk(P, i)
  <2>1. SubSeq(r, 1, Len(r)) = r
    <3> HIDE DEF r
    <3> QED
      BY ONLY <1>3, SubSeqFull
  <2> QED
    BY <1>3, <2>1 DEF Upto
<1>6. ASSUME NEW n \in 1 .. l
      PROVE  LET d == P[i].pipes[n].d IN
             /\ Upto(P, i, n - 1) \in Seq(Spots)
             /\ d = 0 \/ ~P[d].set => Upto(P, i, n) = Append(Upto(P, i, n - 1), <<i, n>>)
             /\ d # 0 => Upto(P, i, n) = Append(Upto(P, i, n - 1), <<i, n>>) \o Walk(P, d)
  <2> DEFINE d == P[i].pipes[n].d
             v == Upto(P, i, n - 1)
             x == <<i, n>>
  <2>1. v \in Seq(Spots) /\ Upto(P, i, n) = v \o r[n]
    <3> HIDE DEF r
    <3>1. n \in 1 .. Len(r)
      BY <1>3
    <3>2. /\ FlattenSeq(SubSeq(r, 1, n - 1)) \in Seq(Spots)
          /\ FlattenSeq(SubSeq(r, 1, n)) = FlattenSeq(SubSeq(r, 1, n - 1)) \o r[n]
      BY ONLY <1>3, <3>1, FlattenPrefix
    <3> QED
      BY <3>2 DEF Upto, r
  <2>2. /\ d = 0 \/ ~P[d].set => r[n] = <<x>>
        /\ d # 0 => r[n] = <<x>> \o Walk(P, d)
    BY PartIs
  <2>3. x \in Spots /\ <<x>> \in Seq(Spots)
    <3>1. i \in Nat /\ n \in Nat
      BY <1>1, <1>2
    <3>2. x \in Spots
      BY <3>1 DEF Spots
    <3> HIDE DEF x
    <3> QED
      BY <3>2
  <2>4. d # 0 => Walk(P, d) \in Seq(Spots)
    <3>1. d # 0 => d \in 1 .. Len(P)
      <4>1. d \in {0} \union i + 1 .. Len(P)
        BY DEF Tree
      <4> HIDE DEF d
      <4> QED
        BY <1>1, <4>1
    <3> HIDE DEF d
    <3> QED
      BY <3>1, WalkIs
  <2> HIDE DEF d, v, x, r
  <2>5. v \o <<x>> = Append(v, x)
    BY ONLY <2>1, <2>3, AppendIsConcat
  <2>6. ASSUME d # 0 PROVE v \o (<<x>> \o Walk(P, d)) = Append(v, x) \o Walk(P, d)
    <3> DEFINE w == Walk(P, d)
    <3>1. v \in Seq(Spots) /\ w \in Seq(Spots) /\ x \in Spots
      BY ONLY <2>1, <2>3, <2>4, <2>6
    <3> HIDE DEF w
    <3>2. v \o (<<x>> \o w) = Append(v, x) \o w
      BY ONLY <3>1, AppendFirst
    <3> QED
      BY ONLY <3>2 DEF w
  <2>7. /\ v \in Seq(Spots)
        /\ d = 0 \/ ~P[d].set => Upto(P, i, n) = Append(v, x)
        /\ d # 0 => Upto(P, i, n) = Append(v, x) \o Walk(P, d)
    BY ONLY <2>1, <2>2, <2>5, <2>6
  <2> QED
    BY ONLY <2>7 DEF d, v, x
<1> QED
  BY ONLY <1>4, <1>5, <1>6 DEF l

\* What had been visited when each call of a pass began.
Began(P, fs, H) ==
  /\ H[1] = <<>>
  /\ \A k \in 1 .. Len(fs) : H[k] \in Seq(Spots)
  /\ \A k \in 2 .. Len(fs) :
       H[k] = Append(H[k - 1] \o Upto(P, fs[k - 1].on, fs[k - 1].n - 1), fs[k - 1].pipe)

\* The calls of a pass have come this far, and together through the pipes in
\* their order.
InStep ==
  /\ host \in Modes =>
       \E H : /\ Began(plumbings, frames, H)
              /\ visited = H[Len(frames)] \o Upto(plumbings, Top.on, Top.n - 1)
  /\ host \in {"idle", "cleaned"} => visited = Walk(plumbings, Main)

\* And a parse is not a pass.
Doing ==
  /\ host = "parse" => \A k \in 1 .. Len(frames) : frames[k].do = "parse"
  /\ host = "crashed" => PassCalls(frames, plumbings)

\* A pass that has begun has visited nothing.
LEMMA EnterOrder ==
  ASSUME NestedInv, NestedInv', NEW m \in {PLUMBER_INIT, PLUMBER_COMPUTE, PLUMBER_DESTROY}, Enter(m)
  PROVE  InStep'
<1> DEFINE x == [Pass("host", Main) EXCEPT !.next = next]
<1>1. frames' = <<x>> /\ host' = m /\ visited' = <<>> /\ plumbings' = plumbings
  BY DEF Enter
<1>2. m \notin {"idle", "cleaned"}
  BY DEF PLUMBER_INIT, PLUMBER_COMPUTE, PLUMBER_DESTROY
<1>3. x.on = Main /\ x.n = 1
  BY DEF Pass, NoCall
<1> HIDE DEF x
<1>4. Len(frames') = 1 /\ frames'[1] = x /\ Top' = x
  BY <1>1 DEF Top, Last
<1>5. plumbings \in Seq(Plumbings) /\ Tree(plumbings) /\ Main \in 1 .. Len(plumbings)
  BY EmptySeq DEF NestedInv, Shape, Main
<1>6. Upto(plumbings, Main, 0) = <<>>
  BY <1>5, UptoIs
<1> DEFINE H == [k \in 1 .. 1 |-> <<>>]
<1>7. H[1] = <<>> /\ <<>> \in Seq(Spots) /\ <<>> \o <<>> = <<>>
  BY EmptySeq
<1>8. Began(plumbings', frames', H)
  <2>1. \A k \in 1 .. 1 : H[k] \in Seq(Spots)
    BY <1>7
  <2>2. 2 .. 1 = {}
    OBVIOUS
  <2> QED
    BY <1>4, <1>7, <2>1, <2>2 DEF Began
<1>9. visited' = H[Len(frames')] \o Upto(plumbings', Top'.on, Top'.n - 1)
  <2>1. Top'.on = Main /\ Top'.n - 1 = 0 /\ Len(frames') = 1
    BY <1>3, <1>4
  <2> QED
    BY <1>1, <1>6, <1>7, <2>1
<1> HIDE DEF H
<1> QED
  BY <1>1, <1>2, <1>8, <1>9 DEF InStep

\* A pass goes on to the next pipe behind the one it has come to.
LEMMA SteppedOrder ==
  ASSUME NestedInv, InStep, InPass, Stepped, Pipe.d = 0 \/ ~plumbings[Pipe.d].set
  PROVE  InStep'
<1> DEFINE n == Len(frames)
           P == plumbings
<1>1. /\ host \in Modes /\ Pipe = P[Top.on].pipes[Top.n] /\ Top.n \in 1 .. Len(P[Top.on].pipes)
  BY AtPipe
<1>2. /\ n \in Nat \ {0} /\ Top = frames[n] /\ Top.on \in 1 .. Len(P) /\ Top.pipe = <<Top.on, Top.n>>
      /\ P \in Seq(Plumbings) /\ Tree(P)
  BY <1>1, InAPass DEF NestedInv
<1>3. /\ visited' = Append(visited, Top.pipe) /\ plumbings' = P /\ host' = host
      /\ Further(Top).n = Top.n + 1 /\ Further(Top).on = Top.on
      /\ Len(frames') = n /\ Last(frames') = Further(Top)
      /\ \A i \in 1 .. n : i # n => frames'[i] = frames[i]
  BY SteppedIs
<1>4. PICK H : Began(P, frames, H) /\ visited = H[n] \o Upto(P, Top.on, Top.n - 1)
  BY <1>1 DEF InStep
<1> DEFINE v == Upto(P, Top.on, Top.n - 1)
<1>5. Upto(P, Top.on, Top.n) = Append(v, <<Top.on, Top.n>>) /\ v \in Seq(Spots)
  BY <1>1, <1>2, UptoIs
<1>6. <<Top.on, Top.n>> \in Spots
  <2> DEFINE i == Top.on
             k == Top.n
             l == Len(P)
             m == Len(P[i].pipes)
  <2>1. i \in 1 .. l /\ k \in 1 .. m
    BY ONLY <1>1, <1>2
  <2> HIDE DEF i, k, l, m
  <2>2. i \in Nat /\ k \in Nat
    BY ONLY <2>1
  <2>3. <<i, k>> \in Spots
    BY ONLY <2>2 DEF Spots
  <2> QED
    BY ONLY <2>3 DEF i, k
<1>7. H[n] \in Seq(Spots)
  BY <1>2, <1>4 DEF Began
<1>8. H[n] \o Append(v, <<Top.on, Top.n>>) = Append(H[n] \o v, <<Top.on, Top.n>>)
  <2> DEFINE h == H[n]
             x == <<Top.on, Top.n>>
  <2>1. h \in Seq(Spots) /\ v \in Seq(Spots) /\ x \in Spots
    BY <1>5, <1>6, <1>7
  <2> HIDE DEF v, h, x
  <2>2. h \o Append(v, x) = Append(h \o v, x)
    BY ONLY <2>1, AppendConcat
  <2> QED
    BY ONLY <2>2 DEF h, x
<1>9. visited' = H[n] \o Upto(P, Top.on, Top.n)
  BY <1>2, <1>3, <1>4, <1>5, <1>8
<1> HIDE DEF n, v
<1>10. Began(P, frames', H)
  <2>1. \A k \in 2 .. n : k - 1 \in 1 .. n /\ k - 1 # n
    BY <1>2
  <2>2. \A k \in 2 .. n : frames'[k - 1] = frames[k - 1]
    BY <1>3, <2>1
  <2>3. /\ H[1] = <<>> /\ \A k \in 1 .. n : H[k] \in Seq(Spots)
        /\ \A k \in 2 .. n :
             H[k] = Append(H[k - 1] \o Upto(P, frames[k - 1].on, frames[k - 1].n - 1), frames[k - 1].pipe)
    BY <1>4 DEF Began, n
  <2> QED
    BY ONLY <1>3, <2>2, <2>3 DEF Began
<1>11. Top'.on = Top.on /\ Top'.n - 1 = Top.n
  <2>1. Top' = Further(Top)
    BY <1>3 DEF Top
  <2>2. Top'.on = Top.on /\ Top'.n = Top.n + 1
    BY ONLY <1>3, <2>1
  <2>3. Top.n \in Int
    BY <1>1
  <2> QED
    BY ONLY <2>2, <2>3
<1> QED
  BY <1>1, <1>3, <1>9, <1>10, <1>11
  DEF InStep, Modes, PLUMBER_CREATE, PLUMBER_INIT, PLUMBER_COMPUTE, PLUMBER_DESTROY

\* A render begins its own pass where its pipe is.
LEMMA RenderOrder ==
  ASSUME NestedInv, InStep, StepRender
  PROVE  InStep'
<1> DEFINE n == Len(frames)
           P == plumbings
           x == [Pass("render", Pipe.d) EXCEPT !.next = Following]
<1>1. /\ InPass /\ Pipe.d \in 1 .. Len(P) /\ visited' = Append(visited, Top.pipe)
      /\ plumbings' = P /\ host' = host /\ x.on = Pipe.d /\ x.n = 1
      /\ Len(frames') = n + 1 /\ Last(frames') = x
      /\ \A i \in 1 .. n : frames'[i] = frames[i]
  BY RenderIs
<1>2. host \in Modes /\ Top.n \in 1 .. Len(P[Top.on].pipes)
  BY <1>1, AtPipe
<1>3. /\ n \in Nat \ {0} /\ Top = frames[n] /\ Top.on \in 1 .. Len(P) /\ Top.pipe = <<Top.on, Top.n>>
      /\ P \in Seq(Plumbings) /\ Tree(P)
  BY <1>2, InAPass DEF NestedInv
<1>4. PICK H : Began(P, frames, H) /\ visited = H[n] \o Upto(P, Top.on, Top.n - 1)
  BY <1>2 DEF InStep
<1> HIDE DEF n, x
<1>5. Upto(P, Pipe.d, 0) = <<>>
  BY <1>1, <1>3, UptoIs
<1>6. visited' \in Seq(Spots)
  <2>1. visited \in Seq(Spots)
    BY DEF NestedInv, Shape
  <2>2. Top.pipe \in Spots
    BY <1>2, <1>3 DEF Spots
  <2> QED
    BY ONLY <1>1, <2>1, <2>2, AppendProperties
<1> DEFINE G == [k \in 1 .. n + 1 |-> IF k = n + 1 THEN visited' ELSE H[k]]
<1>7. G[n + 1] = visited' /\ \A k \in 1 .. n : G[k] = H[k]
  BY <1>3
<1> HIDE DEF G
<1>8. Began(P, frames', G)
  <2>1. /\ H[1] = <<>> /\ \A k \in 1 .. n : H[k] \in Seq(Spots)
        /\ \A k \in 2 .. n :
             H[k] = Append(H[k - 1] \o Upto(P, frames[k - 1].on, frames[k - 1].n - 1), frames[k - 1].pipe)
    BY <1>4 DEF Began, n
  <2>2. G[1] = <<>>
    BY <1>3, <1>7, <2>1
  <2>3. ASSUME NEW k \in 1 .. n + 1 PROVE G[k] \in Seq(Spots)
    <3>1. k = n + 1 \/ k \in 1 .. n
      BY <1>3
    <3> QED
      BY <1>6, <1>7, <2>1, <3>1
  <2>4. ASSUME NEW k \in 2 .. n + 1
        PROVE  G[k] = Append(G[k - 1] \o Upto(P, frames'[k - 1].on, frames'[k - 1].n - 1), frames'[k - 1].pipe)
    <3>1. k - 1 \in 1 .. n /\ (k = n + 1 \/ k \in 2 .. n)
      BY <1>3
    <3>2. G[k - 1] = H[k - 1] /\ frames'[k - 1] = frames[k - 1]
      BY <1>1, <1>7, <3>1
    <3>3. CASE k = n + 1
      <4>1. k - 1 = n
        BY <1>3, <3>3
      <4> QED
        BY <1>1, <1>3, <1>4, <1>7, <3>2, <3>3, <4>1
    <3>4. CASE k \in 2 .. n
      <4>1. G[k] = H[k]
        BY <1>7, <3>4
      <4> QED
        BY <2>1, <3>2, <3>4, <4>1
    <3> QED
      BY <3>1, <3>3, <3>4
  <2> QED
    BY ONLY <1>1, <2>2, <2>3, <2>4 DEF Began
<1>9. visited' = G[Len(frames')] \o Upto(plumbings', Top'.on, Top'.n - 1)
  <2>1. Top'.on = Pipe.d /\ Top'.n - 1 = 0
    BY <1>1 DEF Top
  <2>2. visited' \o <<>> = visited'
    BY <1>6, ConcatEmptySeq
  <2> QED
    BY <1>1, <1>5, <1>7, <2>1, <2>2
<1> QED
  BY <1>1, <1>2, <1>8, <1>9
  DEF InStep, Modes, PLUMBER_CREATE, PLUMBER_INIT, PLUMBER_COMPUTE, PLUMBER_DESTROY

\* What a pass visits at a render is all that its plumbing has.
LEMMA RenderedOrder ==
  ASSUME NestedInv, NestedInv', InStep, Rendered
  PROVE  InStep'
<1> DEFINE n == Len(frames)
           P == plumbings
           Q == plumbings'
           f == frames[n - 1]
<1>1. host \in Modes /\ ~(Top.n <= Len(P[Top.on].pipes)) /\ Top.by = "render"
  BY DEF Rendered, Passing, InPass
<1>2. /\ n # 1 /\ n - 1 \in 1 .. n /\ n - 1 \in Nat \ {0} /\ PassCall(frames, P, n - 1)
      /\ f.on \in 1 .. Len(P) /\ f.n \in Nat \ {0} /\ f.n <= Len(P[f.on].pipes)
      /\ Len(P[f.on].pipes) \in Nat /\ P[f.on].pipes[f.n].d = Top.on
      /\ Further(f).n = f.n + 1 /\ Further(f).on = f.on
      /\ host' = host /\ visited' = visited
      /\ Len(frames') = n - 1 /\ Last(frames') = Further(f)
      /\ \A i \in 1 .. n - 1 : i # n - 1 => frames'[i] = frames[i]
      /\ Q \in Seq(Plumbings) /\ Len(Q) = Len(P)
      /\ \A i \in 1 .. Len(P) : Q[i].pipes = P[i].pipes /\ Q[i].set = P[i].set
  BY RenderedIs
<1>3. /\ n \in Nat \ {0} /\ Top = frames[n] /\ Top.on \in 1 .. Len(P) /\ Top.n \in Nat \ {0}
      /\ Top.n <= Len(P[Top.on].pipes) + 1 /\ P \in Seq(Plumbings) /\ Tree(P) /\ Tree(Q)
      /\ \A k \in 1 .. n : PassCall(frames, P, k)
  BY <1>1, InAPass DEF NestedInv
<1>4. PICK H : Began(P, frames, H) /\ visited = H[n] \o Upto(P, Top.on, Top.n - 1)
  BY <1>1 DEF InStep
<1>5. \A i \in 1 .. Len(P) : \A k : Upto(Q, i, k) = Upto(P, i, k)
  <2>1. \A i \in 1 .. Len(P) : Parts(Q, i) = Parts(P, i)
    BY <1>2, <1>3, WalkSame
  <2> QED
    BY <2>1 DEF Upto
<1>6. Top.n - 1 = Len(P[Top.on].pipes)
  <2>1. P[Top.on] \in Plumbings
    BY <1>3, ElementOfSeq
  <2>2. Len(P[Top.on].pipes) \in Nat
    BY <2>1, LenProperties DEF Plumbings
  <2> DEFINE l == Len(P[Top.on].pipes)
             m == Top.n
  <2>3. l \in Nat /\ m \in Nat \ {0} /\ m <= l + 1 /\ ~(m <= l)
    BY ONLY <1>1, <1>3, <2>2
  <2> HIDE DEF l, m
  <2>4. m - 1 = l
    BY ONLY <2>3
  <2> QED
    BY ONLY <2>4 DEF l, m
<1>7. Upto(P, Top.on, Top.n - 1) = Walk(P, Top.on) /\ Walk(P, Top.on) \in Seq(Spots)
  BY <1>3, <1>6, UptoIs, WalkIs
<1> DEFINE h == H[n - 1]
           v == Upto(P, f.on, f.n - 1)
           w == Walk(P, Top.on)
           x == <<f.on, f.n>>
<1>8. f.pipe = x /\ x \in Spots
  <2>1. f.pipe = x
    BY <1>2 DEF PassCall
  <2>2. f.on \in Nat /\ f.n \in Nat
    BY <1>2
  <2> QED
    BY <2>1, <2>2 DEF Spots
<1>9. H[n] = Append(h \o v, x) /\ h \in Seq(Spots)
  <2>1. n \in 2 .. n
    BY <1>2, <1>3
  <2>2. n \in 2 .. Len(frames) /\ n - 1 \in 1 .. Len(frames)
    BY <1>2, <2>1
  <2>3. H[n] = Append(h \o v, f.pipe) /\ h \in Seq(Spots)
    BY <1>4, <2>2 DEF Began
  <2> QED
    BY <1>8, <2>3
<1>10. Upto(P, f.on, f.n) = Append(v, x) \o w /\ v \in Seq(Spots)
  <2> DEFINE i == f.on
             k == f.n
             d == Top.on
  <2>1. /\ i \in 1 .. Len(P) /\ k \in Nat \ {0} /\ k <= Len(P[i].pipes) /\ Len(P[i].pipes) \in Nat
        /\ P[i].pipes[k].d = d /\ d \in 1 .. Len(P)
    BY <1>2, <1>3
  <2>2. P \in Seq(Plumbings) /\ Tree(P)
    BY <1>3
  <2> HIDE DEF i, k, d
  <2>3. k \in 1 .. Len(P[i].pipes) /\ P[i].pipes[k].d # 0
    BY ONLY <2>1
  <2>4. /\ Upto(P, i, k - 1) \in Seq(Spots)
        /\ Upto(P, i, k) = Append(Upto(P, i, k - 1), <<i, k>>) \o Walk(P, P[i].pipes[k].d)
    BY ONLY <2>1, <2>2, <2>3, UptoIs
  <2> QED
    BY ONLY <2>1, <2>4 DEF i, k, d
<1>11. visited = Append(h \o v, x) \o w
  BY <1>4, <1>7, <1>9
<1>12. w \in Seq(Spots)
  BY <1>7
<1>13. visited = h \o Upto(P, f.on, f.n)
  <2> HIDE DEF h, v, w, x
  <2>1. Append(h \o v, x) \o w = h \o (Append(v, x) \o w)
    <3>1. Append(v, x) \in Seq(Spots)
      BY ONLY <1>8, <1>10, AppendProperties
    <3>2. h \o Append(v, x) = Append(h \o v, x)
      BY ONLY <1>8, <1>9, <1>10, AppendConcat
    <3>3. PICK y : y = Append(v, x)
      OBVIOUS
    <3>4. y \in Seq(Spots)
      BY ONLY <3>1, <3>3
    <3>5. (h \o y) \o w = h \o (y \o w)
      <4>1. h \in Seq(Spots)
        BY ONLY <1>9
      <4> QED
        BY ONLY <1>12, <3>4, <4>1, ConcatAssociative
    <3> QED
      BY ONLY <3>2, <3>3, <3>5
  <2> QED
    BY ONLY <1>10, <1>11, <2>1
<1> HIDE DEF v, w, x
<1>14. Began(Q, frames', H)
  <2>1. /\ H[1] = <<>> /\ \A k \in 1 .. n : H[k] \in Seq(Spots)
        /\ \A k \in 2 .. n :
             H[k] = Append(H[k - 1] \o Upto(P, frames[k - 1].on, frames[k - 1].n - 1), frames[k - 1].pipe)
    BY <1>4 DEF Began
  <2> HIDE DEF n
  <2>2. \A k \in 1 .. n - 1 : k \in 1 .. n
    BY <1>3
  <2>3. ASSUME NEW k \in 2 .. n - 1
        PROVE  H[k] = Append(H[k - 1] \o Upto(Q, frames'[k - 1].on, frames'[k - 1].n - 1), frames'[k - 1].pipe)
    <3>1. k \in 2 .. n /\ k - 1 \in 1 .. n /\ k - 1 \in 1 .. n - 1 /\ k - 1 # n - 1
      BY <1>3
    <3>2. frames'[k - 1] = frames[k - 1]
      BY <1>2, <3>1
    <3>3. frames[k - 1].on \in 1 .. Len(P)
      BY <1>3, <3>1 DEF PassCall
    <3>4. \A i : Upto(Q, frames[k - 1].on, i) = Upto(P, frames[k - 1].on, i)
      BY <1>5, <3>3
    <3> QED
      BY <2>1, <3>1, <3>2, <3>4
  <2> QED
    BY ONLY <1>2, <2>1, <2>2, <2>3 DEF Began
<1>15. Top'.on = f.on /\ Top'.n - 1 = f.n
  <2>1. Top' = Further(f)
    BY <1>2 DEF Top
  <2>2. Top'.on = f.on /\ Top'.n = f.n + 1 /\ f.n \in Int
    BY <1>2, <2>1
  <2> QED
    BY ONLY <2>2
<1>16. visited' = H[Len(frames')] \o Upto(Q, Top'.on, Top'.n - 1)
  <2>1. Upto(Q, f.on, f.n) = Upto(P, f.on, f.n)
    BY <1>2, <1>5
  <2> QED
    BY ONLY <1>2, <1>13, <1>15, <2>1
<1> QED
  BY <1>1, <1>2, <1>14, <1>16
  DEF InStep, Modes, PLUMBER_CREATE, PLUMBER_INIT, PLUMBER_COMPUTE, PLUMBER_DESTROY

\* When the pass of the host is over it has visited all there is.
LEMMA OverOrder ==
  ASSUME NestedInv, InStep, Passing, ~InPass, Top.by = "host"
  PROVE  visited = Walk(plumbings, Main)
<1> DEFINE P == plumbings
<1>1. /\ host \in Modes /\ Len(frames) = 1 /\ Top.on = Main
      /\ ~(Top.n <= Len(P[Main].pipes)) /\ Top.n \in Nat
      /\ Len(P) \in Nat \ {0} /\ P \in Seq(Plumbings)
  BY EndIs
<1>2. Top.n <= Len(P[Main].pipes) + 1 /\ Tree(P)
  BY <1>1, InAPass DEF NestedInv
<1>3. Main \in 1 .. Len(P)
  BY <1>1 DEF Main
<1>4. Top.n - 1 = Len(P[Main].pipes)
  <2>1. P[Main] \in Plumbings
    BY <1>1, <1>3, ElementOfSeq
  <2>2. Len(P[Main].pipes) \in Nat
    BY <2>1, LenProperties DEF Plumbings
  <2> QED
    BY <1>1, <1>2, <2>2
<1>5. PICK H : Began(P, frames, H) /\ visited = H[Len(frames)] \o Upto(P, Top.on, Top.n - 1)
  BY <1>1 DEF InStep
<1>6. H[1] = <<>>
  BY <1>5 DEF Began
<1>7. Upto(P, Main, Len(P[Main].pipes)) = Walk(P, Main) /\ Walk(P, Main) \in Seq(Spots)
  BY <1>1, <1>2, <1>3, UptoIs, WalkIs
<1>8. <<>> \o Walk(P, Main) = Walk(P, Main)
  BY <1>7, ConcatEmptySeq
<1> QED
  BY <1>1, <1>4, <1>5, <1>6, <1>7, <1>8

\* A token is read in a parse, and calls at most another parse.
LEMMA ParseDoing ==
  ASSUME NestedInv, Doing, Parse
  PROVE  Doing' /\ host' = "parse"
<1>1. host = "parse" /\ frames # <<>> /\ host' = host
  BY DEF Parse, LexValue, Lex, LexRefused, NotNested, Refused, sporth_eval, sporth_load,
         sporth_render, Return, Word, Parsing
<1>2. frames \in Seq(Frames)
  BY DEF NestedInv, Shape
<1>3. \A k \in 1 .. Len(frames) : frames[k].do = "parse"
  BY <1>1 DEF Doing
<1>4. CASE Return
  <2>1. frames' = Front(frames)
    BY <1>4 DEF Return
  <2>2. /\ Len(frames') = Len(frames) - 1 /\ Len(frames) \in Nat \ {0}
        /\ \A k \in 1 .. Len(frames) - 1 : frames'[k] = frames[k]
    BY ONLY <1>1, <1>2, <2>1, Popping
  <2>3. \A k \in 1 .. Len(frames) - 1 : k \in 1 .. Len(frames)
    BY <2>2
  <2> QED
    BY <1>1, <1>3, <2>2, <2>3 DEF Doing
<1>5. CASE ~Return
  <2>1. /\ Top.todo # <<>>
        /\ frames' \in {frames, Taken} \/ \E x : x.do = "parse" /\ frames' = Append(Taken, x)
    <3>1. CASE sporth_eval \/ sporth_load \/ sporth_render
      BY <3>1 DEF sporth_eval, sporth_load, sporth_render, Word, Parsing, NoCall
    <3>2. CASE LexValue \/ NotNested \/ \E u \in DOMAIN Sig : Lex(u) \/ LexRefused(u)
      BY <3>2 DEF LexValue, NotNested, Lex, LexRefused, Refused, Word, Parsing
    <3> QED
      BY <1>5, <3>1, <3>2 DEF Parse
  <2>2. Alike(frames, Taken)
    BY <1>1, <1>2, <2>1, TakenAlike
  <2>3. /\ Taken \in Seq(Frames) /\ Len(Taken) = Len(frames)
        /\ \A k \in 1 .. Len(Taken) : Taken[k].do = "parse"
    BY <1>3, <2>2 DEF Alike
  <2>4. CASE frames' \in {frames, Taken}
    BY <1>1, <1>3, <2>3, <2>4 DEF Doing
  <2>5. ASSUME NEW x, x.do = "parse", frames' = Append(Taken, x) PROVE Doing'
    <3> DEFINE S == Frames \union {x}
               t == Taken
    <3>1. t \in Seq(S) /\ x \in S /\ Len(t) \in Nat
      BY <2>3
    <3> HIDE DEF S, t
    <3>2. /\ Len(Append(t, x)) = Len(t) + 1 /\ Append(t, x)[Len(t) + 1] = x
          /\ \A k \in 1 .. Len(t) : Append(t, x)[k] = t[k]
      BY ONLY <3>1, AppendProperties
    <3>3. \A k \in 1 .. Len(t) + 1 : k \in 1 .. Len(t) \/ k = Len(t) + 1
      BY ONLY <3>1
    <3>4. \A k \in 1 .. Len(t) : t[k].do = "parse"
      BY <2>3 DEF t
    <3>5. \A k \in 1 .. Len(Append(t, x)) : Append(t, x)[k].do = "parse"
      BY ONLY <2>5, <3>2, <3>3, <3>4
    <3>6. frames' = Append(t, x)
      BY <2>5 DEF t
    <3> QED
      BY <1>1, <3>5, <3>6 DEF Doing
  <2> QED
    BY <1>1, <2>1, <2>4, <2>5
<1> QED
  BY <1>1, <1>4, <1>5

\* Before the first token no pass has begun.
LEMMA OrderFirst == ASSUME Init PROVE Doing /\ InStep
<1>1. host = "parse" /\ frames = <<[NoCall EXCEPT !.todo = program, !.own = fp]>>
  BY DEF Init
<1> DEFINE x == [NoCall EXCEPT !.todo = program, !.own = fp]
<1>2. x.do = "parse"
  BY DEF NoCall
<1> HIDE DEF x
<1>3. Len(frames) = 1 /\ frames[1].do = "parse"
  BY <1>1, <1>2 DEF x
<1>4. \A k \in 1 .. Len(frames) : frames[k].do = "parse"
  BY ONLY <1>3
<1> QED
  BY <1>1, <1>4
  DEF Doing, InStep, Modes, PLUMBER_CREATE, PLUMBER_INIT, PLUMBER_COMPUTE, PLUMBER_DESTROY

\* Every step keeps the order.
LEMMA OrderKept ==
  ASSUME NestedInv, NestedInv', Doing, InStep, [Next]_vars
  PROVE  Doing' /\ InStep'
<1> USE DEF Modes, PLUMBER_CREATE, PLUMBER_INIT, PLUMBER_COMPUTE, PLUMBER_DESTROY
<1>1. CASE Parse
  <2>1. Doing' /\ host' = "parse"
    BY <1>1, ParseDoing
  <2> QED
    BY <2>1 DEF InStep
<1>2. CASE StepValue \/ StepUgen \/ StepInline
  <2>1. InPass /\ Stepped /\ Pipe.d = 0
    BY <1>2, PlainIs
  <2>2. InStep' /\ host' \in Modes
    BY <2>1, SteppedOrder DEF Stepped, InPass, Passing
  <2> QED
    BY <2>2 DEF Doing
<1>3. CASE StepRender
  <2>1. host' \in Modes
    BY <1>3 DEF StepRender, AtRender, InPass, Passing
  <2> QED
    BY <1>3, <2>1, RenderOrder DEF Doing
<1>4. CASE StepUnset
  <2>1. InPass /\ ~plumbings[Pipe.d].set /\ host \in Modes
    BY <1>4 DEF StepUnset, AtRender, InPass, Passing
  <2>2. CASE Stepped
    <3>1. InStep' /\ host' \in Modes
      BY <2>1, <2>2, SteppedOrder DEF Stepped
    <3> QED
      BY <3>1 DEF Doing
  <2>3. CASE host' = "crashed" /\ UNCHANGED <<plumbings, frames>>
    <3>1. PassCalls(frames, plumbings)
      BY <2>1, InAPass DEF PassCalls
    <3> QED
      BY <2>3, <3>1 DEF Doing, InStep
  <2> QED
    BY <1>4, <2>2, <2>3 DEF StepUnset
<1>5. CASE Rendered
  <2>1. host' \in Modes
    BY <1>5 DEF Rendered, Passing
  <2> QED
    BY <1>5, <2>1, RenderedOrder DEF Doing
<1>6. CASE Start \/ Sample \/ plumber_clean
  <2>1. PICK m \in {PLUMBER_INIT, PLUMBER_COMPUTE, PLUMBER_DESTROY} : Enter(m)
    BY <1>6 DEF Start, Sample, plumber_clean
  <2>2. InStep' /\ host' = m
    BY <2>1, EnterOrder DEF Enter
  <2> QED
    BY <2>2 DEF Doing
<1>7. CASE Started \/ Sampled
  <2>1. PICK m : Over(m) /\ host' = "idle" /\ UNCHANGED <<plumbings, visited>>
    BY <1>7 DEF Started, Sampled
  <2>2. visited = Walk(plumbings, Main)
    BY <2>1, OverOrder DEF Over
  <2> QED
    BY <2>1, <2>2 DEF Doing, InStep
<1>8. CASE Cleaned
  <2> DEFINE P == plumbings
             Q == [plumbings EXCEPT ![Main].freed = TRUE]
  <2>1. Over(PLUMBER_DESTROY) /\ host' = "cleaned" /\ visited' = visited /\ plumbings' = Q
    BY <1>8 DEF Cleaned
  <2>2. visited = Walk(P, Main)
    BY <2>1, OverOrder DEF Over
  <2>3. P \in Seq(Plumbings) /\ Len(P) \in Nat \ {0} /\ Tree(P) /\ Main \in 1 .. Len(P)
    BY <2>1, OverIs DEF NestedInv, Main
  <2>4. /\ Q \in Seq(Plumbings) /\ Len(Q) = Len(P)
        /\ \A i \in 1 .. Len(P) :
             /\ Q[i].pipes = P[i].pipes /\ Q[i].set = P[i].set
             /\ Q[i].freed = IF i = Main THEN TRUE ELSE P[i].freed
    BY ONLY <2>3, PlumbingFreed
  <2>5. Tree(Q)
    BY <2>1 DEF NestedInv
  <2> HIDE DEF Q
  <2>6. Walk(Q, Main) = Walk(P, Main)
    BY <2>3, <2>4, <2>5, WalkSame
  <2> QED
    BY <2>1, <2>2, <2>6 DEF Doing, InStep
<1>9. CASE UNCHANGED vars
  BY <1>9 DEF vars, fields, Doing, InStep, Top
<1> QED
  BY <1>1, <1>2, <1>3, <1>4, <1>5, <1>6, <1>7, <1>8, <1>9 DEF Next, Step

\* What the order means for a run.
LEMMA OrderFollows == ASSUME NestedInv, Doing, InStep PROVE InOrder
<1>1. /\ frames \in Seq(Frames)
      /\ host \in (Modes \ {PLUMBER_CREATE}) \union {"parse", "idle", "cleaned", "crashed"}
  BY DEF NestedInv, Shape
<1>2. DOMAIN frames = 1 .. Len(frames)
  BY <1>1
<1>3. ASSUME NEW i \in 1 .. Len(frames), frames[i].do = "pass"
      PROVE  frames[i].pipe = <<frames[i].on, frames[i].n>>
  <2>1. host # "parse"
    BY <1>3 DEF Doing
  <2>2. host \in {"idle", "cleaned"} => frames = <<>>
    BY DEF NestedInv, Calls
  <2>3. host \notin {"idle", "cleaned"}
    <3>1. Len(frames) # 0
      BY <1>1, <1>3
    <3> QED
      BY <2>2, <3>1, EmptySeq
  <2>4. PassCalls(frames, plumbings)
    BY <1>1, <2>1, <2>3 DEF Doing, NestedInv, Calls
  <2> QED
    BY <2>4 DEF PassCalls, PassCall
<1> QED
  BY <1>2, <1>3 DEF InOrder, InStep

\* Every pass comes to all pipes, those of the renders among them, once and
\* in the order of the program, though one plumb->next leads all passes
\* (plumber.c:75-110, render.c:61-77).
THEOREM InOrderHolds == Spec => []InOrder
<1>1. Init => Doing /\ InStep
  BY OrderFirst
<1>2. NestedInv /\ NestedInv' /\ Doing /\ InStep /\ [Next]_vars => Doing' /\ InStep'
  BY OrderKept
<1>3. NestedInv /\ Doing /\ InStep => InOrder
  BY OrderFollows
<1>4. Spec => []NestedInv
  BY NestedInvariant
<1> QED
  BY <1>1, <1>2, <1>3, <1>4, PTL DEF Spec
---------------------------------------------------------------------------
(* A sample does what the parse did.                                       *)

\* What the pipe x does to the stack in a mode; the words that parse a
\* program pop its name.
Effect(m, u) ==
  IF m = PLUMBER_CREATE THEN Sig[u].create
  ELSE IF m = PLUMBER_INIT THEN Sig[u].init ELSE Sig[u].compute

Does(m, x, st) ==
  IF x.type # "ugen" THEN IF m # PLUMBER_COMPUTE \/ x.type = "float" THEN Push(st, x.ud) ELSE st
  ELSE IF x.ud \in DOMAIN Sig THEN Apply(Effect(m, x.ud), st)
  ELSE IF m # PLUMBER_COMPUTE THEN Pop(st, "s") ELSE st

IsSpot(P, s) == s[1] \in 1 .. Len(P) /\ s[2] \in 1 .. Len(P[s[1]].pipes)
PipeAt(P, s) == P[s[1]].pipes[s[2]]

\* The stack from pipe to pipe, where w is visited in a mode and a was there
\* at first.
Ran(m, P, w, a, T) ==
  /\ T \in [0 .. Len(w) -> Stacks] /\ T[0] = a
  /\ \A k \in 1 .. Len(w) : IsSpot(P, w[k]) /\ T[k] = Does(m, PipeAt(P, w[k]), T[k - 1])

Leads(m, P, w, a, b) == \E T : Ran(m, P, w, a, T) /\ T[Len(w)] = b

\* Nothing that P has is another pipe in Q.
Extends(P, Q) == \A s : IsSpot(P, s) => IsSpot(Q, s) /\ PipeAt(Q, s) = PipeAt(P, s)

\* A walk that goes nowhere leaves the stack as it is.
LEMMA LeadsNowhere ==
  ASSUME NEW m, NEW P, NEW a \in Stacks
  PROVE  Leads(m, P, <<>>, a, a)
<1> DEFINE T == [k \in 0 .. 0 |-> a]
<1>1. T \in [0 .. 0 -> Stacks] /\ T[0] = a /\ Len(<<>>) = 0 /\ 1 .. 0 = {}
  OBVIOUS
<1> HIDE DEF T
<1>2. Ran(m, P, <<>>, a, T)
  BY ONLY <1>1 DEF Ran
<1> QED
  BY ONLY <1>1, <1>2 DEF Leads

\* One pipe more, which P need not have had.
LEMMA LeadsOn ==
  ASSUME NEW m, NEW P, NEW Q, NEW w \in Seq(Spots), NEW a, NEW b, NEW c \in Stacks, NEW s \in Spots,
         Leads(m, P, w, a, b), Extends(P, Q), IsSpot(Q, s), c = Does(m, PipeAt(Q, s), b)
  PROVE  Leads(m, Q, Append(w, s), a, c)
<1> DEFINE n == Len(w)
           v == Append(w, s)
<1>1. n \in Nat /\ Len(v) = n + 1 /\ v[n + 1] = s /\ \A k \in 1 .. n : v[k] = w[k]
  BY AppendProperties
<1>2. PICK T : Ran(m, P, w, a, T) /\ T[n] = b
  BY DEF Leads
<1>3. /\ T \in [0 .. n -> Stacks] /\ T[0] = a
      /\ \A k \in 1 .. n : IsSpot(P, w[k]) /\ T[k] = Does(m, PipeAt(P, w[k]), T[k - 1])
  BY <1>2 DEF Ran
<1> HIDE DEF n, v
<1> DEFINE U == [k \in 0 .. n + 1 |-> IF k = n + 1 THEN c ELSE T[k]]
<1>4. /\ U[n + 1] = c /\ \A k \in 0 .. n : U[k] = T[k]
  BY <1>1
<1>5. U \in [0 .. n + 1 -> Stacks]
  <2>1. ASSUME NEW k \in 0 .. n + 1 PROVE (IF k = n + 1 THEN c ELSE T[k]) \in Stacks
    <3>1. k = n + 1 \/ k \in 0 .. n
      BY <1>1
    <3> QED
      BY <1>3, <3>1
  <2> QED
    BY <2>1
<1> HIDE DEF U
<1>6. 0 \in 0 .. n /\ \A k \in 1 .. n : k \in 0 .. n /\ k - 1 \in 0 .. n
  BY <1>1
<1>7. ASSUME NEW k \in 1 .. n + 1
      PROVE  IsSpot(Q, v[k]) /\ U[k] = Does(m, PipeAt(Q, v[k]), U[k - 1])
  <2>1. k = n + 1 \/ k \in 1 .. n
    BY <1>1
  <2>2. CASE k = n + 1
    <3>1. k - 1 = n /\ n \in 0 .. n
      BY <1>1, <2>2
    <3>2. U[k - 1] = b
      BY <1>2, <1>4, <3>1
    <3> QED
      BY <1>1, <1>4, <2>2, <3>2
  <2>3. CASE k \in 1 .. n
    <3>1. IsSpot(P, w[k]) /\ T[k] = Does(m, PipeAt(P, w[k]), T[k - 1])
      BY <1>3, <2>3
    <3>2. IsSpot(Q, w[k]) /\ PipeAt(Q, w[k]) = PipeAt(P, w[k])
      BY <3>1 DEF Extends
    <3>3. v[k] = w[k] /\ U[k] = T[k] /\ U[k - 1] = T[k - 1]
      BY <1>1, <1>4, <1>6, <2>3
    <3> QED
      BY ONLY <3>1, <3>2, <3>3
  <2> QED
    BY <2>1, <2>2, <2>3
<1>8. Ran(m, Q, v, a, U)
  <2>1. U[0] = a
    BY <1>3, <1>4, <1>6
  <2> QED
    BY ONLY <1>1, <1>5, <1>7, <2>1 DEF Ran
<1>9. U[Len(v)] = c
  BY ONLY <1>1, <1>4
<1> QED
  BY ONLY <1>8, <1>9 DEF Leads, v

\* Once the error is set nothing takes it away.
LEMMA ErrorStays ==
  ASSUME NEW m, NEW x, NEW st, st.error
  PROVE  Does(m, x, st) = st
  BY DEF Does, Push, Pop, Apply, PushAll, PopAll

\* So where it is not set in the end it never was.
LEMMA NeverRaised ==
  ASSUME NEW m, NEW P, NEW w \in Seq(Spots), NEW a, NEW T, Ran(m, P, w, a, T), ~T[Len(w)].error
  PROVE  \A k \in 0 .. Len(w) : ~T[k].error
<1> DEFINE n == Len(w)
           E == {j \in Nat : j <= n /\ T[n - j].error}
<1>1. n \in Nat
  OBVIOUS
<1>2. \A k \in 1 .. n : T[k] = Does(m, PipeAt(P, w[k]), T[k - 1])
  BY DEF Ran
<1>3. ~T[n].error
  OBVIOUS
<1> HIDE DEF n
<1>4. E = {}
  <2> SUFFICES ASSUME E # {} PROVE FALSE
    OBVIOUS
  <2>1. E \subseteq Nat
    OBVIOUS
  <2>2. PICK j \in E : \A i \in E : j <= i
    <3> HIDE DEF E
    <3> QED
      BY ONLY <2>1, E # {}, Least
  <2>3. j \in Nat /\ j <= n /\ T[n - j].error
    BY <2>2
  <2>4. j # 0
    BY <1>1, <1>3, <2>3
  <2>5. n - (j - 1) = n - j + 1 /\ j - 1 \in Nat /\ j - 1 < j
    BY <1>1, <2>3, <2>4
  <2>6. T[n - j + 1] = Does(m, PipeAt(P, w[n - j + 1]), T[n - j])
    <3>1. \E i \in 1 .. n : i = n - j + 1 /\ i - 1 = n - j
      BY ONLY <1>1, <2>3, <2>4
    <3>2. PICK i \in 1 .. n : i = n - j + 1 /\ i - 1 = n - j
      BY ONLY <3>1
    <3>3. T[i] = Does(m, PipeAt(P, w[i]), T[i - 1])
      BY ONLY <1>2, <3>2
    <3> QED
      BY ONLY <3>2, <3>3
  <2>7. T[n - j + 1].error
    BY <2>3, <2>6, ErrorStays
  <2>8. j - 1 \in E
    BY <1>1, <2>3, <2>5, <2>7
  <2> QED
    BY <2>2, <2>3, <2>5, <2>8
<1>5. ASSUME NEW k \in 0 .. n, T[k].error PROVE FALSE
  <2>1. n - k \in Nat /\ n - k <= n /\ n - (n - k) = k
    BY <1>1
  <2>2. n - k \in E
    BY <1>5, <2>1
  <2> QED
    BY <1>4, <2>2
<1> QED
  BY <1>5 DEF n

\* What is known of a pipe.
LEMMA PipeIs ==
  ASSUME NEW x \in Pipes
  PROVE  /\ x.type # "ugen" => x.ud \in Values /\ (x.type = "float" <=> x.ud = FLOAT)
         /\ x.type = "ugen" => x.ud \in DOMAIN Sig \/ x.ud \in Nesting
  BY StackAssumption DEF Pipes, Values, Nesting

\* Popping a string.
LEMMA PopExact ==
  ASSUME NEW st \in Stacks, ~st.error
  PROVE  /\ ~Pop(st, "s").error <=> Fits(st.vals, <<"s">>)
         /\ ~Pop(st, "s").error => Pop(st, "s") = [vals |-> Under(st.vals, 1), error |-> FALSE]
<1>1. st.vals \in Seq(Values) /\ Len(st.vals) \in Nat /\ st = [vals |-> st.vals, error |-> FALSE]
  BY DEF Stacks
<1>2. Len(<<"s">>) = 1 /\ 1 .. 1 = {1} /\ <<"s">>[1] = "s"
  OBVIOUS
<1>3. st.vals # <<>> <=> 1 <= Len(st.vals)
  BY <1>1, EmptySeq
<1>4. Fits(st.vals, <<"s">>) <=> st.vals # <<>> /\ TypeOf(FromTop(st.vals, 1)) = "s"
  BY ONLY <1>2, <1>3 DEF Fits
<1>5. CASE Fits(st.vals, <<"s">>)
  <2>1. Pop(st, "s") = [st EXCEPT !.vals = SubSeq(@, 1, Len(@) - 1)]
    BY <1>4, <1>5 DEF Pop
  <2>2. Pop(st, "s") = [vals |-> Under(st.vals, 1), error |-> FALSE]
    BY ONLY <1>1, <2>1 DEF Under
  <2> QED
    BY <1>5, <2>2
<1>6. CASE ~Fits(st.vals, <<"s">>)
  <2>1. Pop(st, "s") = Raise(st)
    BY <1>4, <1>6 DEF Pop
  <2>2. Pop(st, "s").error
    BY ONLY <1>1, <2>1 DEF Raise
  <2> QED
    BY <1>6, <2>2
<1> QED
  BY <1>5, <1>6

\* What an even ugen does in the other modes.
LEMMA EvenEffects ==
  ASSUME NEW u \in DOMAIN Sig
  PROVE  LET c == Sig[u].create IN
         /\ c \in Effects /\ Sig[u].init \in Effects /\ Sig[u].compute \in Effects
         /\ c.pop \in Seq(Types) /\ c.push \in Seq(Values)
         /\ Sig[u].init.pop = c.pop /\ Sig[u].init.push = c.push
         /\ Sig[u].compute.pop = Repeated("f", Times("f", c.pop))
         /\ Sig[u].compute.push = Repeated(FLOAT, Times(FLOAT, c.push))
<1>1. Sig[u] \in Signatures /\ Even(Sig[u])
  BY NestedAssumption
<1>2. Sig[u].create \in Effects /\ Sig[u].init \in Effects /\ Sig[u].compute \in Effects
  BY <1>1 DEF Signatures
<1>3. Sig[u].create.pop \in Seq(Types) /\ Sig[u].create.push \in Seq(Values)
  BY <1>2 DEF Effects
<1> QED
  BY <1>1, <1>2, <1>3 DEF Even

\* INIT does on top of something else what CREATE did.
Again(x, base, st, b) ==
  Does(PLUMBER_INIT, x, [vals |-> base \o st.vals, error |-> FALSE])
    = [vals |-> base \o b.vals, error |-> FALSE]

\* On top of what the parse left a pipe does in INIT what it did in CREATE.
LEMMA InitDoes ==
  ASSUME NEW x \in Pipes, NEW st \in Stacks, NEW b, b = Does(PLUMBER_CREATE, x, st), ~b.error, ~st.error,
         NEW base \in Seq(Values), Len(base) + Len(st.vals) <= SPORTH_STACK_SIZE,
         Len(base) + Len(b.vals) <= SPORTH_STACK_SIZE
  PROVE  Again(x, base, st, b)
<1> SUFFICES Does(PLUMBER_INIT, x, [vals |-> base \o st.vals, error |-> FALSE])
               = [vals |-> base \o b.vals, error |-> FALSE]
  BY DEF Again
<1> DEFINE s == st.vals
           on == [vals |-> base \o s, error |-> FALSE]
<1>1. s \in Seq(Values) /\ Len(s) \in Nat /\ Len(base) \in Nat
  BY DEF Stacks
<1>2. base \o s \in Seq(Values) /\ Len(base \o s) = Len(base) + Len(s)
  BY <1>1, ConcatProperties
<1>3. on \in Stacks /\ ~on.error /\ on.vals = base \o s
  BY <1>2 DEF Stacks
<1>4. PLUMBER_INIT # PLUMBER_COMPUTE /\ PLUMBER_INIT # PLUMBER_CREATE /\ PLUMBER_CREATE # PLUMBER_COMPUTE
  BY DEF PLUMBER_CREATE, PLUMBER_INIT, PLUMBER_COMPUTE
<1> DEFINE v == x.ud
<1>5. CASE x.type # "ugen"
  <2>1. v \in Values /\ b = Push(st, v) /\ Does(PLUMBER_INIT, x, on) = Push(on, v)
    BY <1>4, <1>5, PipeIs DEF Does
  <2> HIDE DEF v, on
  <2>2. b = [vals |-> Append(s, v), error |-> FALSE]
    BY <2>1, PushExact
  <2>3. b.vals = Append(s, v) /\ Len(Append(s, v)) = Len(s) + 1
    BY <1>1, <2>1, <2>2, AppendProperties
  <2>4. Len(base \o s) + 1 <= SPORTH_STACK_SIZE
    BY <1>1, <1>2, <2>3, StackAssumption
  <2>5. Push(on, v) = [vals |-> Append(base \o s, v), error |-> FALSE]
    BY ONLY <1>3, <2>1, <2>4, PushExact
  <2>6. base \o Append(s, v) = Append(base \o s, v)
    <3>1. base \in Seq(Values) /\ s \in Seq(Values) /\ v \in Values
      BY <1>1, <2>1
    <3> HIDE DEF s
    <3> QED
      BY ONLY <3>1, AppendConcat
  <2> QED
    BY ONLY <2>1, <2>3, <2>5, <2>6 DEF on
<1>6. CASE x.type = "ugen" /\ v \in DOMAIN Sig
  <2> DEFINE c == Sig[v].create
             i == Sig[v].init
             m == Len(c.pop)
  <2>1. b = Apply(c, st) /\ Does(PLUMBER_INIT, x, on) = Apply(i, on)
    BY <1>4, <1>6 DEF Does, Effect
  <2>2. /\ c \in Effects /\ i \in Effects /\ i.pop = c.pop /\ i.push = c.push
        /\ c.pop \in Seq(Types) /\ c.push \in Seq(Values)
    BY <1>6, EvenEffects
  <2> DEFINE p == c.pop
             q == c.push
  <2> HIDE DEF v, on
  <2>3. ~Apply(c, st).error /\ ~st.error /\ st \in Stacks
    BY <2>1
  <2>4. /\ p \in Seq(Types) /\ q \in Seq(Values) /\ i.pop = p /\ i.push = q
        /\ m = Len(p)
    BY <2>2
  <2> HIDE DEF m, i, c
  <2>5. /\ Fits(s, p) /\ Apply(c, st).vals = Under(s, m) \o q
    <3>1. st \in Stacks /\ c \in Effects /\ ~st.error /\ ~Apply(c, st).error
      BY <2>2, <2>3
    <3> DEFINE y == Under(st.vals, Len(c.pop)) \o c.push
    <3>2. Fits(st.vals, c.pop) /\ Apply(c, st) = [vals |-> y, error |-> FALSE]
      BY ONLY <3>1, ApplyExact
    <3>3. Apply(c, st).vals = y
      <4> HIDE DEF y
      <4> QED
        BY ONLY <3>2
    <3> QED
      BY ONLY <2>4, <3>2, <3>3 DEF p, q
  <2> HIDE DEF p, q, s
  <2>6. Fits(base \o s, p) /\ Under(base \o s, m) = base \o Under(s, m)
    <3>1. base \in Seq(Values) /\ s \in Seq(Values) /\ p \in Seq(Types) /\ Fits(s, p)
      BY <1>1, <2>4, <2>5
    <3> QED
      BY ONLY <2>4, <3>1, FitsOver
  <2>7. m \in Nat /\ m <= Len(s) /\ Len(q) \in Nat
    BY <2>4, <2>5 DEF Fits
  <2>8. Under(s, m) \in Seq(Values) /\ Len(Under(s, m)) = Len(s) - m
    BY ONLY <1>1, <2>7, UnderType
  <2>9. Len(Under(s, m) \o q) = Len(s) - m + Len(q)
    <3>1. Under(s, m) \in Seq(Values) /\ q \in Seq(Values)
      BY ONLY <2>4, <2>8
    <3>2. Len(Under(s, m) \o q) = Len(Under(s, m)) + Len(q)
      BY ONLY <3>1, ConcatProperties
    <3> QED
      BY ONLY <2>8, <3>2
  <2>10. Len(b.vals) = Len(s) - m + Len(q)
    BY <2>1, <2>5, <2>9
  <2>11. Len(base \o s) - m + Len(q) <= SPORTH_STACK_SIZE
    <3>1. Len(base) + Len(b.vals) <= SPORTH_STACK_SIZE /\ SPORTH_STACK_SIZE \in Nat
      BY StackAssumption
    <3> QED
      BY ONLY <1>1, <1>2, <2>7, <2>10, <3>1
  <2>12. Apply(i, on) = [vals |-> Under(base \o s, m) \o q, error |-> FALSE]
    <3>1. ~Apply(i, on).error
      BY ONLY <1>3, <2>2, <2>4, <2>6, <2>11, ApplyExact
    <3> QED
      BY ONLY <1>3, <2>2, <2>4, <3>1, ApplyExact
  <2>13. (base \o Under(s, m)) \o q = base \o (Under(s, m) \o q)
    <3>1. base \in Seq(Values) /\ Under(s, m) \in Seq(Values) /\ q \in Seq(Values)
      BY <2>4, <2>8
    <3> QED
      BY ONLY <3>1, ConcatAssociative
  <2>14. b.vals = Under(s, m) \o q /\ Does(PLUMBER_INIT, x, on) = Apply(i, on)
    BY <2>1, <2>5
  <2>15. Does(PLUMBER_INIT, x, on) = [vals |-> base \o b.vals, error |-> FALSE]
    BY ONLY <2>6, <2>12, <2>13, <2>14
  <2> QED
    BY ONLY <2>15 DEF on, s
<1>7. CASE x.type = "ugen" /\ v \notin DOMAIN Sig
  <2>1. b = Pop(st, "s") /\ Does(PLUMBER_INIT, x, on) = Pop(on, "s")
    BY <1>4, <1>7 DEF Does
  <2> HIDE DEF on
  <2>2. Fits(s, <<"s">>) /\ b.vals = Under(s, 1)
    BY <2>1, PopExact
  <2>3. <<"s">> \in Seq(Types) /\ Len(<<"s">>) = 1
    BY DEF Types
  <2>4. Fits(base \o s, <<"s">>) /\ Under(base \o s, 1) = base \o Under(s, 1)
    BY ONLY <1>1, <2>2, <2>3, base \in Seq(Values), FitsOver
  <2>5. Pop(on, "s") = [vals |-> Under(base \o s, 1), error |-> FALSE]
    BY ONLY <1>3, <2>4, PopExact
  <2> QED
    BY ONLY <2>1, <2>2, <2>4, <2>5 DEF on
<1> QED
  BY <1>5, <1>6, <1>7

\* A stack where only the floats of st are left.
FloatsOf(st) == [vals |-> Repeated(FLOAT, Times(FLOAT, st.vals)), error |-> FALSE]

\* COMPUTE does to the floats what CREATE did to them.
LEMMA ComputeDoes ==
  ASSUME NEW x \in Pipes, NEW st \in Stacks, NEW b \in Stacks, b = Does(PLUMBER_CREATE, x, st),
         ~b.error, ~st.error
  PROVE  Does(PLUMBER_COMPUTE, x, FloatsOf(st)) = FloatsOf(b)
<1> DEFINE s == st.vals
           n == Times(FLOAT, s)
           on == FloatsOf(st)
<1>1. /\ s \in Seq(Values) /\ Len(s) <= SPORTH_STACK_SIZE /\ Len(s) \in Nat
      /\ b.vals \in Seq(Values) /\ Len(b.vals) <= SPORTH_STACK_SIZE /\ Len(b.vals) \in Nat
  BY DEF Stacks
<1>2. n \in Nat /\ n <= Len(s) /\ Times(FLOAT, b.vals) \in Nat /\ Times(FLOAT, b.vals) <= Len(b.vals)
  BY <1>1, TimesType
<1>3. n <= SPORTH_STACK_SIZE /\ Times(FLOAT, b.vals) <= SPORTH_STACK_SIZE
  BY <1>1, <1>2, StackAssumption
<1>4. PLUMBER_COMPUTE # PLUMBER_INIT /\ PLUMBER_COMPUTE # PLUMBER_CREATE
  BY DEF PLUMBER_CREATE, PLUMBER_INIT, PLUMBER_COMPUTE
<1>5. on = [vals |-> Repeated(FLOAT, n), error |-> FALSE]
  BY DEF FloatsOf
<1> DEFINE v == x.ud
<1> HIDE DEF n, on
<1>6. CASE x.type # "ugen"
  <2>1. /\ v \in Values /\ b = Push(st, v) /\ (x.type = "float" <=> v = FLOAT)
        /\ Does(PLUMBER_COMPUTE, x, on) = IF x.type = "float" THEN Push(on, v) ELSE on
    BY <1>4, <1>6, PipeIs DEF Does
  <2> HIDE DEF v
  <2>2. b = [vals |-> Append(s, v), error |-> FALSE]
    BY <2>1, PushExact
  <2>3. Times(FLOAT, b.vals) = IF v = FLOAT THEN n + 1 ELSE n
    BY ONLY <1>1, <2>1, <2>2, TimesAppend DEF n
  <2>4. CASE v = FLOAT
    <3>1. Times(FLOAT, b.vals) = n + 1 /\ n + 1 <= SPORTH_STACK_SIZE
      BY <1>3, <2>3, <2>4
    <3>2. Push(on, FLOAT) = [vals |-> Repeated(FLOAT, n + 1), error |-> FALSE]
      BY ONLY <1>2, <1>5, <3>1, PushFloat
    <3> QED
      BY ONLY <2>1, <2>4, <3>1, <3>2 DEF FloatsOf, on
  <2>5. CASE v # FLOAT
    BY ONLY <1>5, <2>1, <2>3, <2>5 DEF FloatsOf, on
  <2> QED
    BY <2>4, <2>5
<1>7. CASE x.type = "ugen" /\ v \in DOMAIN Sig
  <2> DEFINE c == Sig[v].create
             e == Sig[v].compute
             f == Times("f", c.pop)
             d == Times(FLOAT, c.push)
  <2>1. b = Apply(c, st) /\ Does(PLUMBER_COMPUTE, x, on) = Apply(e, on)
    BY <1>4, <1>7 DEF Does, Effect
  <2>2. /\ c \in Effects /\ e \in Effects /\ e.pop = Repeated("f", f) /\ e.push = Repeated(FLOAT, d)
    BY <1>7, EvenEffects
  <2> HIDE DEF c, e, v
  <2>3. Fits(s, c.pop) /\ b.vals = Under(s, Len(c.pop)) \o c.push
    <3>1. ~Apply(c, st).error /\ ~st.error /\ st \in Stacks
      BY <2>1
    <3>2. Fits(s, c.pop) /\ Apply(c, st).vals = Under(s, Len(c.pop)) \o c.push
      <4>1. c \in Effects
        BY <2>2
      <4> DEFINE y == Under(st.vals, Len(c.pop)) \o c.push
      <4>2. Fits(st.vals, c.pop) /\ Apply(c, st) = [vals |-> y, error |-> FALSE]
        BY ONLY <3>1, <4>1, ApplyExact
      <4>3. Apply(c, st).vals = y
        <5> HIDE DEF y
        <5> QED
          BY ONLY <4>2
      <4> QED
        BY ONLY <4>2, <4>3
    <3> QED
      BY <2>1, <3>2
  <2>4. f \in Nat /\ f <= n /\ d \in Nat /\ Times(FLOAT, b.vals) = n - f + d
    BY ONLY <1>1, <2>2, <2>3, TimesApplied DEF n
  <2> HIDE DEF f, d
  <2>5. f \in 0 .. n /\ n - f + d <= SPORTH_STACK_SIZE
    BY <1>2, <1>3, <2>4
  <2>6. Apply(e, on) = [vals |-> Repeated(FLOAT, n - f + d), error |-> FALSE]
    BY ONLY <1>2, <1>3, <1>5, <2>2, <2>4, <2>5, ApplyFloats
  <2> QED
    BY ONLY <2>1, <2>4, <2>6 DEF FloatsOf, on
<1>8. CASE x.type = "ugen" /\ v \notin DOMAIN Sig
  <2>1. b = Pop(st, "s") /\ Does(PLUMBER_COMPUTE, x, on) = on
    BY <1>4, <1>8 DEF Does
  <2>2. Fits(s, <<"s">>) /\ b.vals = Under(s, 1)
    BY <2>1, PopExact
  <2>3. <<"s">> \in Seq(Types) /\ Len(<<"s">>) = 1 /\ <<"s">>[1] # "f"
    BY DEF Types
  <2>4. n = Times(FLOAT, Under(s, 1)) + Times("f", <<"s">>)
    BY ONLY <1>1, <2>2, <2>3, TimesUnder DEF n
  <2>5. Times("f", <<"s">>) = 0
    <3>1. {i \in 1 .. Len(<<"s">>) : <<"s">>[i] = "f"} = {}
      BY <2>3
    <3> QED
      BY <3>1, FS_EmptySet DEF Times
  <2>6. Times(FLOAT, b.vals) = n
    BY <1>2, <2>2, <2>4, <2>5
  <2> QED
    BY ONLY <1>5, <2>1, <2>6 DEF FloatsOf, on
<1> QED
  BY <1>6, <1>7, <1>8

\* From one to the next, up to n.
LEMMA Steps ==
  ASSUME NEW n \in Nat, NEW G, 0 \in G, \A k \in 1 .. n : k - 1 \in G => k \in G
  PROVE  \A k \in 0 .. n : k \in G
<1> DEFINE E == {k \in 0 .. n : k \notin G}
<1>1. E = {}
  <2> SUFFICES ASSUME E # {} PROVE FALSE
    OBVIOUS
  <2>1. E \subseteq Nat
    OBVIOUS
  <2>2. PICK k \in E : \A i \in E : k <= i
    <3> HIDE DEF E
    <3> QED
      BY ONLY <2>1, E # {}, Least
  <2>3. k \in 0 .. n /\ k \notin G /\ k # 0
    BY <2>2
  <2>4. k \in 1 .. n /\ k - 1 \in 0 .. n /\ k - 1 < k
    BY <2>3
  <2>5. k - 1 \notin E
    <3>1. ASSUME k - 1 \in E PROVE FALSE
      <4>1. k <= k - 1
        BY <2>2, <3>1
      <4> QED
        BY <2>4, <4>1
    <3> QED
      BY <3>1
  <2>6. k - 1 \in G
    BY <2>4, <2>5
  <2> QED
    BY <2>3, <2>4, <2>6
<1> QED
  BY <1>1

\* Where there is a pipe.
LEMMA SpotPipe ==
  ASSUME NEW P \in Seq(Plumbings), NEW s, IsSpot(P, s)
  PROVE  PipeAt(P, s) \in Pipes
<1>1. s[1] \in 1 .. Len(P) /\ s[2] \in 1 .. Len(P[s[1]].pipes)
  BY DEF IsSpot
<1>2. P[s[1]] \in Plumbings
  BY <1>1, ElementOfSeq
<1>3. P[s[1]].pipes \in Seq(Pipes)
  BY <1>2 DEF Plumbings
<1> QED
  BY <1>1, <1>3, ElementOfSeq DEF PipeAt

\* INIT does over again, on top of what the parse left, what the parse did,
\* as long as there is room for it.
LEMMA InitAgain ==
  ASSUME NEW P \in Seq(Plumbings), NEW w \in Seq(Spots), NEW a \in Stacks, ~a.error,
         NEW T, Ran(PLUMBER_CREATE, P, w, sporth_stack_init, T), ~T[Len(w)].error,
         NEW R, Ran(PLUMBER_INIT, P, w, a, R),
         \A k \in 0 .. Len(w) : Len(a.vals) + Len(T[k].vals) <= SPORTH_STACK_SIZE
  PROVE  ~R[Len(w)].error
<1> DEFINE n == Len(w)
           On(k) == [vals |-> a.vals \o T[k].vals, error |-> FALSE]
           G == {k \in 0 .. n : R[k] = On(k)}
<1>1. n \in Nat /\ a.vals \in Seq(Values) /\ a = [vals |-> a.vals, error |-> FALSE]
  BY DEF Stacks
<1>2. \A k \in 0 .. n : ~T[k].error
  BY NeverRaised
<1>3. /\ T[0] = sporth_stack_init /\ R[0] = a
      /\ \A k \in 0 .. n : T[k] \in Stacks
      /\ \A k \in 1 .. n : /\ IsSpot(P, w[k]) /\ T[k] = Does(PLUMBER_CREATE, PipeAt(P, w[k]), T[k - 1])
                           /\ R[k] = Does(PLUMBER_INIT, PipeAt(P, w[k]), R[k - 1])
  BY DEF Ran
<1>4. 0 \in G
  <2>1. a.vals \o <<>> = a.vals
    BY <1>1, ConcatEmptySeq
  <2>2. T[0].vals = <<>>
    BY <1>3 DEF sporth_stack_init
  <2>3. On(0) = a
    BY ONLY <1>1, <2>1, <2>2
  <2> HIDE DEF On
  <2> QED
    BY <1>1, <1>3, <2>3
<1>5. ASSUME NEW k \in 1 .. n, k - 1 \in G PROVE k \in G
  <2> DEFINE x == PipeAt(P, w[k])
             s == T[k - 1]
             b == T[k]
  <2>1. k \in 0 .. n /\ k - 1 \in 0 .. n /\ x \in Pipes
    BY <1>1, <1>3, SpotPipe
  <2>2. /\ s \in Stacks /\ b \in Stacks /\ b = Does(PLUMBER_CREATE, x, s) /\ ~b.error /\ ~s.error
        /\ R[k] = Does(PLUMBER_INIT, x, R[k - 1])
    BY <1>2, <1>3, <2>1
  <2>3. Len(a.vals) + Len(s.vals) <= SPORTH_STACK_SIZE /\ Len(a.vals) + Len(b.vals) <= SPORTH_STACK_SIZE
    BY <2>1
  <2>4. R[k - 1] = [vals |-> a.vals \o s.vals, error |-> FALSE]
    BY <1>5
  <2> HIDE DEF x, s, b
  <2>5. Does(PLUMBER_INIT, x, [vals |-> a.vals \o s.vals, error |-> FALSE])
          = [vals |-> a.vals \o b.vals, error |-> FALSE]
    <3> DEFINE base == a.vals
    <3>1. base \in Seq(Values)
      BY ONLY <1>1
    <3>2. Len(base) + Len(s.vals) <= SPORTH_STACK_SIZE /\ Len(base) + Len(b.vals) <= SPORTH_STACK_SIZE
      BY ONLY <2>3
    <3>3. x \in Pipes /\ s \in Stacks /\ b = Does(PLUMBER_CREATE, x, s) /\ ~b.error /\ ~s.error
      BY ONLY <2>1, <2>2
    <3> HIDE DEF base
    <3>4. Again(x, base, s, b)
      BY ONLY <3>1, <3>2, <3>3, InitDoes
    <3> QED
      BY ONLY <3>4 DEF Again, base
  <2>6. R[k] = [vals |-> a.vals \o b.vals, error |-> FALSE]
    BY ONLY <2>2, <2>4, <2>5
  <2> QED
    BY <2>1, <2>6 DEF b
<1> HIDE DEF n, G
<1>6. n \in G
  <2>1. \A k \in 0 .. n : k \in G
    BY ONLY <1>1, <1>4, <1>5, Steps
  <2> QED
    BY <1>1, <2>1
<1> QED
  BY <1>6 DEF G, n

\* COMPUTE does over again to the floats what the parse did to them.
LEMMA ComputeAgain ==
  ASSUME NEW P \in Seq(Plumbings), NEW w \in Seq(Spots),
         NEW T, Ran(PLUMBER_CREATE, P, w, sporth_stack_init, T), ~T[Len(w)].error,
         NEW R, Ran(PLUMBER_COMPUTE, P, w, sporth_stack_init, R)
  PROVE  R[Len(w)] = FloatsOf(T[Len(w)])
<1> DEFINE n == Len(w)
           G == {k \in 0 .. n : R[k] = FloatsOf(T[k])}
<1>1. n \in Nat
  OBVIOUS
<1>2. \A k \in 0 .. n : ~T[k].error
  BY NeverRaised
<1>3. /\ T[0] = sporth_stack_init /\ R[0] = sporth_stack_init
      /\ \A k \in 0 .. n : T[k] \in Stacks
      /\ \A k \in 1 .. n : /\ IsSpot(P, w[k]) /\ T[k] = Does(PLUMBER_CREATE, PipeAt(P, w[k]), T[k - 1])
                           /\ R[k] = Does(PLUMBER_COMPUTE, PipeAt(P, w[k]), R[k - 1])
  BY DEF Ran
<1>4. 0 \in G
  <2>1. sporth_stack_init.vals = <<>>
    BY DEF sporth_stack_init
  <2>2. <<>> \in Seq(Values) /\ Len(<<>>) = 0
    BY EmptySeq
  <2>3. Times(FLOAT, <<>>) = 0
    <3>1. {i \in 1 .. Len(<<>>) : <<>>[i] = FLOAT} = {}
      BY ONLY <2>2
    <3> QED
      BY ONLY <3>1, FS_EmptySet DEF Times
  <2>4. Repeated(FLOAT, 0) \in Seq({FLOAT}) /\ Len(Repeated(FLOAT, 0)) = 0
    BY RepeatedType
  <2>5. Repeated(FLOAT, 0) = <<>>
    BY ONLY <2>4, EmptySeq
  <2>6. FloatsOf(sporth_stack_init) = sporth_stack_init
    BY ONLY <2>1, <2>3, <2>5 DEF FloatsOf, sporth_stack_init
  <2> QED
    BY <1>1, <1>3, <2>6
<1>5. ASSUME NEW k \in 1 .. n, k - 1 \in G PROVE k \in G
  <2> DEFINE x == PipeAt(P, w[k])
             s == T[k - 1]
             b == T[k]
  <2>1. k \in 0 .. n /\ k - 1 \in 0 .. n /\ x \in Pipes
    BY <1>1, <1>3, SpotPipe
  <2>2. /\ s \in Stacks /\ b \in Stacks /\ b = Does(PLUMBER_CREATE, x, s) /\ ~b.error /\ ~s.error
        /\ R[k] = Does(PLUMBER_COMPUTE, x, R[k - 1])
    BY <1>2, <1>3, <2>1
  <2>3. R[k - 1] = FloatsOf(s)
    BY <1>5
  <2> HIDE DEF x, s, b
  <2>4. Does(PLUMBER_COMPUTE, x, FloatsOf(s)) = FloatsOf(b)
    BY ONLY <2>1, <2>2, ComputeDoes
  <2>5. R[k] = FloatsOf(b)
    BY ONLY <2>2, <2>3, <2>4
  <2> QED
    BY <2>1, <2>5 DEF b
<1> HIDE DEF n, G
<1>6. n \in G
  <2>1. \A k \in 0 .. n : k \in G
    BY ONLY <1>1, <1>4, <1>5, Steps
  <2> QED
    BY <1>1, <2>1
<1> QED
  BY <1>6 DEF G, n
---------------------------------------------------------------------------
(* What a parse adds comes last.                                           *)

\* No two pipes have the same plumbing.
Single(P) ==
  \A i \in 1 .. Len(P) : \A j \in 1 .. Len(P) :
    \A k \in 1 .. Len(P[i].pipes) : \A l \in 1 .. Len(P[j].pipes) :
      P[i].pipes[k].d # 0 /\ P[i].pipes[k].d = P[j].pipes[l].d => i = j /\ k = l

\* The plumbing i has its last pipe to thank for c.
LastHas(P, i, c) == LET n == Len(P[i].pipes) IN n # 0 /\ P[i].pipes[n].d = c

\* The plumbings that are being parsed, of which t is the innermost.
Spine(P, S, t) ==
  /\ t \in S /\ Main \in S
  /\ \A c \in S : c \in 1 .. Len(P) /\ c <= t
  /\ \A c \in S : c # Main => \E i \in S : LastHas(P, i, c)
  /\ \A i \in S : i # t => \E c \in S : LastHas(P, i, c)

\* Where the first pipes are visited alike, as much is visited.
LEMMA UptoSame ==
  ASSUME NEW P \in Seq(Plumbings), Tree(P), NEW i \in 1 .. Len(P),
         NEW Q \in Seq(Plumbings), Tree(Q), i \in 1 .. Len(Q),
         NEW n \in Nat, n <= Len(P[i].pipes), n <= Len(Q[i].pipes),
         \A k \in 1 .. n : Parts(Q, i)[k] = Parts(P, i)[k]
  PROVE  Upto(Q, i, n) = Upto(P, i, n)
<1> DEFINE s == Parts(P, i)
           t == Parts(Q, i)
           A == SubSeq(s, 1, n)
           B == SubSeq(t, 1, n)
           S == Seq(Spots)
<1>1. s \in Seq(S) /\ Len(s) = Len(P[i].pipes)
  BY WalkIs
<1>2. t \in Seq(S) /\ Len(t) = Len(Q[i].pipes)
  BY WalkIs
<1> HIDE DEF s, t, S
<1>3. \A k \in 1 .. n : s[k] \in S /\ t[k] \in S
  <2>1. \A k \in 1 .. n : k \in 1 .. Len(s) /\ k \in 1 .. Len(t)
    BY <1>1, <1>2
  <2> QED
    BY <1>1, <1>2, <2>1, ElementOfSeq
<1>4. n \in Int /\ 1 \in Int /\ n \in Nat
  OBVIOUS
<1>5. /\ A \in Seq(S) /\ Len(A) = (IF 1 <= n THEN n - 1 + 1 ELSE 0)
      /\ \A k \in 1 .. n - 1 + 1 : A[k] = s[1 + k - 1]
  BY ONLY <1>3, <1>4, SubSeqProperties
<1>6. /\ B \in Seq(S) /\ Len(B) = (IF 1 <= n THEN n - 1 + 1 ELSE 0)
      /\ \A k \in 1 .. n - 1 + 1 : B[k] = t[1 + k - 1]
  BY ONLY <1>3, <1>4, SubSeqProperties
<1>7. Len(A) = n /\ Len(B) = n /\ \A k \in 1 .. n : A[k] = s[k] /\ B[k] = t[k]
  <2> HIDE DEF A, B
  <2> QED
    BY ONLY <1>4, <1>5, <1>6
<1>8. \A k \in 1 .. n : t[k] = s[k]
  BY DEF s, t
<1> HIDE DEF A, B
<1>9. B = A
  <2>1. Len(B) = Len(A) /\ \A k \in 1 .. Len(B) : B[k] = A[k]
    BY ONLY <1>7, <1>8
  <2> QED
    BY ONLY <1>5, <1>6, <2>1, SeqEqual
<1> QED
  BY <1>9 DEF Upto, A, B, s, t

\* A plumbing without pipes adds nothing.
LEMMA WalkEmpty ==
  ASSUME NEW P \in Seq(Plumbings), Tree(P), NEW i \in 1 .. Len(P), P[i].pipes = <<>>
  PROVE  Walk(P, i) = <<>>
<1>1. Len(P[i].pipes) = 0
  BY EmptySeq
<1>2. Upto(P, i, 0) = <<>> /\ Upto(P, i, Len(P[i].pipes)) = Walk(P, i)
  BY UptoIs
<1> QED
  BY ONLY <1>1, <1>2

\* The pipes of P are still there.
LEMMA GrowsIs ==
  ASSUME NEW P \in Seq(Plumbings), NEW Q, NEW t, NEW x, Grows(P, Q, t, x)
  PROVE  /\ Q \in Seq(Plumbings) /\ Len(P) \in Nat /\ Len(Q) \in Nat /\ Len(P) <= Len(Q)
         /\ t \in 1 .. Len(P) /\ t \in 1 .. Len(Q)
         /\ \A i \in 1 .. Len(P) : /\ i \in 1 .. Len(Q) /\ Len(P[i].pipes) \in Nat
                                   /\ i # t => Q[i].pipes = P[i].pipes
         /\ Len(Q[t].pipes) = Len(P[t].pipes) + 1
         /\ Q[t].pipes[Len(P[t].pipes) + 1] = x
         /\ \A i \in 1 .. Len(P) : \A k \in 1 .. Len(P[i].pipes) :
              k \in 1 .. Len(Q[i].pipes) /\ Q[i].pipes[k] = P[i].pipes[k]
<1>1. /\ x \in Pipes /\ t \in 1 .. Len(P) /\ Q \in Seq(Plumbings)
      /\ \A i \in 1 .. Len(P) : Q[i].pipes = IF i = t THEN Append(P[i].pipes, x) ELSE P[i].pipes
      /\ Len(Q) = Len(P) \/ Len(Q) = Len(P) + 1
  BY DEF Grows
<1>2. Len(P) \in Nat /\ Len(Q) \in Nat /\ Len(P) <= Len(Q)
  BY <1>1
<1>3. \A i \in 1 .. Len(P) : i \in 1 .. Len(Q)
  BY ONLY <1>2
<1>4. \A i \in 1 .. Len(P) : P[i].pipes \in Seq(Pipes)
  <2>1. \A i \in 1 .. Len(P) : P[i] \in Plumbings
    BY ElementOfSeq
  <2> QED
    BY ONLY <2>1 DEF Plumbings
<1>5. \A i \in 1 .. Len(P) : Len(P[i].pipes) \in Nat
  BY <1>4, LenProperties
<1> DEFINE q == P[t].pipes
<1>6. q \in Seq(Pipes) /\ Q[t].pipes = Append(q, x)
  BY <1>1, <1>4
<1> HIDE DEF q
<1>7. /\ Len(Q[t].pipes) = Len(q) + 1 /\ Q[t].pipes[Len(q) + 1] = x
      /\ \A k \in 1 .. Len(q) : Q[t].pipes[k] = q[k]
  BY ONLY <1>1, <1>6, AppendProperties
<1>8. ASSUME NEW i \in 1 .. Len(P), NEW k \in 1 .. Len(P[i].pipes)
      PROVE  k \in 1 .. Len(Q[i].pipes) /\ Q[i].pipes[k] = P[i].pipes[k]
  <2>1. CASE i # t
    BY <1>1, <2>1
  <2>2. CASE i = t
    <3>1. k \in 1 .. Len(q) /\ Len(q) \in Nat
      BY <1>5, <2>2 DEF q
    <3> QED
      BY <1>7, <2>2, <3>1 DEF q
  <2> QED
    BY <2>1, <2>2
<1> QED
  BY <1>1, <1>2, <1>3, <1>5, <1>7, <1>8 DEF q

Longer(P, Q, S, y, i) == Walk(Q, i) = IF i \in S THEN Append(Walk(P, i), y) ELSE Walk(P, i)

\* One pipe more in the innermost plumbing is one more at the end of the
\* walk of every plumbing that is being parsed, and of no other.
LEMMA WalkOfOne ==
  ASSUME NEW P \in Seq(Plumbings), Tree(P), Single(P), NEW Q, Tree(Q), NEW S, NEW t, NEW x,
         Spine(P, S, t), Grows(P, Q, t, x), NEW y, y = <<t, Len(P[t].pipes) + 1>>,
         NEW i \in 1 .. Len(P), \A j \in i + 1 .. Len(P) : Longer(P, Q, S, y, j)
  PROVE  Longer(P, Q, S, y, i)
<1> USE DEF Longer
<1> DEFINE n == Len(P)
           m == Len(P[i].pipes)
           Has(k) == P[i].pipes[k].d
<1>1. /\ Q \in Seq(Plumbings) /\ n \in Nat /\ n <= Len(Q) /\ t \in 1 .. n /\ i \in 1 .. Len(Q) /\ m \in Nat
      /\ \A j \in 1 .. n : j \in 1 .. Len(Q) /\ Len(P[j].pipes) \in Nat
      /\ i # t => Q[i].pipes = P[i].pipes
      /\ \A k \in 1 .. m : k \in 1 .. Len(Q[i].pipes) /\ Q[i].pipes[k] = P[i].pipes[k]
  BY GrowsIs
<1>2. \A k \in 1 .. m : Has(k) \in {0} \union i + 1 .. n
  BY DEF Tree
<1>3. ASSUME NEW k \in 1 .. m, Has(k) \in S PROVE i \in S /\ k = m /\ i # t
  <2>1. Has(k) # 0 /\ Has(k) # Main /\ Has(k) > i /\ Has(k) <= t
    <3>1. Has(k) \in 1 .. n /\ Has(k) <= t
      BY <1>3 DEF Spine
    <3>2. Has(k) \in i + 1 .. n
      BY <1>1, <1>2, <3>1
    <3> QED
      BY <1>1, <3>1, <3>2 DEF Main
  <2>2. PICK p \in S : LastHas(P, p, Has(k))
    BY <1>3, <2>1 DEF Spine
  <2>3. p \in 1 .. n
    BY <2>2 DEF Spine
  <2>4. /\ Len(P[p].pipes) \in 1 .. Len(P[p].pipes)
        /\ P[p].pipes[Len(P[p].pipes)].d = Has(k)
    BY <1>1, <2>2, <2>3 DEF LastHas
  <2>5. i = p /\ k = Len(P[p].pipes)
    <3> DEFINE l == Len(P[p].pipes)
    <3>1. P[i].pipes[k].d # 0 /\ P[i].pipes[k].d = P[p].pipes[l].d /\ l \in 1 .. Len(P[p].pipes)
      BY <2>1, <2>4
    <3>2. i \in 1 .. Len(P) /\ p \in 1 .. Len(P) /\ k \in 1 .. Len(P[i].pipes)
      BY <2>3
    <3> HIDE DEF l
    <3>4. \A j \in 1 .. Len(P) :
            \A b \in 1 .. Len(P[i].pipes) : \A c \in 1 .. Len(P[j].pipes) :
              P[i].pipes[b].d # 0 /\ P[i].pipes[b].d = P[j].pipes[c].d => i = j /\ b = c
      BY ONLY <3>2, Single(P) DEF Single
    <3>5. \A c \in 1 .. Len(P[p].pipes) :
            P[i].pipes[k].d # 0 /\ P[i].pipes[k].d = P[p].pipes[c].d => i = p /\ k = c
      BY ONLY <3>2, <3>4
    <3>3. i = p /\ k = l
      BY ONLY <3>1, <3>5
    <3> QED
      BY ONLY <3>3 DEF l
  <2>6. i # t
    <3>1. Has(k) \in 1 .. n
      BY <1>3 DEF Spine
    <3> QED
      BY ONLY <1>1, <2>1, <3>1
  <2> QED
    BY <2>2, <2>5, <2>6
<1>4. ASSUME NEW k \in 1 .. m, Has(k) \notin S PROVE Parts(Q, i)[k] = Parts(P, i)[k]
  <2>1. k \in 1 .. Len(Q[i].pipes) /\ Q[i].pipes[k].d = Has(k)
    BY <1>1
  <2>2. /\ Has(k) = 0 => Parts(P, i)[k] = <<<<i, k>>>>
        /\ Has(k) # 0 => Parts(P, i)[k] = <<<<i, k>>>> \o Walk(P, Has(k))
    BY PartIs
  <2>3. /\ Has(k) = 0 => Parts(Q, i)[k] = <<<<i, k>>>>
        /\ Has(k) # 0 => Parts(Q, i)[k] = <<<<i, k>>>> \o Walk(Q, Has(k))
    <3>1. /\ Q[i].pipes[k].d = 0 => Parts(Q, i)[k] = <<<<i, k>>>>
          /\ Q[i].pipes[k].d # 0 => Parts(Q, i)[k] = <<<<i, k>>>> \o Walk(Q, Q[i].pipes[k].d)
      BY <1>1, <2>1, PartIs
    <3> QED
      BY ONLY <2>1, <3>1
  <2>4. Has(k) # 0 => Walk(Q, Has(k)) = Walk(P, Has(k))
    BY <1>2, <1>4
  <2> QED
    BY ONLY <2>2, <2>3, <2>4
<1>5. /\ Upto(P, i, m) = Walk(P, i) /\ Walk(P, i) \in Seq(Spots)
      /\ Upto(Q, i, Len(Q[i].pipes)) = Walk(Q, i)
  BY <1>1, UptoIs, WalkIs
<1>6. CASE i \notin S
  <2>1. \A k \in 1 .. m : Parts(Q, i)[k] = Parts(P, i)[k]
    BY <1>3, <1>4, <1>6
  <2>2. Q[i].pipes = P[i].pipes
    BY <1>1, <1>6 DEF Spine
  <2>3. Upto(Q, i, m) = Upto(P, i, m)
    <3>1. m <= m /\ m <= Len(Q[i].pipes)
      BY <1>1, <2>2
    <3> QED
      BY <1>1, <2>1, <3>1, UptoSame
  <2> QED
    BY <1>5, <1>6, <2>2, <2>3
<1>7. CASE i = t
  <2>1. \A k \in 1 .. m : Parts(Q, i)[k] = Parts(P, i)[k]
    BY <1>3, <1>4, <1>7
  <2>2. Len(Q[i].pipes) = m + 1 /\ Q[i].pipes[m + 1] = x
    BY <1>7, GrowsIs
  <2>3. Upto(Q, i, m) = Walk(P, i)
    <3>1. m <= m /\ m <= Len(Q[i].pipes)
      BY <1>1, <2>2
    <3> QED
      BY <1>1, <1>5, <2>1, <3>1, UptoSame
  <2>4. m + 1 \in 1 .. Len(Q[i].pipes) /\ m + 1 - 1 = m
    BY <1>1, <2>2
  <2>5. /\ Upto(Q, i, m) \in Seq(Spots)
        /\ x.d = 0 => Upto(Q, i, m + 1) = Append(Upto(Q, i, m), <<i, m + 1>>)
        /\ x.d # 0 => Upto(Q, i, m + 1) = Append(Upto(Q, i, m), <<i, m + 1>>) \o Walk(Q, x.d)
    <3> DEFINE k == m + 1
    <3>1. /\ Upto(Q, i, k - 1) \in Seq(Spots)
          /\ Q[i].pipes[k].d = 0 => Upto(Q, i, k) = Append(Upto(Q, i, k - 1), <<i, k>>)
          /\ Q[i].pipes[k].d # 0 => Upto(Q, i, k) = Append(Upto(Q, i, k - 1), <<i, k>>) \o Walk(Q, Q[i].pipes[k].d)
      <4>1. k \in 1 .. Len(Q[i].pipes)
        BY <2>4
      <4> HIDE DEF k
      <4> QED
        BY <1>1, <4>1, UptoIs
    <3>2. k - 1 = m /\ Q[i].pipes[k] = x /\ k = m + 1
      BY <2>2, <2>4
    <3> HIDE DEF k
    <3> QED
      BY ONLY <3>1, <3>2
  <2>6. x.d # 0 => Walk(Q, x.d) = <<>>
    <3>1. x.d # 0 => x.d \in 1 .. Len(Q) /\ Q[x.d].pipes = <<>>
      <4>1. x.d # 0 => x.d = Len(Q) /\ Len(Q) = n + 1 /\ Q[Len(Q)].pipes = <<>>
        BY DEF Grows
      <4> QED
        BY <1>1, <4>1
    <3> QED
      BY <1>1, <3>1, WalkEmpty
  <2>7. Append(Walk(P, i), <<i, m + 1>>) \in Seq(Spots)
    <3>1. <<i, m + 1>> \in Spots
      <4>1. i \in Nat /\ m + 1 \in Nat
        BY <1>1
      <4> QED
        BY ONLY <4>1 DEF Spots
    <3> QED
      BY <1>5, <3>1, AppendProperties
  <2>8. Upto(Q, i, m + 1) = Append(Walk(P, i), <<i, m + 1>>)
    <3>1. Append(Walk(P, i), <<i, m + 1>>) \o <<>> = Append(Walk(P, i), <<i, m + 1>>)
      BY ONLY <2>7, ConcatEmptySeq
    <3> QED
      BY ONLY <2>3, <2>5, <2>6, <3>1
  <2>9. i \in S
    BY <1>7 DEF Spine
  <2> QED
    BY <1>5, <1>7, <2>2, <2>8, <2>9
<1>8. CASE i \in S /\ i # t
  <2>1. PICK c \in S : LastHas(P, i, c)
    BY <1>8 DEF Spine
  <2>2. m \in 1 .. m /\ Has(m) = c
    BY <1>1, <2>1 DEF LastHas
  <2>3. c \in i + 1 .. n /\ c # 0
    <3>1. c # 0
      BY <1>1, <2>1 DEF Spine
    <3>2. c \in {0} \union i + 1 .. n
      BY <1>2, <2>2
    <3> QED
      BY ONLY <3>1, <3>2
  <2>4. Q[i].pipes = P[i].pipes
    BY <1>1, <1>8
  <2>5. Upto(Q, i, m - 1) = Upto(P, i, m - 1)
    <3>1. m - 1 \in Nat /\ m - 1 <= m /\ m - 1 <= Len(Q[i].pipes)
      BY <1>1, <2>2, <2>4
    <3>2. ASSUME NEW k \in 1 .. m - 1 PROVE Parts(Q, i)[k] = Parts(P, i)[k]
      <4>1. k \in 1 .. m /\ k # m
        BY <1>1
      <4> QED
        BY <1>3, <1>4, <4>1
    <3> QED
      BY <1>1, <3>1, <3>2, UptoSame
  <2>6. /\ Upto(P, i, m - 1) \in Seq(Spots)
        /\ Upto(P, i, m) = Append(Upto(P, i, m - 1), <<i, m>>) \o Walk(P, c)
    <3>1. /\ Upto(P, i, m - 1) \in Seq(Spots)
          /\ P[i].pipes[m].d # 0 =>
               Upto(P, i, m) = Append(Upto(P, i, m - 1), <<i, m>>) \o Walk(P, P[i].pipes[m].d)
      BY <2>2, UptoIs
    <3> QED
      BY ONLY <2>2, <2>3, <3>1
  <2>7. Upto(Q, i, m) = Append(Upto(Q, i, m - 1), <<i, m>>) \o Walk(Q, c)
    <3>1. m \in 1 .. Len(Q[i].pipes)
      BY <2>2, <2>4
    <3>2. Q[i].pipes[m].d # 0 =>
               Upto(Q, i, m) = Append(Upto(Q, i, m - 1), <<i, m>>) \o Walk(Q, Q[i].pipes[m].d)
      BY <1>1, <3>1, UptoIs
    <3> QED
      BY ONLY <2>2, <2>3, <2>4, <3>2
  <2>8. Walk(Q, c) = Append(Walk(P, c), y)
    BY <2>1, <2>3
  <2> DEFINE h == Append(Upto(P, i, m - 1), <<i, m>>)
  <2>9. h \in Seq(Spots) /\ Walk(P, c) \in Seq(Spots) /\ y \in Spots
    <3>1. <<i, m>> \in Spots
      <4>1. i \in Nat /\ m \in Nat
        BY <1>1
      <4> QED
        BY ONLY <4>1 DEF Spots
    <3>2. h \in Seq(Spots)
      BY ONLY <2>6, <3>1, AppendProperties
    <3>3. c \in 1 .. n
      BY <1>1, <2>3
    <3>4. Walk(P, c) \in Seq(Spots)
      BY <3>3, WalkIs
    <3>5. y \in Spots
      <4>1. t \in Nat /\ Len(P[t].pipes) + 1 \in Nat
        BY <1>1
      <4> QED
        BY ONLY <4>1, y = <<t, Len(P[t].pipes) + 1>> DEF Spots
    <3> QED
      BY ONLY <3>2, <3>4, <3>5
  <2> HIDE DEF h
  <2>10. h \o Append(Walk(P, c), y) = Append(h \o Walk(P, c), y)
    BY ONLY <2>9, AppendConcat
  <2>11. Upto(Q, i, m) = Append(Upto(P, i, m), y)
    <3>1. Upto(P, i, m) = h \o Walk(P, c)
      BY ONLY <2>6 DEF h
    <3>2. Upto(Q, i, m) = h \o Append(Walk(P, c), y)
      BY ONLY <2>5, <2>7, <2>8 DEF h
    <3> QED
      BY ONLY <2>10, <3>1, <3>2
  <2> QED
    BY ONLY <1>5, <1>8, <2>4, <2>11 DEF Longer
<1> QED
  BY <1>6, <1>7, <1>8

\* So it is one more at the end of the walk of the host.
LEMMA WalkGrows ==
  ASSUME NEW P \in Seq(Plumbings), Tree(P), Single(P), NEW Q, Tree(Q), NEW S, NEW t, NEW x,
         Spine(P, S, t), Grows(P, Q, t, x)
  PROVE  Walk(Q, Main) = Append(Walk(P, Main), <<t, Len(P[t].pipes) + 1>>)
<1> DEFINE n == Len(P)
           y == <<t, Len(P[t].pipes) + 1>>
           Good(i) == Longer(P, Q, S, y, i)
           T == {i \in 1 .. n : ~Good(i)}
<1>1. n \in Nat
  OBVIOUS
<1>2. ASSUME NEW i \in 1 .. n, \A j \in i + 1 .. n : Good(j) PROVE Good(i)
  <2>1. i \in 1 .. Len(P) /\ \A j \in i + 1 .. Len(P) : Longer(P, Q, S, y, j)
    BY <1>2
  <2>2. y = <<t, Len(P[t].pipes) + 1>>
    OBVIOUS
  <2> HIDE DEF y
  <2> QED
    BY <2>1, <2>2, WalkOfOne
<1> HIDE DEF n, Good
<1>3. T = {}
  <2> SUFFICES ASSUME T # {} PROVE FALSE
    OBVIOUS
  <2>1. T \subseteq 1 .. n
    OBVIOUS
  <2>2. PICK i \in T : i \in 1 .. n /\ \A j \in i + 1 .. n : j \notin T
    <3> HIDE DEF T
    <3> QED
      BY ONLY <1>1, <2>1, T # {}, Greatest
  <2>3. \A j \in i + 1 .. n : j \in 1 .. n
    BY <1>1, <2>2
  <2>4. \A j \in i + 1 .. n : Good(j)
    BY <2>2, <2>3
  <2> QED
    BY <1>2, <2>2, <2>4
<1>4. Main \in 1 .. n /\ Main \in S
  BY DEF Spine, n
<1>5. Good(Main)
  BY <1>3, <1>4
<1> QED
  BY <1>4, <1>5 DEF Good, Longer

\* It is not the plumbing of a pipe that was there.
LEMMA SingleGrows ==
  ASSUME NEW P \in Seq(Plumbings), Tree(P), Single(P), NEW Q, NEW t, NEW x, Grows(P, Q, t, x)
  PROVE  Single(Q)
<1> DEFINE m == Len(P[t].pipes)
           At(i, k) == Q[i].pipes[k].d
           Old(i, k) == i \in 1 .. Len(P) /\ k \in 1 .. Len(P[i].pipes)
<1>1. /\ Q \in Seq(Plumbings) /\ Len(P) \in Nat /\ Len(Q) \in Nat /\ t \in 1 .. Len(P)
      /\ \A i \in 1 .. Len(P) : Len(P[i].pipes) \in Nat /\ (i # t => Q[i].pipes = P[i].pipes)
      /\ Len(Q[t].pipes) = m + 1 /\ Q[t].pipes[m + 1] = x
      /\ \A i \in 1 .. Len(P) : \A k \in 1 .. Len(P[i].pipes) : Q[i].pipes[k] = P[i].pipes[k]
  BY GrowsIs
<1>2. \/ Len(Q) = Len(P) /\ x.d = 0
      \/ Len(Q) = Len(P) + 1 /\ x.d = Len(P) + 1 /\ Q[Len(P) + 1].pipes = <<>>
  BY DEF Grows
<1>3. ASSUME NEW i \in 1 .. Len(Q), NEW k \in 1 .. Len(Q[i].pipes)
      PROVE  Old(i, k) \/ (i = t /\ k = m + 1)
  <2>1. CASE i \in 1 .. Len(P) /\ i # t
    BY <1>1, <2>1
  <2>2. CASE i = t
    <3>1. m \in Nat /\ k \in 1 .. m + 1
      BY <1>1, <2>2
    <3>2. k \in 1 .. m \/ k = m + 1
      BY ONLY <3>1
    <3> QED
      BY <1>1, <2>2, <3>2
  <2>3. CASE i \notin 1 .. Len(P)
    <3>1. i = Len(P) + 1 /\ Q[i].pipes = <<>>
      BY <1>1, <1>2, <2>3
    <3>2. Len(Q[i].pipes) = 0
      BY ONLY <3>1
    <3> QED
      BY ONLY <3>2, k \in 1 .. Len(Q[i].pipes)
  <2> QED
    BY <2>1, <2>2, <2>3
<1>4. ASSUME NEW i, NEW k, Old(i, k) PROVE At(i, k) = P[i].pipes[k].d /\ At(i, k) \in 0 .. Len(P)
  <2>1. P[i].pipes[k].d \in {0} \union i + 1 .. Len(P)
    BY <1>4 DEF Tree
  <2>2. i \in 1 .. Len(P) /\ k \in 1 .. Len(P[i].pipes) /\ Len(P) \in Nat
    BY <1>1, <1>4
  <2>3. P[i].pipes[k].d \in 0 .. Len(P)
    <3> DEFINE d == P[i].pipes[k].d
    <3> HIDE DEF d
    <3>1. d \in {0} \union i + 1 .. Len(P)
      BY <2>1 DEF d
    <3>2. d \in 0 .. Len(P)
      BY ONLY <2>2, <3>1
    <3> QED
      BY ONLY <3>2 DEF d
  <2>4. Q[i].pipes[k] = P[i].pipes[k]
    BY <1>1, <2>2
  <2> QED
    BY ONLY <2>3, <2>4
<1>5. At(t, m + 1) = 0 \/ At(t, m + 1) = Len(P) + 1
  BY <1>1, <1>2
<1> SUFFICES ASSUME NEW i \in 1 .. Len(Q), NEW j \in 1 .. Len(Q),
                    NEW k \in 1 .. Len(Q[i].pipes), NEW l \in 1 .. Len(Q[j].pipes),
                    At(i, k) # 0, At(i, k) = At(j, l)
             PROVE  i = j /\ k = l
  BY DEF Single
<1>6. CASE Old(i, k) /\ Old(j, l)
  <2>1. P[i].pipes[k].d # 0 /\ P[i].pipes[k].d = P[j].pipes[l].d
    BY <1>4, <1>6
  <2> QED
    BY <1>6, <2>1 DEF Single
<1> HIDE DEF At, Old, m
<1>7. CASE Old(i, k) /\ ~Old(j, l)
  <2>1. At(i, k) \in 0 .. Len(P)
    BY <1>4, <1>7
  <2>2. At(j, l) = At(t, m + 1)
    BY <1>3, <1>7
  <2> QED
    BY <1>1, <1>5, <2>1, <2>2
<1>8. CASE ~Old(i, k) /\ Old(j, l)
  <2>1. At(j, l) \in 0 .. Len(P)
    BY <1>4, <1>8
  <2>2. At(i, k) = At(t, m + 1)
    BY <1>3, <1>8
  <2> QED
    BY <1>1, <1>5, <2>1, <2>2
<1>9. CASE ~Old(i, k) /\ ~Old(j, l)
  BY <1>3, <1>9
<1> QED
  BY <1>6, <1>7, <1>8, <1>9

\* And the pipes that were there are the same.
LEMMA SpotsGrow ==
  ASSUME NEW P \in Seq(Plumbings), NEW Q, NEW t, NEW x, Grows(P, Q, t, x),
         NEW s, s = <<t, Len(P[t].pipes) + 1>>
  PROVE  Extends(P, Q) /\ s \in Spots /\ IsSpot(Q, s) /\ PipeAt(Q, s) = x
<1> DEFINE m == Len(P[t].pipes)
<1>0. /\ t \in 1 .. Len(P) /\ t \in 1 .. Len(Q)
      /\ \A i \in 1 .. Len(P) : /\ i \in 1 .. Len(Q) /\ Len(P[i].pipes) \in Nat
                                /\ i # t => Q[i].pipes = P[i].pipes
      /\ Len(Q[t].pipes) = Len(P[t].pipes) + 1
      /\ Q[t].pipes[Len(P[t].pipes) + 1] = x
      /\ \A i \in 1 .. Len(P) : \A k \in 1 .. Len(P[i].pipes) :
           k \in 1 .. Len(Q[i].pipes) /\ Q[i].pipes[k] = P[i].pipes[k]
  BY GrowsIs
<1>1. /\ t \in 1 .. Len(P) /\ t \in 1 .. Len(Q) /\ m \in Nat
      /\ Len(Q[t].pipes) = m + 1 /\ Q[t].pipes[m + 1] = x
      /\ \A i \in 1 .. Len(P) : i \in 1 .. Len(Q)
      /\ \A i \in 1 .. Len(P) : \A k \in 1 .. Len(P[i].pipes) :
           k \in 1 .. Len(Q[i].pipes) /\ Q[i].pipes[k] = P[i].pipes[k]
  BY ONLY <1>0
<1>2. Extends(P, Q)
  <2> SUFFICES ASSUME NEW r, IsSpot(P, r) PROVE IsSpot(Q, r) /\ PipeAt(Q, r) = PipeAt(P, r)
    BY DEF Extends
  <2>1. r[1] \in 1 .. Len(P) /\ r[2] \in 1 .. Len(P[r[1]].pipes)
    BY DEF IsSpot
  <2> DEFINE i == r[1]
             k == r[2]
  <2> HIDE DEF i, k
  <2>2. i \in 1 .. Len(P) /\ k \in 1 .. Len(P[i].pipes)
    BY <2>1 DEF i, k
  <2>3. i \in 1 .. Len(Q) /\ k \in 1 .. Len(Q[i].pipes) /\ Q[i].pipes[k] = P[i].pipes[k]
    BY <1>1, <2>2
  <2> QED
    BY ONLY <2>3 DEF IsSpot, PipeAt, i, k
<1> HIDE DEF m
<1>3. s[1] = t /\ s[2] = m + 1
  BY DEF m
<1>4. m + 1 \in 1 .. m + 1 /\ t \in Nat /\ m + 1 \in Nat
  BY ONLY <1>1
<1>5. s \in Spots
  BY ONLY <1>4, s = <<t, Len(P[t].pipes) + 1>> DEF Spots, m
<1> QED
  BY ONLY <1>1, <1>2, <1>3, <1>4, <1>5 DEF IsSpot, PipeAt

---------------------------------------------------------------------------
(* The calls of a parse as the plumbings have them.                        *)

\* Every call is in the plumbing of the call before it, or in the one that
\* its last pipe has.
Lined(fs, P) ==
  /\ fs # <<>> => fs[1].on = Main
  /\ \A k \in 1 .. Len(fs) : fs[k].on \in 1 .. Len(P)
  /\ \A k \in 2 .. Len(fs) : fs[k].on = fs[k - 1].on \/ LastHas(P, fs[k - 1].on, fs[k].on)
  /\ \A k \in 1 .. Len(fs) : \A j \in 1 .. k : fs[j].on <= fs[k].on

\* The plumbings that are being parsed are a spine, the innermost its end.
LEMMA SpineOf ==
  ASSUME NEW P, NEW fs, fs # <<>>, Len(fs) \in Nat \ {0}, Lined(fs, P)
  PROVE  Spine(P, {fs[k].on : k \in 1 .. Len(fs)}, fs[Len(fs)].on)
<1> DEFINE n == Len(fs)
           S == {fs[k].on : k \in 1 .. n}
           t == fs[n].on
<1>1. n \in Nat \ {0} /\ 1 \in 1 .. n /\ n \in 1 .. n
  OBVIOUS
<1>2. /\ fs[1].on = Main
      /\ \A k \in 1 .. n : fs[k].on \in 1 .. Len(P) /\ fs[k].on <= t
      /\ \A k \in 2 .. n : fs[k].on = fs[k - 1].on \/ LastHas(P, fs[k - 1].on, fs[k].on)
  BY <1>1 DEF Lined
<1> HIDE DEF n, t
<1>3. t \in S /\ Main \in S /\ \A c \in S : c \in 1 .. Len(P) /\ c <= t
  BY <1>1, <1>2 DEF t
<1>4. ASSUME NEW c \in S, c # Main PROVE \E i \in S : LastHas(P, i, c)
  <2> DEFINE K == {k \in 1 .. n : fs[k].on = c}
  <2>1. K \subseteq Nat /\ K # {}
    OBVIOUS
  <2>2. PICK k \in K : \A j \in K : k <= j
    <3> HIDE DEF K
    <3> QED
      BY ONLY <2>1, Least
  <2>3. k \in 1 .. n /\ fs[k].on = c /\ k # 1
    BY <1>2, <1>4, <2>2
  <2>4. k \in 2 .. n /\ k - 1 \in 1 .. n /\ k - 1 < k
    BY <1>1, <2>3
  <2>5. fs[k - 1].on # c
    <3>1. ASSUME fs[k - 1].on = c PROVE FALSE
      <4>1. k - 1 \in K
        BY <2>4, <3>1
      <4>2. k <= k - 1
        BY <2>2, <4>1
      <4> QED
        BY <2>4, <4>2
    <3> QED
      BY <3>1
  <2>6. LastHas(P, fs[k - 1].on, c)
    BY <1>2, <2>3, <2>4, <2>5
  <2> QED
    BY <2>4, <2>6
<1>5. ASSUME NEW i \in S, i # t PROVE \E c \in S : LastHas(P, i, c)
  <2> DEFINE K == {k \in 1 .. n : fs[k].on = i}
  <2>1. K \subseteq 1 .. n /\ K # {} /\ n \in Nat
    BY <1>1
  <2>2. PICK k \in K : k \in 1 .. n /\ \A j \in k + 1 .. n : j \notin K
    <3> HIDE DEF K
    <3> QED
      BY ONLY <2>1, Greatest
  <2>3. fs[k].on = i /\ k # n
    BY <1>5, <2>2 DEF t
  <2>4. k + 1 \in 2 .. n /\ k + 1 \in 1 .. n /\ k + 1 - 1 = k /\ k + 1 \in k + 1 .. n
    BY <1>1, <2>2, <2>3
  <2>5. fs[k + 1].on # i
    BY <2>2, <2>4
  <2>6. LastHas(P, i, fs[k + 1].on)
    <3>1. \E l \in 2 .. n : l = k + 1 /\ l - 1 = k
      BY ONLY <2>4
    <3>2. PICK l \in 2 .. n : l = k + 1 /\ l - 1 = k
      BY ONLY <3>1
    <3>3. fs[l].on = fs[l - 1].on \/ LastHas(P, fs[l - 1].on, fs[l].on)
      BY ONLY <1>2, <3>2
    <3> QED
      BY ONLY <2>3, <2>5, <3>2, <3>3
  <2> QED
    BY <2>4, <2>6
<1> QED
  BY <1>3, <1>4, <1>5 DEF Spine, n, t

\* A pipe added to the innermost leaves the plumbings being parsed in line.
LEMMA LinedGrows ==
  ASSUME NEW P \in Seq(Plumbings), Tree(P), NEW fs, Len(fs) \in Nat \ {0}, fs # <<>>, Lined(fs, P),
         NEW Q, NEW x, Grows(P, Q, fs[Len(fs)].on, x),
         NEW gs, Len(gs) = Len(fs), \A k \in 1 .. Len(fs) : gs[k].on = fs[k].on
  PROVE  Lined(gs, Q)
<1> DEFINE n == Len(fs)
           t == fs[n].on
<1>1. /\ n \in Nat \ {0} /\ 1 \in 1 .. n /\ n \in 1 .. n
      /\ \A k \in 2 .. n : k \in 1 .. n /\ k - 1 \in 1 .. n /\ k - 1 \in 1 .. k
  OBVIOUS
<1>2. /\ fs[1].on = Main
      /\ \A k \in 1 .. n : fs[k].on \in 1 .. Len(P) /\ fs[k].on <= t
      /\ \A k \in 2 .. n : fs[k].on = fs[k - 1].on \/ LastHas(P, fs[k - 1].on, fs[k].on)
      /\ \A k \in 1 .. n : \A j \in 1 .. k : fs[j].on <= fs[k].on
  BY <1>1 DEF Lined
<1>3. /\ Len(P) \in Nat /\ \A i \in 1 .. Len(P) : /\ i \in 1 .. Len(Q) /\ Len(P[i].pipes) \in Nat
                                                  /\ i # t => Q[i].pipes = P[i].pipes
  BY GrowsIs
<1>4. Len(gs) = n /\ \A k \in 1 .. n : gs[k].on = fs[k].on
  OBVIOUS
<1> HIDE DEF n, t
<1>5. ASSUME NEW k \in 2 .. n
      PROVE  gs[k].on = gs[k - 1].on \/ LastHas(Q, gs[k - 1].on, gs[k].on)
  <2>1. k \in 1 .. n /\ k - 1 \in 1 .. n
    BY <1>1
  <2> DEFINE a == fs[k - 1].on
             c == fs[k].on
  <2>2. gs[k].on = c /\ gs[k - 1].on = a
    BY <1>4, <2>1
  <2>3. a \in 1 .. Len(P) /\ c \in 1 .. Len(P) /\ c <= t /\ (a = c \/ LastHas(P, a, c))
    BY <1>2, <2>1
  <2>4. ASSUME LastHas(P, a, c) PROVE LastHas(Q, a, c)
    <3> DEFINE m == Len(P[a].pipes)
    <3>1. m # 0 /\ P[a].pipes[m].d = c
      BY <2>4 DEF LastHas
    <3>2. m \in 1 .. m
      <4>1. m \in Nat
        BY ONLY <1>3, <2>3
      <4> HIDE DEF m
      <4> QED
        BY ONLY <3>1, <4>1
    <3>3. c \in {0} \union a + 1 .. Len(P)
      BY <2>3, <3>1, <3>2 DEF Tree
    <3> HIDE DEF a, c
    <3>4. a < c
      BY ONLY <1>3, <2>3, <3>3
    <3>5. t \in 1 .. Len(P)
      BY <1>1, <1>2 DEF t
    <3>6. a # t
      BY ONLY <1>3, <2>3, <3>4, <3>5
    <3>7. Q[a].pipes = P[a].pipes
      BY ONLY <1>3, <2>3, <3>6
    <3> QED
      BY ONLY <2>4, <3>7 DEF LastHas
  <2> HIDE DEF a, c
  <2> QED
    BY ONLY <2>2, <2>3, <2>4
<1>6. \A k \in 1 .. n : \A j \in 1 .. k : gs[j].on <= gs[k].on
  <2>1. \A k \in 1 .. n : \A j \in 1 .. k : j \in 1 .. n
    BY <1>1
  <2> QED
    BY ONLY <1>2, <1>4, <2>1
<1>7. \A k \in 1 .. n : gs[k].on \in 1 .. Len(Q)
  BY ONLY <1>2, <1>3, <1>4
<1>8. gs[1].on = Main
  BY ONLY <1>1, <1>2, <1>4
<1> QED
  BY ONLY <1>4, <1>5, <1>6, <1>7, <1>8 DEF Lined

\* A call more is in the same plumbing, or in the one just made.
LEMMA LinedCall ==
  ASSUME NEW P, NEW fs \in Seq(Frames), fs # <<>>, Lined(fs, P), NEW f \in Frames,
         f.on = fs[Len(fs)].on
         \/ (f.on \in 1 .. Len(P) /\ fs[Len(fs)].on <= f.on /\ LastHas(P, fs[Len(fs)].on, f.on))
  PROVE  Lined(Append(fs, f), P)
<1> DEFINE n == Len(fs)
           t == fs[n].on
           gs == Append(fs, f)
<1>1. n \in Nat \ {0}
  BY EmptySeq
<1>2. /\ Len(gs) = n + 1 /\ gs[n + 1] = f /\ \A k \in 1 .. n : gs[k] = fs[k]
  BY AppendProperties
<1>3. /\ fs[1].on = Main
      /\ \A k \in 1 .. n : fs[k].on \in 1 .. Len(P)
      /\ \A k \in 2 .. n : fs[k].on = fs[k - 1].on \/ LastHas(P, fs[k - 1].on, fs[k].on)
      /\ \A k \in 1 .. n : \A j \in 1 .. k : fs[j].on <= fs[k].on
  BY DEF Lined
<1>4. f.on = t \/ (f.on \in 1 .. Len(P) /\ t <= f.on /\ LastHas(P, t, f.on))
  OBVIOUS
<1> HIDE DEF gs
<1>5. /\ n \in 1 .. n /\ 1 \in 1 .. n
      /\ \A k \in 1 .. n + 1 : k = n + 1 \/ k \in 1 .. n
      /\ \A k \in 2 .. n + 1 : (k = n + 1 \/ k \in 2 .. n) /\ k - 1 \in 1 .. n
  BY ONLY <1>1
<1>6. t \in 1 .. Len(P) /\ f.on \in 1 .. Len(P) /\ t <= f.on /\ t \in Nat /\ f.on \in Nat
  BY <1>3, <1>4, <1>5
<1>7. ASSUME NEW k \in 2 .. n + 1
      PROVE  gs[k].on = gs[k - 1].on \/ LastHas(P, gs[k - 1].on, gs[k].on)
  <2>1. CASE k \in 2 .. n
    <3>1. k \in 1 .. n /\ k - 1 \in 1 .. n
      BY <1>5, <2>1
    <3> QED
      BY <1>2, <1>3, <2>1, <3>1
  <2>2. CASE k = n + 1
    <3>1. k - 1 = n
      BY <1>1, <2>2
    <3>2. gs[k] = f /\ gs[k - 1].on = t
      BY <1>2, <1>5, <2>2, <3>1
    <3> QED
      BY ONLY <1>4, <3>2
  <2> QED
    BY <1>5, <2>1, <2>2
<1>8. ASSUME NEW k \in 1 .. n + 1, NEW j \in 1 .. k PROVE gs[j].on <= gs[k].on
  <2>1. CASE k \in 1 .. n
    <3>1. j \in 1 .. n
      BY <1>1, <2>1
    <3> QED
      BY <1>2, <1>3, <2>1, <3>1
  <2>2. CASE k = n + 1 /\ j = n + 1
    BY <1>2, <1>6, <2>2
  <2>3. CASE k = n + 1 /\ j # n + 1
    <3>1. j \in 1 .. n
      BY <1>1, <2>3
    <3>2. gs[j].on = fs[j].on /\ fs[j].on <= t /\ fs[j].on \in 1 .. Len(P)
      BY <1>2, <1>3, <1>5, <3>1
    <3>3. gs[k].on = f.on
      BY <1>2, <2>3
    <3> DEFINE a == fs[j].on
               b == f.on
    <3>4. a \in Nat /\ b \in Nat /\ t \in Nat /\ a <= t /\ t <= b
      BY <1>6, <3>2
    <3> HIDE DEF a, b, t
    <3>5. a <= b
      BY ONLY <3>4
    <3> QED
      BY ONLY <3>2, <3>3, <3>5 DEF a, b
  <2> QED
    BY <1>5, <2>1, <2>2, <2>3
<1>9. \A k \in 1 .. n + 1 : gs[k].on \in 1 .. Len(P)
  BY <1>2, <1>3, <1>5, <1>6
<1>10. gs[1].on = Main
  BY <1>2, <1>3, <1>5
<1> HIDE DEF n
<1> QED
  BY ONLY <1>2, <1>7, <1>8, <1>9, <1>10 DEF Lined, gs

\* A call less leaves the others as they are.
LEMMA LinedReturn ==
  ASSUME NEW P, NEW fs \in Seq(Frames), fs # <<>>, Lined(fs, P)
  PROVE  Lined(Front(fs), P)
<1> DEFINE n == Len(fs)
           gs == Front(fs)
<1>1. /\ Len(gs) = n - 1 /\ n \in Nat \ {0} /\ (gs = <<>> <=> n = 1)
      /\ \A k \in 1 .. n - 1 : gs[k] = fs[k]
  BY Popping
<1>2. /\ fs[1].on = Main
      /\ \A k \in 1 .. n : fs[k].on \in 1 .. Len(P)
      /\ \A k \in 2 .. n : fs[k].on = fs[k - 1].on \/ LastHas(P, fs[k - 1].on, fs[k].on)
      /\ \A k \in 1 .. n : \A j \in 1 .. k : fs[j].on <= fs[k].on
  BY DEF Lined
<1> HIDE DEF n, gs
<1>3. /\ n # 1 => 1 \in 1 .. n - 1
      /\ \A k \in 1 .. n - 1 : k \in 1 .. n /\ \A j \in 1 .. k : j \in 1 .. n - 1
      /\ \A k \in 2 .. n - 1 : k \in 2 .. n /\ k \in 1 .. n - 1 /\ k - 1 \in 1 .. n - 1
  BY ONLY <1>1
<1>4. \A k \in 2 .. n - 1 : gs[k].on = gs[k - 1].on \/ LastHas(P, gs[k - 1].on, gs[k].on)
  <2> TAKE k \in 2 .. n - 1
  <2>1. gs[k] = fs[k] /\ gs[k - 1] = fs[k - 1] /\ k \in 2 .. n
    BY ONLY <1>1, <1>3
  <2> QED
    BY ONLY <1>2, <2>1
<1>5. \A k \in 1 .. n - 1 : \A j \in 1 .. k : gs[j].on <= gs[k].on
  <2> TAKE k \in 1 .. n - 1
  <2> TAKE j \in 1 .. k
  <2>1. gs[k] = fs[k] /\ gs[j] = fs[j] /\ k \in 1 .. n
    BY ONLY <1>1, <1>3
  <2> QED
    BY ONLY <1>2, <2>1
<1>6. \A k \in 1 .. n - 1 : gs[k].on \in 1 .. Len(P)
  BY ONLY <1>1, <1>2, <1>3
<1>7. gs # <<>> => gs[1].on = Main
  BY ONLY <1>1, <1>2, <1>3
<1> QED
  BY ONLY <1>1, <1>4, <1>5, <1>6, <1>7 DEF Lined, gs

\* What a token that is not refused adds: the pipe x, which did to the stack
\* what it does in CREATE, and perhaps a call to parse what it names.
Reads(x) ==
  /\ x \in Pipes /\ Grows(plumbings, plumbings', tmp, x)
  /\ stack' = Does(PLUMBER_CREATE, x, stack)
  /\ \/ Alike(frames, frames')
     \/ \E f \in Frames : /\ frames' = Append(Taken, f)
                          /\ f.on = tmp \/ (f.on = x.d /\ x.d # 0)

Accepted == LexValue \/ sporth_eval \/ sporth_load \/ sporth_render \/ \E u \in DOMAIN Sig : Lex(u)

\* A token that is accepted adds one pipe, at the end of the innermost.
LEMMA TokenReads ==
  ASSUME NestedInv, Accepted
  PROVE  \E x : Reads(x)
<1>1. Parsing
  BY DEF Accepted, LexValue, Lex, sporth_eval, sporth_load, sporth_render, Word
<1>2. host = "parse" /\ frames # <<>> /\ ~err /\ Top.todo # <<>>
  BY <1>1 DEF Parsing
<1>3. Len(plumbings) \in Nat \ {0} /\ tmp \in 1 .. Len(plumbings)
  BY <1>2, InParse
<1>4. /\ plumbings \in Seq(Plumbings) /\ frames \in Seq(Frames) /\ stack \in Stacks
      /\ ftmap \in 1 .. Len(plumbings) /\ fp \in 0 .. MaxOpen /\ opened \subseteq 1 .. MaxOpen
  BY DEF NestedInv, Shape
<1>5. Alike(frames, Taken) /\ Token \in Tokens
  BY <1>2, <1>4, TakenAlike DEF Token
<1>6. ASSUME NEW x \in Pipes, x.d = 0
      PROVE  /\ Grows(plumbings, WithPipe(plumbings, tmp, x), tmp, x)
             /\ Len(WithPipe(plumbings, tmp, x)) = Len(plumbings)
  BY ONLY <1>3, <1>4, <1>6, PipeAdded
<1>7. CASE LexValue
  <2> DEFINE x == [type |-> Token.type, ud |-> Token.ud, d |-> 0]
  <2>1. Token.type # "func"
    BY <1>7 DEF LexValue
  <2>2. x \in Pipes /\ x.d = 0 /\ x.type # "ugen" /\ x.ud = Token.ud
    BY <1>5, <2>1 DEF Tokens, Pipes
  <2>3. /\ plumbings' = WithPipe(plumbings, tmp, x) /\ stack' = Push(stack, x.ud) /\ frames' = Taken
    <3>1. tmp = Top.on
      BY <1>2, InParse
    <3> QED
      BY <1>7, <3>1 DEF LexValue, AddPipe, WithPipe
  <2> HIDE DEF x
  <2>4. stack' = Does(PLUMBER_CREATE, x, stack)
    BY ONLY <2>2, <2>3 DEF Does, PLUMBER_CREATE, PLUMBER_COMPUTE
  <2>5. Grows(plumbings, plumbings', tmp, x)
    BY ONLY <1>6, <2>2, <2>3
  <2>6. Reads(x)
    BY ONLY <1>5, <2>2, <2>3, <2>4, <2>5 DEF Reads
  <2> QED
    BY ONLY <2>6
<1>8. ASSUME NEW u \in DOMAIN Sig, Lex(u) PROVE \E x : Reads(x)
  <2> DEFINE x == [type |-> "ugen", ud |-> u, d |-> 0]
             R == WithPipe(plumbings, tmp, x)
             e == Sig[u].create
  <2>1. x \in Pipes /\ x.d = 0 /\ x.type = "ugen" /\ x.ud = u
    BY DEF Pipes
  <2>2. Grows(plumbings, R, tmp, x) /\ Len(R) = Len(plumbings)
    BY ONLY <1>6, <2>1
  <2>3. Sig[u] \in Signatures /\ Even(Sig[u]) /\ Lettered(Sig[u])
    BY NestedAssumption
  <2>4. sporth_check_args(stack, Sig[u].args)
    BY <1>8 DEF Lex
  <2>5. ~stack.error /\ Supplied(e, stack) /\ e \in Effects
    BY <1>4, <2>3, <2>4, ChecksFit
  <2>6. Added(e, stack) \in Seq(Entries)
    BY ONLY <1>4, <2>5, AddedType
  <2>7. plumbings' = WithEntries(R, ftmap, Added(e, stack))
    BY <1>8 DEF Lex, AddPipe, WithPipe, WithEntries
  <2>8. stack' = Apply(e, stack) /\ frames' = Taken
    BY <1>8 DEF Lex
  <2>9. stack' = Does(PLUMBER_CREATE, x, stack)
    <3>1. Effect(PLUMBER_CREATE, u) = e
      BY DEF Effect
    <3> QED
      BY <2>1, <2>8, <3>1 DEF Does
  <2> HIDE DEF R, x, e
  <2>10. Grows(plumbings, plumbings', tmp, x)
    BY ONLY <1>4, <2>2, <2>6, <2>7, EntriesAdded
  <2>11. Reads(x)
    BY ONLY <1>5, <2>1, <2>8, <2>9, <2>10 DEF Reads
  <2> QED
    BY ONLY <2>11
<1>9. ASSUME NEW u \in Nesting, NEW x \in Pipes, x.type = "ugen", x.ud = u, stack' = Pop(stack, "s")
      PROVE  stack' = Does(PLUMBER_CREATE, x, stack)
  <2>1. u \notin DOMAIN Sig
    BY NestedAssumption
  <2> QED
    BY <1>9, <2>1 DEF Does, PLUMBER_CREATE, PLUMBER_COMPUTE
<1>10. NoCall \in Frames
  BY EmptySeq DEF NoCall, Frames, Spots, Main, NoFile
<1>11. Given => Argument \in Strings /\ (CanOpen => Handle \in 1 .. MaxOpen /\ Handle \notin opened)
  BY <1>4, ArgumentType
<1>12. /\ Given => Codes[Argument] \in Seq(Tokens)
       /\ Given /\ CanOpen => Files[Argument] \in Seq(Tokens)
  BY <1>11, NestedAssumption DEF CanOpen
<1>13. MaxOpen \in Nat
  BY NestedAssumption
<1>14. CASE sporth_eval
  <2> DEFINE y == [type |-> "ugen", ud |-> "eval", d |-> 0]
             f == [NoCall EXCEPT !.by = "eval", !.on = tmp, !.todo = Codes[Argument], !.tmp = tmp]
  <2>1. y \in Pipes /\ y.d = 0 /\ y.type = "ugen" /\ y.ud = "eval"
    BY DEF Pipes
  <2>2. /\ plumbings' = WithPipe(plumbings, tmp, y) /\ frames' = Append(Taken, f)
        /\ stack' = Pop(stack, "s") /\ Given
    BY <1>14 DEF sporth_eval, AddPipe, WithPipe
  <2>3. f \in Frames /\ f.on = tmp
    <3>1. tmp \in Nat /\ Codes[Argument] \in Seq(Tokens)
      BY <1>3, <1>12, <2>2
    <3> QED
      BY <1>10, <3>1 DEF Frames, Nesting
  <2> HIDE DEF y, f
  <2>4. stack' = Does(PLUMBER_CREATE, y, stack)
    BY <1>9, <2>1, <2>2 DEF Nesting
  <2>5. Grows(plumbings, plumbings', tmp, y)
    BY ONLY <1>6, <2>1, <2>2
  <2>6. Reads(y)
    BY ONLY <2>1, <2>2, <2>3, <2>4, <2>5 DEF Reads
  <2> QED
    BY ONLY <2>6
<1>15. CASE sporth_load
  <2> DEFINE y == [type |-> "ugen", ud |-> "load", d |-> 0]
             f == [NoCall EXCEPT !.by = "load", !.on = tmp, !.todo = Files[Argument],
                                 !.own = Handle, !.tmp = tmp, !.fp = fp]
  <2>1. y \in Pipes /\ y.d = 0 /\ y.type = "ugen" /\ y.ud = "load"
    BY DEF Pipes
  <2>2. /\ plumbings' = WithPipe(plumbings, tmp, y) /\ frames' = Append(Taken, f)
        /\ stack' = Pop(stack, "s") /\ Given /\ CanOpen
    BY <1>15 DEF sporth_load, AddPipe, WithPipe
  <2>3. f \in Frames /\ f.on = tmp
    <3>1. Handle \in Nat /\ tmp \in Nat /\ fp \in Nat /\ Files[Argument] \in Seq(Tokens)
      BY <1>3, <1>4, <1>11, <1>12, <1>13, <2>2
    <3> QED
      BY <1>10, <3>1 DEF Frames, Nesting
  <2> HIDE DEF y, f
  <2>4. stack' = Does(PLUMBER_CREATE, y, stack)
    BY <1>9, <2>1, <2>2 DEF Nesting
  <2>5. Grows(plumbings, plumbings', tmp, y)
    BY ONLY <1>6, <2>1, <2>2
  <2>6. Reads(y)
    BY ONLY <2>1, <2>2, <2>3, <2>4, <2>5 DEF Reads
  <2> QED
    BY ONLY <2>6
<1>16. CASE sporth_render
  <2> DEFINE d == Len(plumbings) + 1
             y == [type |-> "ugen", ud |-> "render", d |-> d]
             f == [NoCall EXCEPT !.by = "render", !.on = d, !.todo = Files[Argument],
                                 !.own = Handle, !.tmp = tmp, !.fp = fp, !.ftmap = ftmap]
  <2>1. y \in Pipes /\ y.d = d /\ y.type = "ugen" /\ y.ud = "render"
    BY <1>3 DEF Pipes
  <2>2. /\ plumbings' = Append(WithPipe(plumbings, tmp, y), plumbing_init) /\ frames' = Append(Taken, f)
        /\ stack' = Pop(stack, "s") /\ Given /\ CanOpen
    BY <1>16 DEF sporth_render, AddPipe, WithPipe
  <2>3. f \in Frames /\ f.on = d
    <3>1. /\ Handle \in Nat /\ tmp \in Nat /\ fp \in Nat /\ Files[Argument] \in Seq(Tokens)
          /\ ftmap \in Nat /\ d \in Nat
      BY <1>3, <1>4, <1>11, <1>12, <1>13, <2>2
    <3> HIDE DEF d
    <3> QED
      BY <1>10, <3>1 DEF Frames, Nesting
  <2>4. d # 0 /\ d = Len(plumbings) + 1
    BY <1>3
  <2> HIDE DEF y, f, d
  <2>5. stack' = Does(PLUMBER_CREATE, y, stack)
    BY <1>9, <2>1, <2>2 DEF Nesting
  <2>6. plumbing_init \in Plumbings /\ plumbing_init.pipes = <<>> /\ plumbing_init.freed = FALSE
    BY EmptySeq DEF plumbing_init, Plumbings
  <2>7. Grows(plumbings, plumbings', tmp, y)
    <3>1. y \in Pipes /\ y.d = Len(plumbings) + 1
      BY <2>1, <2>4
    <3> DEFINE Q == Append(WithPipe(plumbings, tmp, y), plumbing_init)
    <3>2. Grows(plumbings, Q, tmp, y)
      BY ONLY <1>3, <1>4, <2>6, <3>1, PlumbingAdded
    <3> QED
      BY ONLY <2>2, <3>2
  <2>8. Reads(y)
    <3>1. f.on = y.d /\ y.d # 0
      BY <2>1, <2>3, <2>4
    <3> QED
      BY ONLY <2>1, <2>2, <2>3, <2>5, <2>7, <3>1 DEF Reads
  <2> QED
    BY ONLY <2>8
<1> QED
  BY <1>7, <1>8, <1>14, <1>15, <1>16 DEF Accepted
---------------------------------------------------------------------------
(* What a sample leaves.                                                   *)

\* The parse left as much as the host takes off after a sample, and INIT,
\* that runs on top of it, has room to do the same again.
Due == left = [vals |-> [c \in 1 .. nchan |-> FLOAT], error |-> FALSE]

Roomy ==
  \A T : Ran(PLUMBER_CREATE, plumbings, Walk(plumbings, Main), sporth_stack_init, T) =>
    \A k \in 0 .. Len(Walk(plumbings, Main)) :
      Len(left.vals) + Len(T[k].vals) <= SPORTH_STACK_SIZE

\* The pipes lead where a parse is, or was when it was over.
Parsed(P, fs, st) ==
  /\ Single(P) /\ Lined(fs, P)
  /\ ~st.error => Leads(PLUMBER_CREATE, P, Walk(P, Main), sporth_stack_init, st)

Playing == {PLUMBER_INIT, "idle", PLUMBER_COMPUTE}

Kept(P, e, st) ==
  /\ ~e /\ st \in Stacks
  /\ ~st.error => Leads(PLUMBER_CREATE, P, Walk(P, Main), sporth_stack_init, st)

Replays ==
  /\ host = "parse" /\ ~err => Parsed(plumbings, frames, stack)
  /\ host \in Playing => Kept(plumbings, err, left)
  /\ host = PLUMBER_INIT => Leads(PLUMBER_INIT, plumbings, visited, left, stack)
  /\ host = "idle" /\ Due /\ Roomy => stack = sporth_stack_init
  /\ host = PLUMBER_COMPUTE /\ Due /\ Roomy =>
       Leads(PLUMBER_COMPUTE, plumbings, visited, sporth_stack_init, stack)

\* Before the first token nothing was done.
LEMMA ReplaysFirst == ASSUME Init PROVE Replays
<1> DEFINE P == plumbings
           x == [NoCall EXCEPT !.todo = program, !.own = fp]
<1>1. NestedInv
  BY Initially
<1>2. /\ P = <<plumbing_init>> /\ frames = <<x>> /\ host = "parse" /\ stack = sporth_stack_init
  BY DEF Init
<1>3. P \in Seq(Plumbings) /\ Tree(P)
  BY <1>1 DEF NestedInv, Shape
<1>4. plumbing_init.pipes = <<>> /\ x.on = Main /\ Main = 1
  BY DEF plumbing_init, NoCall, Main
<1> HIDE DEF x
<1>5. /\ Len(P) = 1 /\ P[1].pipes = <<>> /\ 1 .. 1 = {1} /\ 1 .. 0 = {} /\ 2 .. 1 = {} /\ Len(<<>>) = 0
      /\ Len(frames) = 1 /\ frames[1] = x
  BY <1>2, <1>4
<1>6. Walk(P, Main) = <<>>
  <2>1. Main \in 1 .. Len(P) /\ P[Main].pipes = <<>>
    BY <1>4, <1>5
  <2> QED
    BY ONLY <1>3, <2>1, WalkEmpty
<1>7. Single(P)
  BY ONLY <1>5 DEF Single
<1>8. Lined(frames, P)
  <2>1. 1 <= 1
    OBVIOUS
  <2> QED
    BY ONLY <1>4, <1>5, <2>1 DEF Lined
<1>9. Leads(PLUMBER_CREATE, P, Walk(P, Main), sporth_stack_init, stack)
  BY ONLY <1>2, <1>6, InitStackType, LeadsNowhere
<1>10. Parsed(P, frames, stack)
  BY ONLY <1>7, <1>8, <1>9 DEF Parsed
<1> QED
  BY ONLY <1>2, <1>10 DEF Replays, Playing, PLUMBER_INIT, PLUMBER_COMPUTE

\* A parse that goes on.
LEMMA ParseReplays ==
  ASSUME host' = "parse", ~err' => Parsed(plumbings', frames', stack')
  PROVE  Replays'
  BY DEF Replays, Playing, PLUMBER_INIT, PLUMBER_COMPUTE

\* A token adds to the walk the pipe that did to the stack what it does.
LEMMA ReadingReplays ==
  ASSUME NestedInv, NestedInv', Replays, Accepted
  PROVE  Replays'
<1> DEFINE P == plumbings
           Q == plumbings'
           t == tmp
           n == Len(frames)
           S == {frames[k].on : k \in 1 .. n}
           s == <<t, Len(P[t].pipes) + 1>>
<1>1. host = "parse" /\ frames # <<>> /\ ~err /\ Top.todo # <<>>
  BY DEF Accepted, LexValue, Lex, sporth_eval, sporth_load, sporth_render, Word, Parsing
<1>2. host' = host /\ err' = err
  BY DEF Accepted, LexValue, Lex, sporth_eval, sporth_load, sporth_render
<1>3. n \in Nat \ {0} /\ t \in 1 .. Len(P) /\ t = Top.on /\ Top = frames[n] /\ Len(P) \in Nat \ {0}
  BY <1>1, InParse
<1>4. P \in Seq(Plumbings) /\ Tree(P) /\ frames \in Seq(Frames) /\ stack \in Stacks
  BY DEF NestedInv, Shape
<1>5. Q \in Seq(Plumbings) /\ Tree(Q) /\ frames' \in Seq(Frames) /\ stack' \in Stacks
  BY DEF NestedInv, Shape
<1>6. Parsed(P, frames, stack)
  BY <1>1 DEF Replays
<1>7. Single(P) /\ Lined(frames, P)
  BY <1>6 DEF Parsed
<1>8. PICK x : Reads(x)
  BY TokenReads
<1>9. Grows(P, Q, t, x) /\ stack' = Does(PLUMBER_CREATE, x, stack)
  BY <1>8 DEF Reads
<1>10. Alike(frames, Taken)
  BY <1>1, <1>4, TakenAlike
<1>11. frames[n].on = t
  BY <1>3
<1> HIDE DEF P, Q, t, n, S, s
<1>12. Single(Q)
  BY ONLY <1>4, <1>7, <1>9, SingleGrows
<1>13. ASSUME NEW gs, Alike(frames, gs) PROVE Lined(gs, Q) /\ gs \in Seq(Frames) /\ gs # <<>> /\ gs[Len(gs)].on = t
  <2>1. /\ gs \in Seq(Frames) /\ Len(gs) = n /\ \A k \in 1 .. n : gs[k].on = frames[k].on
    BY <1>13 DEF Alike, n
  <2>2. gs # <<>> /\ n \in 1 .. n
    BY ONLY <1>3, <2>1, EmptySeq
  <2>3. gs[Len(gs)].on = t
    BY ONLY <1>11, <2>1, <2>2
  <2>4. Grows(P, Q, frames[Len(frames)].on, x) /\ Len(frames) = n
    BY <1>9, <1>11 DEF n
  <2>5. Lined(gs, Q)
    BY ONLY <1>1, <1>3, <1>4, <1>7, <2>1, <2>4, LinedGrows
  <2> QED
    BY ONLY <2>1, <2>2, <2>3, <2>5
<1>14. Lined(frames', Q)
  <2>1. CASE Alike(frames, frames')
    BY <1>13, <2>1
  <2>2. ASSUME NEW f \in Frames, frames' = Append(Taken, f), f.on = t \/ (f.on = x.d /\ x.d # 0)
        PROVE  Lined(frames', Q)
    <3> DEFINE fs == Taken
    <3>1. Lined(fs, Q) /\ fs \in Seq(Frames) /\ fs # <<>> /\ fs[Len(fs)].on = t
      BY <1>10, <1>13
    <3> HIDE DEF fs
    <3>2. ASSUME f.on = x.d, x.d # 0 PROVE f.on \in 1 .. Len(Q) /\ t <= f.on /\ LastHas(Q, t, f.on)
      <4>1. x.d = Len(Q) /\ Len(Q) = Len(P) + 1
        BY ONLY <1>9, <3>2 DEF Grows
      <4>2. f.on \in 1 .. Len(Q) /\ t <= f.on
        BY ONLY <1>3, <3>2, <4>1 DEF P, t
      <4> DEFINE m == Len(P[t].pipes)
      <4>3. Len(Q[t].pipes) = m + 1 /\ Q[t].pipes[m + 1] = x /\ m \in Nat
        <5>1. t \in 1 .. Len(P)
          BY <1>3 DEF P, t
        <5> QED
          BY ONLY <1>4, <1>9, <5>1, GrowsIs
      <4> HIDE DEF m
      <4>4. m + 1 # 0
        BY ONLY <4>3
      <4>5. LastHas(Q, t, f.on)
        BY ONLY <3>2, <4>3, <4>4 DEF LastHas
      <4> QED
        BY ONLY <4>2, <4>5
    <3>5. f.on = t \/ (f.on \in 1 .. Len(Q) /\ t <= f.on /\ LastHas(Q, t, f.on))
      BY ONLY <2>2, <3>2
    <3>3. f.on = fs[Len(fs)].on
          \/ (f.on \in 1 .. Len(Q) /\ fs[Len(fs)].on <= f.on /\ LastHas(Q, fs[Len(fs)].on, f.on))
      BY ONLY <3>1, <3>5
    <3>4. Lined(Append(fs, f), Q)
      BY ONLY <3>1, <3>3, f \in Frames, LinedCall
    <3> QED
      BY <2>2, <3>4 DEF fs
  <2> QED
    BY <1>8, <2>1, <2>2 DEF Reads, t
<1>15. ASSUME ~stack'.error
       PROVE  Leads(PLUMBER_CREATE, Q, Walk(Q, Main), sporth_stack_init, stack')
  <2>1. ~stack.error
    BY <1>9, <1>15, ErrorStays
  <2>2. Leads(PLUMBER_CREATE, P, Walk(P, Main), sporth_stack_init, stack)
    BY <1>6, <2>1 DEF Parsed
  <2>3. Spine(P, S, t)
    BY ONLY <1>1, <1>3, <1>7, <1>11, SpineOf DEF n, S
  <2>4. Walk(Q, Main) = Append(Walk(P, Main), s)
    BY ONLY <1>4, <1>5, <1>7, <1>9, <2>3, WalkGrows DEF s
  <2>5. Extends(P, Q) /\ s \in Spots /\ IsSpot(Q, s) /\ PipeAt(Q, s) = x
    BY ONLY <1>4, <1>9, SpotsGrow DEF s
  <2>6. Main \in 1 .. Len(P)
    BY <1>3 DEF Main, P
  <2>7. Walk(P, Main) \in Seq(Spots)
    BY ONLY <1>4, <2>6, WalkIs
  <2>8. stack' = Does(PLUMBER_CREATE, PipeAt(Q, s), stack)
    BY ONLY <1>9, <2>5
  <2>9. Leads(PLUMBER_CREATE, Q, Append(Walk(P, Main), s), sporth_stack_init, stack')
    BY ONLY <1>5, <2>2, <2>5, <2>7, <2>8, LeadsOn
  <2> QED
    BY ONLY <2>4, <2>9
<1>16. Parsed(Q, frames', stack')
  BY ONLY <1>12, <1>14, <1>15 DEF Parsed
<1> QED
  BY <1>1, <1>2, <1>16, ParseReplays DEF Q

\* What is refused ends the parse, and what returns leaves all as it is.
LEMMA EndingReplays ==
  ASSUME NestedInv, Replays, NotNested \/ Return \/ \E u \in DOMAIN Sig : LexRefused(u)
  PROVE  Replays'
<1>1. CASE NotNested \/ \E u \in DOMAIN Sig : LexRefused(u)
  <2>1. err' /\ host' = host /\ host = "parse"
    BY <1>1 DEF NotNested, LexRefused, Refused, Word, Parsing
  <2> QED
    BY <2>1, ParseReplays
<1>2. CASE Return
  <2>1. /\ host = "parse" /\ host' = host /\ frames # <<>> /\ frames' = Front(frames)
        /\ plumbings' = plumbings /\ (~err' => ~err /\ stack' = stack)
    BY <1>2 DEF Return
  <2>2. frames \in Seq(Frames)
    BY DEF NestedInv, Shape
  <2>3. ASSUME ~err' PROVE Parsed(plumbings', frames', stack')
    <3>1. Parsed(plumbings, frames, stack) /\ stack' = stack
      BY <2>1, <2>3 DEF Replays
    <3>2. Lined(Front(frames), plumbings)
      BY <2>1, <2>2, <3>1, LinedReturn DEF Parsed
    <3> QED
      BY ONLY <2>1, <3>1, <3>2 DEF Parsed
  <2> QED
    BY <2>1, <2>3, ParseReplays
<1> QED
  BY <1>1, <1>2

\* The stack is what it was in the parse; whether INIT has room too depends on
\* no more than what stays.
LEMMA StaysSo ==
  ASSUME UNCHANGED <<plumbings, left>>
  PROVE  (Due' <=> Due) /\ (Roomy' <=> Roomy)
  BY DEF Due, Roomy

\* A pass goes on.
LEMMA VisitReplays ==
  ASSUME NestedInv, NestedInv', Replays, InPass, visited' = Append(visited, Top.pipe),
         UNCHANGED <<plumbings, left, err, host>>,
         host \in {PLUMBER_INIT, PLUMBER_COMPUTE} => stack' = Does(host, Pipe, stack)
  PROVE  Replays'
<1> DEFINE P == plumbings
           s == Top.pipe
<1>1. host \in Modes /\ Pipe = P[Top.on].pipes[Top.n] /\ Top.n \in 1 .. Len(P[Top.on].pipes)
  BY AtPipe
<1>2. Top.on \in 1 .. Len(P) /\ s = <<Top.on, Top.n>> /\ Top.on \in Nat /\ Top.n \in Nat
  BY <1>1, InAPass
<1>3. s \in Spots
  BY <1>2 DEF Spots
<1>4. IsSpot(P, s) /\ PipeAt(P, s) = Pipe
  <2>1. s[1] = Top.on /\ s[2] = Top.n
    BY <1>2
  <2> QED
    BY ONLY <1>1, <1>2, <2>1 DEF IsSpot, PipeAt
<1>5. Extends(P, P)
  BY DEF Extends
<1>6. visited \in Seq(Spots) /\ stack' \in Stacks
  BY DEF NestedInv, Shape
<1> DEFINE x == Pipe
<1>7. PipeAt(P, s) = x
  BY <1>4
<1>8. P' = P /\ visited' = Append(visited, s)
  OBVIOUS
<1> HIDE DEF P, s, x
<1>9. ASSUME NEW m, NEW a, Leads(m, P, visited, a, stack), stack' = Does(m, x, stack)
      PROVE  Leads(m, P', visited', a, stack')
  <2>1. stack' = Does(m, PipeAt(P, s), stack)
    BY ONLY <1>7, <1>9
  <2>2. Leads(m, P, Append(visited, s), a, stack')
    BY ONLY <1>3, <1>4, <1>5, <1>6, <1>9, <2>1, LeadsOn
  <2> QED
    BY ONLY <1>8, <2>2
<1>10. host \notin {"parse", "idle"}
  BY <1>1 DEF Modes, PLUMBER_CREATE, PLUMBER_INIT, PLUMBER_COMPUTE, PLUMBER_DESTROY
<1>11. host = PLUMBER_INIT => Leads(PLUMBER_INIT, P', visited', left', stack')
  <2>1. host = PLUMBER_INIT => Leads(PLUMBER_INIT, P, visited, left, stack) /\ stack' = Does(PLUMBER_INIT, x, stack)
    BY DEF Replays, P, x
  <2>2. left' = left
    OBVIOUS
  <2> QED
    BY ONLY <1>9, <2>1, <2>2
<1>12. host = PLUMBER_COMPUTE /\ Due /\ Roomy => Leads(PLUMBER_COMPUTE, P', visited', sporth_stack_init, stack')
  <2>1. host = PLUMBER_COMPUTE /\ Due /\ Roomy =>
          Leads(PLUMBER_COMPUTE, P, visited, sporth_stack_init, stack) /\ stack' = Does(PLUMBER_COMPUTE, x, stack)
    BY DEF Replays, P, x
  <2> QED
    BY ONLY <1>9, <2>1
<1>13. host \in Playing => Kept(P', err', left')
  BY <1>8 DEF Replays, P
<1>14. (Due' <=> Due) /\ (Roomy' <=> Roomy)
  BY StaysSo
<1>15. host' = host
  OBVIOUS
<1> QED
  BY ONLY <1>10, <1>11, <1>12, <1>13, <1>14, <1>15 DEF Replays, P

\* Every pipe does what it does in the mode of the pass.
LEMMA StepReplays ==
  ASSUME NestedInv, NestedInv', Replays, StepValue \/ StepUgen \/ StepInline \/ StepRender \/ StepUnset
  PROVE  Replays'
<1>1. InPass
  BY DEF StepValue, StepUgen, StepInline, StepRender, StepUnset, AtRender
<1>2. host \in Modes /\ Pipe \in Pipes
  BY <1>1, AtPipe
<1>3. mode = host
  BY <1>2, InAPass
<1>4. PLUMBER_INIT # PLUMBER_COMPUTE /\ PLUMBER_INIT # PLUMBER_CREATE /\ PLUMBER_CREATE # PLUMBER_COMPUTE
      /\ PLUMBER_DESTROY \notin {PLUMBER_INIT, PLUMBER_COMPUTE}
  BY DEF PLUMBER_CREATE, PLUMBER_INIT, PLUMBER_COMPUTE, PLUMBER_DESTROY
<1> DEFINE Onto == /\ visited' = Append(visited, Top.pipe) /\ UNCHANGED <<plumbings, left, err, host>>
                   /\ host \in {PLUMBER_INIT, PLUMBER_COMPUTE} => stack' = Does(host, Pipe, stack)
<1>5. Stepped => visited' = Append(visited, Top.pipe) /\ UNCHANGED <<plumbings, left, err, host>>
  BY DEF Stepped
<1>6. CASE StepValue
  <2>1. /\ Stepped /\ Pipe.type # "ugen"
        /\ stack' = IF mode = PLUMBER_INIT \/ (mode = PLUMBER_COMPUTE /\ Pipe.type = "float")
                    THEN Push(stack, Pipe.ud) ELSE stack
    BY <1>6 DEF StepValue
  <2>2. Onto
    BY ONLY <1>3, <1>4, <1>5, <2>1 DEF Does
  <2> QED
    BY <1>1, <2>2, VisitReplays
<1>7. CASE StepUgen
  <2>1. /\ Stepped /\ Pipe.type = "ugen" /\ Pipe.ud \in DOMAIN Sig
        /\ stack' = CASE mode = PLUMBER_INIT    -> Apply(Sig[Pipe.ud].init, stack)
                      [] mode = PLUMBER_COMPUTE -> Apply(Sig[Pipe.ud].compute, stack)
                      [] OTHER                  -> stack
    BY <1>7 DEF StepUgen
  <2>2. mode = PLUMBER_INIT => stack' = Apply(Sig[Pipe.ud].init, stack)
    BY ONLY <1>4, <2>1
  <2>3. mode = PLUMBER_COMPUTE => stack' = Apply(Sig[Pipe.ud].compute, stack)
    BY ONLY <1>4, <2>1
  <2>4. Onto
    BY ONLY <1>3, <1>4, <1>5, <2>1, <2>2, <2>3 DEF Does, Effect
  <2> QED
    BY <1>1, <2>4, VisitReplays
<1>8. Nesting \intersect DOMAIN Sig = {}
  BY NestedAssumption
<1>9. CASE StepInline
  <2>1. /\ Stepped /\ Pipe.type = "ugen" /\ Pipe.ud \in Nesting
        /\ stack' = IF mode = PLUMBER_INIT THEN Pop(stack, "s") ELSE stack
    BY <1>9 DEF StepInline, Nesting
  <2>2. Onto
    BY ONLY <1>3, <1>4, <1>5, <1>8, <2>1 DEF Does
  <2> QED
    BY <1>1, <2>2, VisitReplays
<1>10. CASE StepRender
  <2>1. /\ Pipe.type = "ugen" /\ Pipe.ud \in Nesting
        /\ visited' = Append(visited, Top.pipe) /\ UNCHANGED <<plumbings, left, err, host>>
        /\ stack' = CASE mode = PLUMBER_INIT    -> Pop(stack, "s")
                      [] mode = PLUMBER_DESTROY -> sporth_stack_init
                      [] OTHER                  -> stack
    BY <1>10 DEF StepRender, AtRender, Nesting
  <2>2. mode = PLUMBER_INIT => stack' = Pop(stack, "s")
    BY ONLY <1>4, <2>1
  <2>3. mode = PLUMBER_COMPUTE => stack' = stack
    BY ONLY <1>4, <2>1
  <2>4. Onto
    BY ONLY <1>3, <1>4, <1>8, <2>1, <2>2, <2>3 DEF Does
  <2> QED
    BY <1>1, <2>4, VisitReplays
<1>11. CASE StepUnset
  <2>1. ~plumbings[Pipe.d].set /\ AtRender
    BY <1>11 DEF StepUnset
  <2>2. err
    <3> SUFFICES ASSUME ~err PROVE FALSE
      OBVIOUS
    <3>1. \A p \in 1 .. Len(plumbings) : plumbings[p].set
      BY DEF NestedInv, Unset
    <3>2. Pipe.d \in {0} \union Top.on + 1 .. Len(plumbings)
      BY <1>1, AtPipe
    <3>3. Top.on \in 1 .. Len(plumbings) /\ Len(plumbings) \in Nat
      BY <1>2, InAPass
    <3>4. Pipe.d \notin 1 .. Len(plumbings)
      BY <2>1, <3>1
    <3> DEFINE q == Pipe
               m == Top.on
               l == Len(plumbings)
    <3>5. /\ q \in Pipes /\ q.d \in {0} \union m + 1 .. l /\ m \in 1 .. l /\ l \in Nat
          /\ q.d \notin 1 .. l
      BY <1>2, <3>2, <3>3, <3>4
    <3>6. q.type = "ugen" /\ q.ud = "render" /\ "render" \notin DOMAIN Sig
      BY <1>8, <2>1 DEF AtRender, Nesting
    <3> HIDE DEF q, m, l
    <3>7. q.d # 0
      BY ONLY <3>5, <3>6 DEF Pipes
    <3> QED
      BY ONLY <3>5, <3>7
  <2>3. host \notin Playing
    BY <2>2 DEF Replays, Kept
  <2>4. host' \in {host, "crashed"}
    BY <1>11 DEF StepUnset, Stepped
  <2>5. host' \notin Playing \union {"parse"}
    BY <1>2, <2>3, <2>4
    DEF Playing, Modes, PLUMBER_CREATE, PLUMBER_INIT, PLUMBER_COMPUTE, PLUMBER_DESTROY
  <2> QED
    BY ONLY <2>5 DEF Replays, Playing
<1> QED
  BY <1>6, <1>7, <1>9, <1>10, <1>11

\* A render that is over has done nothing more to the stack.
LEMMA RenderedReplays ==
  ASSUME NestedInv, Replays, Rendered
  PROVE  Replays'
<1>1. host \in Modes /\ mode = host
  BY InAPass DEF Rendered, Passing
<1>2. UNCHANGED <<stack, err, host, left, visited>>
  BY DEF Rendered
<1>3. host # "parse"
  BY <1>1 DEF Modes, PLUMBER_CREATE, PLUMBER_INIT, PLUMBER_COMPUTE, PLUMBER_DESTROY
<1>4. CASE host = PLUMBER_DESTROY
  <2>1. host' \notin Playing \union {"parse"}
    BY <1>2, <1>3, <1>4 DEF Playing, PLUMBER_INIT, PLUMBER_COMPUTE, PLUMBER_DESTROY
  <2> QED
    BY ONLY <2>1 DEF Replays, Playing
<1>5. CASE host # PLUMBER_DESTROY
  <2>1. plumbings' = plumbings
    BY <1>1, <1>5 DEF Rendered
  <2>2. (Due' <=> Due) /\ (Roomy' <=> Roomy)
    BY <1>2, <2>1, StaysSo
  <2> QED
    BY ONLY <1>2, <1>3, <2>1, <2>2, Replays DEF Replays
<1> QED
  BY <1>4, <1>5

\* INIT begins on top of what the parse left, a sample with nothing.
LEMMA BeginningReplays ==
  ASSUME NestedInv, Replays, Start \/ Sample \/ plumber_clean
  PROVE  Replays'
<1> USE DEF PLUMBER_INIT, PLUMBER_COMPUTE, PLUMBER_DESTROY
<1>1. stack \in Stacks
  BY DEF NestedInv, Shape
<1>2. CASE Start
  <2>1. /\ host = "parse" /\ ~err /\ left' = stack /\ host' = PLUMBER_INIT /\ visited' = <<>>
        /\ stack' = stack /\ err' = err /\ plumbings' = plumbings
    BY <1>2 DEF Start, Enter
  <2>2. Kept(plumbings', err', left')
    BY <1>1, <2>1 DEF Replays, Parsed, Kept
  <2>3. Leads(PLUMBER_INIT, plumbings', visited', left', stack')
    BY ONLY <1>1, <2>1, LeadsNowhere
  <2> QED
    BY <2>1, <2>2, <2>3 DEF Replays
<1>3. CASE Sample
  <2>1. /\ host = "idle" /\ left' = left /\ host' = PLUMBER_COMPUTE /\ visited' = <<>>
        /\ stack' = stack /\ err' = err /\ plumbings' = plumbings
    BY <1>3 DEF Sample, Enter
  <2>2. Kept(plumbings', err', left')
    BY <2>1 DEF Replays, Playing
  <2>3. (Due' <=> Due) /\ (Roomy' <=> Roomy)
    BY <2>1, StaysSo
  <2>4. ASSUME Due', Roomy'
        PROVE  Leads(PLUMBER_COMPUTE, plumbings', visited', sporth_stack_init, stack')
    <3>1. stack' = sporth_stack_init
      BY <2>1, <2>3, <2>4 DEF Replays
    <3> QED
      BY ONLY <2>1, <3>1, InitStackType, LeadsNowhere
  <2> QED
    BY <2>1, <2>2, <2>4 DEF Replays
<1>4. CASE plumber_clean
  <2>1. host' = PLUMBER_DESTROY
    BY <1>4 DEF plumber_clean, Enter
  <2> QED
    BY ONLY <2>1 DEF Replays, Playing
<1> QED
  BY <1>2, <1>3, <1>4

\* After INIT there is no error, and the host empties the stack.
LEMMA StartedReplays ==
  ASSUME NestedInv, InStep, Replays, Started
  PROVE  Replays'
<1> DEFINE P == plumbings
           w == Walk(P, Main)
<1>1. /\ Over(PLUMBER_INIT) /\ host = PLUMBER_INIT /\ host' = "idle"
      /\ stack' = [stack EXCEPT !.vals = <<>>]
      /\ UNCHANGED <<plumbings, visited, err, left>>
  BY DEF Started, Over
<1>2. visited = w
  BY <1>1, OverOrder DEF Over
<1>3. P \in Seq(Plumbings) /\ Tree(P) /\ stack \in Stacks /\ Main \in 1 .. Len(P)
  BY <1>1, OverIs DEF NestedInv, Shape, Main
<1>4. w \in Seq(Spots)
  BY <1>3, WalkIs
<1>5. Kept(P, err, left) /\ Leads(PLUMBER_INIT, P, visited, left, stack)
  BY <1>1 DEF Replays, Playing
<1>6. (Due' <=> Due) /\ (Roomy' <=> Roomy)
  BY <1>1, StaysSo
<1>7. ASSUME Due, Roomy PROVE stack' = sporth_stack_init
  <2>1. ~left.error
    BY <1>7 DEF Due
  <2>2. left \in Stacks /\ Leads(PLUMBER_CREATE, P, w, sporth_stack_init, left)
    BY <1>5, <2>1 DEF Kept
  <2>3. PICK T : Ran(PLUMBER_CREATE, P, w, sporth_stack_init, T) /\ T[Len(w)] = left
    BY <2>2 DEF Leads
  <2>4. PICK R : Ran(PLUMBER_INIT, P, w, left, R) /\ R[Len(w)] = stack
    BY <1>2, <1>5 DEF Leads
  <2>5. \A k \in 0 .. Len(w) : Len(left.vals) + Len(T[k].vals) <= SPORTH_STACK_SIZE
    BY <1>7, <2>3 DEF Roomy
  <2>6. ~T[Len(w)].error
    BY <2>1, <2>3
  <2> HIDE DEF P, w
  <2>7. ~R[Len(w)].error
    BY ONLY <1>3, <1>4, <2>1, <2>2, <2>3, <2>4, <2>5, <2>6, InitAgain
  <2>8. ~stack.error
    BY ONLY <2>4, <2>7
  <2> QED
    BY <1>1, <1>3, <2>8 DEF Stacks, sporth_stack_init
<1>8. Kept(plumbings', err', left')
  BY <1>1, <1>5
<1> QED
  BY <1>1, <1>6, <1>7, <1>8 DEF Replays, PLUMBER_INIT, PLUMBER_COMPUTE

\* When a pass of COMPUTE has come to its end, the stack is what the parse left.
LEMMA EndReplays ==
  ASSUME NestedInv, InStep, Replays, host = PLUMBER_COMPUTE, Passing, ~InPass, Top.by = "host",
         Due, Roomy
  PROVE  stack = left /\ Repeated(FLOAT, nchan) = [c \in 1 .. nchan |-> FLOAT]
<1> DEFINE P == plumbings
           w == Walk(P, Main)
           f == Repeated(FLOAT, nchan)
<1>1. visited = w
  BY OverOrder
<1>2. P \in Seq(Plumbings) /\ Tree(P) /\ Main \in 1 .. Len(P)
  BY EndIs DEF NestedInv, Main
<1>3. w \in Seq(Spots)
  BY <1>2, WalkIs
<1>4. Kept(P, err, left) /\ Leads(PLUMBER_COMPUTE, P, visited, sporth_stack_init, stack)
  BY DEF Replays, Playing
<1>5. f = [c \in 1 .. nchan |-> FLOAT]
  BY DEF Repeated
<1>6. left = [vals |-> f, error |-> FALSE]
  BY <1>5 DEF Due
<1> HIDE DEF f
<1>7. ~left.error /\ left.vals = f
  BY ONLY <1>6
<1>8. Leads(PLUMBER_CREATE, P, w, sporth_stack_init, left)
  BY <1>4, <1>7 DEF Kept
<1> HIDE DEF P, w
<1>9. PICK T : Ran(PLUMBER_CREATE, P, w, sporth_stack_init, T) /\ T[Len(w)] = left
  BY <1>8 DEF Leads
<1>10. PICK R : Ran(PLUMBER_COMPUTE, P, w, sporth_stack_init, R) /\ R[Len(w)] = stack
  BY <1>1, <1>4 DEF Leads
<1>11. ~T[Len(w)].error
  BY ONLY <1>7, <1>9
<1>12. R[Len(w)] = FloatsOf(T[Len(w)])
  BY ONLY <1>2, <1>3, <1>9, <1>10, <1>11, ComputeAgain
<1>13. stack = FloatsOf(left)
  BY ONLY <1>9, <1>10, <1>12
<1>14. nchan \in Nat
  BY NestedAssumption
<1>15. f \in Seq({FLOAT}) /\ Len(f) = nchan /\ \A i \in 1 .. nchan : f[i] = FLOAT
  BY ONLY <1>14, RepeatedType DEF f
<1>16. Times(FLOAT, f) = nchan
  BY ONLY <1>15, TimesAll
<1>17. FloatsOf(left) = left
  BY ONLY <1>6, <1>7, <1>16 DEF FloatsOf, f
<1> QED
  BY ONLY <1>5, <1>13, <1>17 DEF f

\* So the host takes it all off.
LEMMA SampledReplays ==
  ASSUME NestedInv, InStep, Replays, Sampled
  PROVE  Replays'
<1>1. /\ Over(PLUMBER_COMPUTE) /\ host = PLUMBER_COMPUTE /\ host' = "idle"
      /\ Passing /\ ~InPass /\ Top.by = "host"
      /\ stack' = PopAll(stack, [c \in 1 .. nchan |-> "f"])
      /\ UNCHANGED <<plumbings, visited, err, left>>
  BY DEF Sampled, Over
<1>2. (Due' <=> Due) /\ (Roomy' <=> Roomy)
  BY <1>1, StaysSo
<1>3. ASSUME Due, Roomy PROVE stack' = sporth_stack_init
  <2>1. stack = left /\ Repeated(FLOAT, nchan) = [c \in 1 .. nchan |-> FLOAT]
    BY <1>1, <1>3, EndReplays
  <2>2. stack = [vals |-> Repeated(FLOAT, nchan), error |-> FALSE]
    BY <1>3, <2>1 DEF Due
  <2>3. nchan \in Nat /\ nchan \in 0 .. nchan /\ nchan - nchan = 0
    BY NestedAssumption
  <2>4. nchan <= SPORTH_STACK_SIZE
    <3>1. stack \in Stacks
      BY DEF NestedInv, Shape
    <3>2. Len(stack.vals) <= SPORTH_STACK_SIZE
      BY <3>1 DEF Stacks
    <3>3. FLOAT \in {FLOAT}
      OBVIOUS
    <3>4. Len(Repeated(FLOAT, nchan)) = nchan
      BY ONLY <2>3, <3>3, RepeatedType
    <3>5. stack.vals = Repeated(FLOAT, nchan)
      BY ONLY <2>2
    <3> QED
      BY ONLY <3>2, <3>4, <3>5
  <2>5. Repeated("f", nchan) = [c \in 1 .. nchan |-> "f"]
    BY DEF Repeated
  <2>6. PopAll([vals |-> Repeated(FLOAT, nchan), error |-> FALSE], Repeated("f", nchan))
          = [vals |-> Repeated(FLOAT, nchan - nchan), error |-> FALSE]
    BY ONLY <2>3, <2>4, PopFloats
  <2>7. Repeated(FLOAT, 0) = <<>>
    <3>1. FLOAT \in {FLOAT} /\ 0 \in Nat
      OBVIOUS
    <3>2. Repeated(FLOAT, 0) \in Seq({FLOAT}) /\ Len(Repeated(FLOAT, 0)) = 0
      BY ONLY <3>1, RepeatedType
    <3> QED
      BY ONLY <3>2, EmptySeq
  <2>8. stack' = PopAll(stack, Repeated("f", nchan))
    BY ONLY <1>1, <2>5
  <2> QED
    BY ONLY <2>2, <2>3, <2>6, <2>7, <2>8 DEF sporth_stack_init
<1>4. Kept(plumbings', err', left')
  BY <1>1 DEF Replays, Playing
<1> QED
  BY <1>1, <1>2, <1>3, <1>4 DEF Replays, PLUMBER_INIT, PLUMBER_COMPUTE

\* Every step keeps it.
LEMMA ReplaysKept ==
  ASSUME NestedInv, NestedInv', InStep, Replays, [Next]_vars
  PROVE  Replays'
<1>1. CASE Parse
  BY <1>1, ReadingReplays, EndingReplays DEF Parse, Accepted
<1>2. CASE Step
  BY <1>2, StepReplays, RenderedReplays DEF Step
<1>3. CASE Start \/ Sample \/ plumber_clean
  BY <1>3, BeginningReplays
<1>4. CASE Started \/ Sampled
  BY <1>4, StartedReplays, SampledReplays
<1>5. CASE Cleaned
  <2>1. host' = "cleaned"
    BY <1>5 DEF Cleaned
  <2> QED
    BY ONLY <2>1 DEF Replays, Playing, PLUMBER_INIT, PLUMBER_COMPUTE
<1>6. CASE UNCHANGED vars
  <2>1. UNCHANGED <<plumbings, stack, frames, err, host, left, visited>>
    BY <1>6 DEF vars, fields
  <2>2. (Due' <=> Due) /\ (Roomy' <=> Roomy)
    BY <2>1, StaysSo
  <2> QED
    BY ONLY <2>1, <2>2, Replays DEF Replays
<1> QED
  BY <1>1, <1>2, <1>3, <1>4, <1>5, <1>6 DEF Next

\* What it means for a sample.
LEMMA ReplaysFollows == ASSUME NestedInv, InStep, Replays, Roomy PROVE RunsAsParsed
<1> SUFFICES ASSUME host = PLUMBER_COMPUTE, Passing, ~InPass, Top.by = "host", Due
             PROVE  stack = left
  BY DEF RunsAsParsed, Due
<1> QED
  BY EndReplays

\* Every sample leaves on the stack what the parse left there, the pipes of
\* the programs that eval, load and render parse among the others, however
\* deep they nest.  INIT must have room for as much again, since it runs on
\* top of what the parse left and an error that it raises is never taken back
\* (ugens/eval.c, load.c, render.c; plumber.c:66-112, 628-630).
THEOREM RunsAsParsedHolds == Spec => [](Roomy => RunsAsParsed)
<1>1. Init => Doing /\ InStep
  BY OrderFirst
<1>2. Init => Replays
  BY ReplaysFirst
<1>3. NestedInv /\ NestedInv' /\ Doing /\ InStep /\ [Next]_vars => Doing' /\ InStep'
  BY OrderKept
<1>4. NestedInv /\ NestedInv' /\ InStep /\ Replays /\ [Next]_vars => Replays'
  BY ReplaysKept
<1>5. NestedInv /\ InStep /\ Replays => (Roomy => RunsAsParsed)
  BY ReplaysFollows
<1>6. Spec => []NestedInv
  BY NestedInvariant
<1> QED
  BY <1>1, <1>2, <1>3, <1>4, <1>5, <1>6, PTL DEF Spec
=============================================================================
