----------------------------- MODULE UgenProofs -----------------------------
(***************************************************************************)
(* Facts about the stack operations and the effects of handlers that the   *)
(* proofs about Plumber and Nested rest on.                                *)
(***************************************************************************)
EXTENDS Ugen, FiniteSetTheorems, SequenceTheorems, TLAPS

\* As many numbers as the last one says.
LEMMA UpToCardinality ==
  ASSUME NEW n \in Nat
  PROVE  IsFiniteSet(1 .. n) /\ Cardinality(1 .. n) = n
<1>1. IsFiniteSet(1 .. n) /\ Cardinality(1 .. n) = IF 1 > n THEN 0 ELSE n - 1 + 1
  BY FS_Interval
<1> QED
  BY <1>1

\* The number of pops that succeed is bounded by what is there and by what
\* is asked for; when all succeed, every popped value had the type asked for.
LEMMA PoppedBounds ==
  ASSUME NEW vals \in Seq(Values), NEW types \in Seq(Types)
  PROVE  /\ Popped(vals, types) \in 0 .. Len(types)
         /\ Popped(vals, types) <= Len(vals)
         /\ Popped(vals, types) = Len(types) =>
              /\ Len(types) <= Len(vals)
              /\ \A i \in 1 .. Len(types) : TypeOf(FromTop(vals, i)) = types[i]
<1> DEFINE T == {n \in 1 .. Len(types) :
                   /\ n <= Len(vals)
                   /\ \A i \in 1 .. n : TypeOf(FromTop(vals, i)) = types[i]}
<1>0. Len(types) \in Nat /\ Len(vals) \in Nat
  OBVIOUS
<1>1. IsFiniteSet(1 .. Len(types)) /\ Cardinality(1 .. Len(types)) = Len(types)
  BY <1>0, UpToCardinality
<1>2. IsFiniteSet(1 .. Len(vals)) /\ Cardinality(1 .. Len(vals)) = Len(vals)
  BY <1>0, UpToCardinality
<1>3. T \in SUBSET (1 .. Len(types)) /\ T \in SUBSET (1 .. Len(vals))
  BY <1>0
<1>4. /\ IsFiniteSet(T) /\ Cardinality(T) <= Len(types)
      /\ Len(types) = Cardinality(T) => 1 .. Len(types) = T
  <2> HIDE DEF T
  <2>1. /\ IsFiniteSet(T) /\ Cardinality(T) <= Cardinality(1 .. Len(types))
        /\ Cardinality(1 .. Len(types)) = Cardinality(T) => 1 .. Len(types) = T
    BY <1>1, <1>3, FS_Subset
  <2> QED
    BY <1>1, <2>1
<1>5. Cardinality(T) <= Len(vals)
  BY <1>2, <1>3, FS_Subset
<1>6. Cardinality(T) \in Nat
  BY <1>4, FS_CardinalityType
<1>7. Popped(vals, types) = Cardinality(T)
  BY DEF Popped
<1>8. ASSUME Popped(vals, types) = Len(types)
      PROVE  /\ Len(types) <= Len(vals)
             /\ \A i \in 1 .. Len(types) : TypeOf(FromTop(vals, i)) = types[i]
  <2>1. 1 .. Len(types) = T
    BY <1>4, <1>7, <1>8
  <2>2. CASE Len(types) = 0
    BY <2>2, <1>0
  <2>3. CASE Len(types) # 0
    <3>1. Len(types) \in T
      BY <2>1, <2>3, <1>0
    <3> QED
      BY <3>1
  <2> QED
    BY <2>2, <2>3
<1> QED
  BY <1>0, <1>4, <1>5, <1>6, <1>7, <1>8

\* Popping leaves a stack, and only ever sets the error.
LEMMA PopAllType ==
  ASSUME NEW st \in Stacks, NEW types \in Seq(Types)
  PROVE  PopAll(st, types) \in Stacks
<1> DEFINE n == Popped(st.vals, types)
<1>1. /\ st.vals \in Seq(Values) /\ Len(st.vals) <= SPORTH_STACK_SIZE
      /\ st.error \in BOOLEAN
  BY DEF Stacks
<1>2. n \in Nat /\ n <= Len(st.vals) /\ Len(st.vals) \in Nat /\ Len(types) \in Nat
  BY <1>1, PoppedBounds
<1> HIDE DEF n
<1>3. \A i \in 1 .. Len(st.vals) - n : st.vals[i] \in Values
  BY <1>1, <1>2, ElementOfSeq
<1>4. /\ SubSeq(st.vals, 1, Len(st.vals) - n) \in Seq(Values)
      /\ Len(SubSeq(st.vals, 1, Len(st.vals) - n)) <= Len(st.vals)
  BY <1>1, <1>2, <1>3, SubSeqProperties
<1>5. Len(SubSeq(st.vals, 1, Len(st.vals) - n)) <= SPORTH_STACK_SIZE
  BY <1>1, <1>2, <1>4, StackAssumption
<1> QED
  BY <1>1, <1>4, <1>5 DEF PopAll, Stacks, n

\* Pushing never overruns the array: what does not fit raises the error.
LEMMA PushAllType ==
  ASSUME NEW st \in Stacks, NEW vs \in Seq(Values)
  PROVE  PushAll(st, vs) \in Stacks
<1> DEFINE room == SPORTH_STACK_SIZE - Len(st.vals)
<1>1. /\ st.vals \in Seq(Values) /\ Len(st.vals) <= SPORTH_STACK_SIZE
      /\ st.error \in BOOLEAN /\ st = [vals |-> st.vals, error |-> st.error]
  BY DEF Stacks
<1>2. /\ Len(st.vals) \in Nat /\ Len(vs) \in Nat /\ SPORTH_STACK_SIZE \in Nat /\ room \in Nat
  BY <1>1, StackAssumption
<1> HIDE DEF room
<1>3. CASE Len(vs) <= room
  <2>1. st.vals \o vs \in Seq(Values) /\ Len(st.vals \o vs) <= SPORTH_STACK_SIZE
    BY <1>1, <1>2, <1>3, ConcatProperties DEF room
  <2> QED
    BY <1>1, <1>3, <2>1 DEF PushAll, Stacks, room
<1>4. CASE ~(Len(vs) <= room)
  <2>1. \A i \in 1 .. room : vs[i] \in Values
    BY <1>2, <1>4, ElementOfSeq
  <2>2. SubSeq(vs, 1, room) \in Seq(Values) /\ Len(SubSeq(vs, 1, room)) <= room
    BY <1>2, <2>1, SubSeqProperties
  <2>3. /\ st.vals \o SubSeq(vs, 1, room) \in Seq(Values)
        /\ Len(st.vals \o SubSeq(vs, 1, room)) <= SPORTH_STACK_SIZE
    BY <1>1, <1>2, <2>2, ConcatProperties DEF room
  <2> QED
    BY <1>1, <1>4, <2>3 DEF PushAll, Stacks, room
<1> QED
  BY <1>3, <1>4

\* One push leaves a stack.
LEMMA PushType ==
  ASSUME NEW st \in Stacks, NEW v \in Values
  PROVE  Push(st, v) \in Stacks
<1>1. /\ st.vals \in Seq(Values) /\ Len(st.vals) <= SPORTH_STACK_SIZE
      /\ st.error \in BOOLEAN /\ st = [vals |-> st.vals, error |-> st.error]
  BY DEF Stacks
<1>2. Append(st.vals, v) \in Seq(Values) /\ Len(Append(st.vals, v)) = Len(st.vals) + 1
  BY <1>1
<1>3. CASE Len(st.vals) < SPORTH_STACK_SIZE
  <2>1. [vals |-> Append(st.vals, v), error |-> st.error] \in Stacks
    BY <1>1, <1>2, <1>3, StackAssumption DEF Stacks
  <2> QED
    BY <1>1, <1>3, <2>1 DEF Push
<1>4. CASE ~(Len(st.vals) < SPORTH_STACK_SIZE)
  BY <1>1, <1>4 DEF Push, Raise, Stacks
<1> QED
  BY <1>3, <1>4

\* So does raising the error,
LEMMA RaiseType == \A st \in Stacks : Raise(st) \in Stacks
  BY DEF Raise, Stacks

\* and so does sporth_stack_init.
LEMMA InitStackType == sporth_stack_init \in Stacks
  BY StackAssumption DEF sporth_stack_init, Stacks

\* A handler leaves a stack, whatever it finds there.
LEMMA ApplyType ==
  ASSUME NEW st \in Stacks, NEW e \in Effects
  PROVE  Apply(e, st) \in Stacks
<1>1. e.pop \in Seq(Types) /\ e.push \in Seq(Values)
  BY DEF Effects
<1> QED
  BY <1>1, PopAllType, PushAllType DEF Apply

\* The entries a handler adds are named by strings it really popped.
LEMMA AddedType ==
  ASSUME NEW st \in Stacks, NEW e \in Effects, ~st.error, Supplied(e, st)
  PROVE  Added(e, st) \in Seq(Entries)
<1>1. /\ e.pop \in Seq(Types) /\ e.adds \in Seq(Adds)
      /\ \A i \in 1 .. Len(e.adds) :
           e.adds[i].arg \in 1 .. Len(e.pop) /\ e.pop[e.adds[i].arg] = "s"
  BY DEF Effects
<1>2. st.vals \in Seq(Values)
  BY DEF Stacks
<1>3. Popped(st.vals, e.pop) = Len(e.pop)
  <2>1. Popped(st.vals, e.pop) \in 0 .. Len(e.pop) /\ Len(e.pop) \in Nat
    BY <1>1, <1>2, PoppedBounds
  <2>2. ~(Popped(st.vals, e.pop) < Len(e.pop))
    BY DEF Supplied, PopAll
  <2> QED
    BY <2>1, <2>2
<1>4. /\ Len(e.pop) <= Len(st.vals)
      /\ \A i \in 1 .. Len(e.pop) : TypeOf(FromTop(st.vals, i)) = e.pop[i]
  BY <1>1, <1>2, <1>3, PoppedBounds
<1>5. ASSUME NEW i \in 1 .. Len(e.adds)
      PROVE  Added(e, st)[i] \in Entries
  <2>1. e.adds[i] \in Adds
    BY <1>1, ElementOfSeq
  <2>2. e.adds[i].arg \in 1 .. Len(e.pop) /\ e.pop[e.adds[i].arg] = "s"
    BY <1>1
  <2>3. TypeOf(FromTop(st.vals, e.adds[i].arg)) = "s"
    BY <1>4, <2>2
  <2>4. Len(st.vals) + 1 - e.adds[i].arg \in 1 .. Len(st.vals)
    <3> DEFINE a == e.adds[i].arg
               k == Len(e.pop)
               l == Len(st.vals)
    <3>1. k \in Nat /\ l \in Nat /\ k <= l /\ a \in 1 .. k
      BY <1>1, <1>2, <1>4, <2>2
    <3> HIDE DEF a, k, l
    <3>2. l + 1 - a \in 1 .. l
      BY <3>1
    <3> QED
      BY <3>2 DEF a, l
  <2>5. FromTop(st.vals, e.adds[i].arg) \in Values
    BY <1>2, <2>4, ElementOfSeq DEF FromTop
  <2>6. FromTop(st.vals, e.adds[i].arg) \in Strings
    BY <2>3, <2>5 DEF TypeOf, Values
  <2> QED
    BY <2>1, <2>6 DEF Added, Entries, Adds
<1>6. Added(e, st) \in [1 .. Len(e.adds) -> Entries]
  BY <1>5 DEF Added
<1>7. Len(e.adds) \in Nat
  BY <1>1
<1> QED
  BY <1>6, <1>7

---------------------------------------------------------------------------
(* What a handler that gets its arguments does, exactly.                   *)

\* The topmost values have these types, in popping order.
Fits(vals, types) ==
  /\ Len(types) <= Len(vals)
  /\ \A i \in 1 .. Len(types) : TypeOf(FromTop(vals, i)) = types[i]

\* What is under the n topmost values.
Under(vals, n) == SubSeq(vals, 1, Len(vals) - n)

\* When the types fit, every pop succeeds.
LEMMA PoppedAll ==
  ASSUME NEW vals \in Seq(Values), NEW types \in Seq(Types)
  PROVE  Popped(vals, types) = Len(types) <=> Fits(vals, types)
<1>0. Len(types) \in Nat /\ Len(vals) \in Nat
  OBVIOUS
<1>1. Popped(vals, types) = Len(types) => Fits(vals, types)
  BY PoppedBounds DEF Fits
<1>2. ASSUME Fits(vals, types) PROVE Popped(vals, types) = Len(types)
  <2> DEFINE T == {n \in 1 .. Len(types) :
                     /\ n <= Len(vals)
                     /\ \A i \in 1 .. n : TypeOf(FromTop(vals, i)) = types[i]}
  <2>1. T = 1 .. Len(types)
    <3>1. \A n \in 1 .. Len(types) : n <= Len(vals)
      BY <1>0, <1>2 DEF Fits
    <3>2. \A n \in 1 .. Len(types) : \A i \in 1 .. n : i \in 1 .. Len(types)
      BY <1>0
    <3> QED
      BY <1>2, <3>1, <3>2 DEF Fits
  <2>2. Cardinality(T) = Len(types)
    BY <1>0, <2>1, UpToCardinality
  <2> QED
    BY <2>2 DEF Popped
<1> QED
  BY <1>1, <1>2

\* Pops succeed when the types fit, and leave what is under the arguments.
LEMMA PopAllExact ==
  ASSUME NEW st \in Stacks, NEW types \in Seq(Types), ~st.error
  PROVE  /\ ~PopAll(st, types).error <=> Fits(st.vals, types)
         /\ Fits(st.vals, types) =>
              PopAll(st, types) = [vals |-> Under(st.vals, Len(types)), error |-> FALSE]
<1> DEFINE n == Popped(st.vals, types)
<1>1. st.vals \in Seq(Values)
  BY DEF Stacks
<1>2. n \in 0 .. Len(types) /\ Len(types) \in Nat /\ (n = Len(types) <=> Fits(st.vals, types))
  BY <1>1, PoppedBounds, PoppedAll
<1>3. PopAll(st, types) = [vals |-> SubSeq(st.vals, 1, Len(st.vals) - n), error |-> n < Len(types)]
  BY DEF PopAll
<1> HIDE DEF n
<1>4. n < Len(types) <=> n # Len(types)
  BY <1>2
<1>5. PopAll(st, types).error = (n < Len(types))
  BY <1>3
<1>6. (n < Len(types)) \in BOOLEAN
  BY <1>2
<1>7. ASSUME n = Len(types) PROVE (n < Len(types)) = FALSE
  BY <1>2, <1>7
<1> QED
  BY <1>2, <1>3, <1>4, <1>5, <1>6, <1>7 DEF Under

\* Pushes succeed when there is room.
LEMMA PushAllExact ==
  ASSUME NEW st \in Stacks, NEW vs \in Seq(Values), ~st.error
  PROVE  /\ ~PushAll(st, vs).error <=> Len(st.vals) + Len(vs) <= SPORTH_STACK_SIZE
         /\ ~PushAll(st, vs).error => PushAll(st, vs) = [vals |-> st.vals \o vs, error |-> FALSE]
<1>1. /\ st = [vals |-> st.vals, error |-> FALSE] /\ st.error = FALSE
      /\ Len(st.vals) \in Nat /\ Len(vs) \in Nat /\ SPORTH_STACK_SIZE \in Nat
  BY StackAssumption DEF Stacks
<1>2. Len(vs) <= SPORTH_STACK_SIZE - Len(st.vals) <=> Len(st.vals) + Len(vs) <= SPORTH_STACK_SIZE
  BY <1>1
<1>3. CASE Len(vs) <= SPORTH_STACK_SIZE - Len(st.vals)
  <2>1. PushAll(st, vs) = [st EXCEPT !.vals = st.vals \o vs]
    BY <1>1, <1>3 DEF PushAll
  <2> QED
    BY <1>1, <1>2, <1>3, <2>1
<1>4. CASE ~(Len(vs) <= SPORTH_STACK_SIZE - Len(st.vals))
  <2>1. PushAll(st, vs).error = TRUE
    BY <1>1, <1>4 DEF PushAll
  <2> QED
    BY <1>2, <1>4, <2>1
<1> QED
  BY <1>3, <1>4

\* What is under the arguments is a stack, of what was there.
LEMMA UnderType ==
  ASSUME NEW vals \in Seq(Values), NEW n \in Nat, n <= Len(vals)
  PROVE  /\ Under(vals, n) \in Seq(Values) /\ Len(Under(vals, n)) = Len(vals) - n
         /\ \A i \in 1 .. Len(vals) - n : Under(vals, n)[i] = vals[i]
<1>1. Len(vals) \in Nat /\ Len(vals) - n \in Nat
  OBVIOUS
<1>2. \A i \in 1 .. Len(vals) - n : vals[i] \in Values
  BY <1>1, ElementOfSeq
<1> QED
  BY <1>1, <1>2, SubSeqProperties DEF Under

\* A whole handler: it raises no error exactly when its arguments fit and its
\* results have room, and then replaces the ones by the others.
LEMMA ApplyExact ==
  ASSUME NEW st \in Stacks, NEW e \in Effects, ~st.error
  PROVE  LET vals == Under(st.vals, Len(e.pop)) \o e.push IN
         /\ ~Apply(e, st).error <=>
              Fits(st.vals, e.pop) /\ Len(st.vals) - Len(e.pop) + Len(e.push) <= SPORTH_STACK_SIZE
         /\ ~Apply(e, st).error => Apply(e, st) = [vals |-> vals, error |-> FALSE]
<1>1. /\ e.pop \in Seq(Types) /\ e.push \in Seq(Values)
      /\ st.vals \in Seq(Values) /\ Len(e.pop) \in Nat
  BY DEF Effects, Stacks
<1> DEFINE p == PopAll(st, e.pop)
<1>2. /\ p \in Stacks /\ (~p.error <=> Fits(st.vals, e.pop))
      /\ Fits(st.vals, e.pop) => p = [vals |-> Under(st.vals, Len(e.pop)), error |-> FALSE]
  BY <1>1, PopAllType, PopAllExact
<1>3. Apply(e, st) = PushAll(p, e.push)
  BY DEF Apply
<1> HIDE DEF p
<1>4. CASE p.error
  BY <1>2, <1>3, <1>4 DEF PushAll
<1>5. CASE ~p.error
  <2>1. /\ p.vals = Under(st.vals, Len(e.pop)) /\ Fits(st.vals, e.pop)
        /\ Len(p.vals) = Len(st.vals) - Len(e.pop)
    <3>1. p.vals = Under(st.vals, Len(e.pop)) /\ Fits(st.vals, e.pop)
      BY <1>2, <1>5
    <3> QED
      BY <1>1, <3>1, UnderType DEF Fits
  <2>2. /\ ~PushAll(p, e.push).error <=> Len(p.vals) + Len(e.push) <= SPORTH_STACK_SIZE
        /\ ~PushAll(p, e.push).error => PushAll(p, e.push) = [vals |-> p.vals \o e.push, error |-> FALSE]
    BY <1>1, <1>2, <1>5, PushAllExact
  <2> QED
    BY <1>3, <2>1, <2>2
<1> QED
  BY <1>4, <1>5

\* One push of a value is a run of one.
LEMMA PushExact ==
  ASSUME NEW st \in Stacks, NEW v \in Values, ~st.error
  PROVE  /\ ~Push(st, v).error <=> Len(st.vals) + 1 <= SPORTH_STACK_SIZE
         /\ ~Push(st, v).error => Push(st, v) = [vals |-> Append(st.vals, v), error |-> FALSE]
<1>1. /\ st = [vals |-> st.vals, error |-> FALSE] /\ st.error = FALSE
      /\ Len(st.vals) \in Nat /\ SPORTH_STACK_SIZE \in Nat
  BY StackAssumption DEF Stacks
<1>2. Len(st.vals) < SPORTH_STACK_SIZE <=> Len(st.vals) + 1 <= SPORTH_STACK_SIZE
  BY <1>1
<1>3. CASE Len(st.vals) < SPORTH_STACK_SIZE
  <2>1. Push(st, v) = [st EXCEPT !.vals = Append(st.vals, v)]
    BY <1>1, <1>3 DEF Push
  <2> QED
    BY <1>1, <1>2, <1>3, <2>1
<1>4. CASE ~(Len(st.vals) < SPORTH_STACK_SIZE)
  <2>1. Push(st, v).error = TRUE
    BY <1>1, <1>4 DEF Push, Raise
  <2> QED
    BY <1>2, <1>4, <2>1
<1> QED
  BY <1>3, <1>4

\* Arguments that fit still do on top of other values, and those values stay.
LEMMA FitsOver ==
  ASSUME NEW base \in Seq(Values), NEW vals \in Seq(Values), NEW types \in Seq(Types),
         Fits(vals, types)
  PROVE  /\ Fits(base \o vals, types)
         /\ Under(base \o vals, Len(types)) = base \o Under(vals, Len(types))
<1>1. /\ Len(base) \in Nat /\ Len(vals) \in Nat /\ Len(types) \in Nat
      /\ Len(types) <= Len(vals)
  BY DEF Fits
<1>2. /\ base \o vals \in Seq(Values) /\ Len(base \o vals) = Len(base) + Len(vals)
      /\ \A i \in 1 .. Len(base) + Len(vals) :
           (base \o vals)[i] = IF i <= Len(base) THEN base[i] ELSE vals[i - Len(base)]
  BY ConcatProperties
<1>3. Len(types) <= Len(base \o vals)
  BY <1>1, <1>2
<1>4. \A i \in 1 .. Len(types) : TypeOf(FromTop(base \o vals, i)) = types[i]
  <2> TAKE i \in 1 .. Len(types)
  <2>1. /\ Len(base) + Len(vals) + 1 - i \in 1 .. Len(base) + Len(vals)
        /\ ~(Len(base) + Len(vals) + 1 - i <= Len(base))
        /\ Len(base) + Len(vals) + 1 - i - Len(base) = Len(vals) + 1 - i
    BY <1>1
  <2>2. FromTop(base \o vals, i) = FromTop(vals, i)
    BY <1>2, <2>1 DEF FromTop
  <2> QED
    BY <2>2 DEF Fits
<1>5. Under(base \o vals, Len(types)) = base \o Under(vals, Len(types))
  <2> DEFINE u == Under(vals, Len(types))
             m == Len(vals) - Len(types)
  <2>1. /\ u \in Seq(Values) /\ Len(u) = m /\ m \in Nat
        /\ \A i \in 1 .. m : u[i] = vals[i]
    BY <1>1, UnderType
  <2>2. /\ Under(base \o vals, Len(types)) \in Seq(Values)
        /\ Len(Under(base \o vals, Len(types))) = Len(base \o vals) - Len(types)
        /\ \A i \in 1 .. Len(base \o vals) - Len(types) :
             Under(base \o vals, Len(types))[i] = (base \o vals)[i]
    BY <1>1, <1>2, <1>3, UnderType
  <2> HIDE DEF u, m
  <2>3. Len(base \o vals) - Len(types) = Len(base) + m
    BY <1>1, <1>2 DEF m
  <2>4. /\ base \o u \in Seq(Values) /\ Len(base \o u) = Len(base) + m
        /\ \A i \in 1 .. Len(base) + m :
             (base \o u)[i] = IF i <= Len(base) THEN base[i] ELSE u[i - Len(base)]
    BY <2>1, ConcatProperties
  <2>5. \A i \in 1 .. Len(base) + m : (base \o vals)[i] = (base \o u)[i]
    <3> TAKE i \in 1 .. Len(base) + m
    <3>1. i \in 1 .. Len(base) + Len(vals)
      BY <1>1, <2>1 DEF m
    <3>2. CASE i <= Len(base)
      BY <1>2, <2>4, <3>1, <3>2
    <3>3. CASE ~(i <= Len(base))
      <4>1. i - Len(base) \in 1 .. m
        BY <1>1, <2>1, <3>3
      <4> QED
        BY <1>2, <2>1, <2>4, <3>1, <3>3, <4>1
    <3> QED
      BY <3>2, <3>3
  <2>6. \A i \in 1 .. Len(base) + m : Under(base \o vals, Len(types))[i] = (base \o u)[i]
    BY <2>2, <2>3, <2>5
  <2> QED
    BY <2>2, <2>3, <2>4, <2>6, SeqEqual DEF u
<1> QED
  BY <1>3, <1>4, <1>5 DEF Fits
---------------------------------------------------------------------------
(* Counting the values of one kind.                                        *)

\* A count is a number, at most the length.
LEMMA TimesType ==
  ASSUME NEW S, NEW s \in Seq(S), NEW x
  PROVE  /\ Times(x, s) \in Nat /\ Times(x, s) <= Len(s)
         /\ \A T \in SUBSET (1 .. Len(s)) : IsFiniteSet(T)
<1>1. IsFiniteSet(1 .. Len(s)) /\ Cardinality(1 .. Len(s)) = Len(s)
  BY UpToCardinality
<1>2. {i \in 1 .. Len(s) : s[i] = x} \in SUBSET (1 .. Len(s))
  OBVIOUS
<1>3. \A T \in SUBSET (1 .. Len(s)) : IsFiniteSet(T) /\ Cardinality(T) <= Len(s)
  BY <1>1, FS_Subset
<1>4. Times(x, s) \in Nat /\ Times(x, s) <= Len(s)
  BY <1>2, <1>3, FS_CardinalityType DEF Times
<1> QED
  BY <1>3, <1>4

\* The places of x between two positions.
Places(x, s, m, n) == {i \in m .. n : s[i] = x}

\* A sequence is counted in two parts.
LEMMA TimesSplit ==
  ASSUME NEW S, NEW s \in Seq(S), NEW x, NEW n \in 0 .. Len(s)
  PROVE  /\ IsFiniteSet(Places(x, s, 1, n)) /\ IsFiniteSet(Places(x, s, n + 1, Len(s)))
         /\ Times(x, s) = Cardinality(Places(x, s, 1, n)) + Cardinality(Places(x, s, n + 1, Len(s)))
<1> DEFINE A == Places(x, s, 1, n)
           B == Places(x, s, n + 1, Len(s))
<1>1. /\ A \in SUBSET (1 .. Len(s)) /\ B \in SUBSET (1 .. Len(s))
      /\ A \cup B = {i \in 1 .. Len(s) : s[i] = x} /\ A \cap B = {}
  <2> Len(s) \in Nat /\ n \in Nat /\ n <= Len(s)
    OBVIOUS
  <2>1. A \in SUBSET (1 .. Len(s)) /\ B \in SUBSET (1 .. Len(s))
    BY DEF Places
  <2>2. A \cap B = {}
    BY DEF Places
  <2>3. 1 .. Len(s) = (1 .. n) \cup (n + 1 .. Len(s))
    OBVIOUS
  <2>4. A \cup B = {i \in 1 .. Len(s) : s[i] = x}
    BY <2>3, Zenon DEF Places
  <2> QED
    BY <2>1, <2>2, <2>4
<1>2. IsFiniteSet(A) /\ IsFiniteSet(B)
  BY <1>1, TimesType
<1> HIDE DEF A, B
<1>3. Cardinality(A \cup B) = Cardinality(A) + Cardinality(B) - Cardinality(A \cap B)
  BY <1>2, FS_Union
<1>4. Cardinality(A \cap B) = 0
  BY <1>1, FS_EmptySet
<1>5. Cardinality(A) \in Nat /\ Cardinality(B) \in Nat
  BY <1>2, FS_CardinalityType
<1>6. Times(x, s) = Cardinality(A \cup B)
  BY <1>1, Zenon DEF Times
<1>7. Times(x, s) = Cardinality(A) + Cardinality(B)
  BY <1>3, <1>4, <1>5, <1>6
<1> QED
  BY <1>2, <1>7 DEF A, B

\* Two sequences one behind the other.
LEMMA TimesConcat ==
  ASSUME NEW S, NEW s \in Seq(S), NEW t \in Seq(S), NEW x
  PROVE  Times(x, s \o t) = Times(x, s) + Times(x, t)
<1> DEFINE n == Len(s)
           B == Places(x, s \o t, n + 1, n + Len(t))
           C == {i \in 1 .. Len(t) : t[i] = x}
           f == [i \in C |-> i + n]
<1>1. /\ n \in Nat /\ Len(t) \in Nat /\ s \o t \in Seq(S) /\ Len(s \o t) = n + Len(t)
      /\ \A i \in 1 .. n + Len(t) : (s \o t)[i] = IF i <= n THEN s[i] ELSE t[i - n]
  BY ConcatProperties
<1> HIDE DEF n
<1>2. Places(x, s \o t, 1, n) = {i \in 1 .. n : s[i] = x}
  <2>1. \A i \in 1 .. n : i \in 1 .. n + Len(t) /\ i <= n
    BY <1>1
  <2> QED
    BY <1>1, <2>1 DEF Places
<1>3. Cardinality(Places(x, s \o t, 1, n)) = Times(x, s)
  BY <1>2 DEF Times, n
<1>4. f \in Bijection(C, B)
  <2>1. \A i \in C : i \in Nat /\ f[i] \in B
    <3> TAKE i \in C
    <3>1. i \in 1 .. Len(t) /\ t[i] = x /\ f[i] = i + n
      OBVIOUS
    <3>2. i + n \in n + 1 .. n + Len(t) /\ i + n \in 1 .. n + Len(t) /\ ~(i + n <= n) /\ i + n - n = i
      BY <1>1, <3>1
    <3>3. (s \o t)[i + n] = x
      BY <1>1, <3>1, <3>2
    <3>4. i + n \in B
      BY <3>2, <3>3, Zenon DEF Places
    <3> QED
      BY <3>1, <3>4
  <2>2. \A j \in B : \E i \in C : f[i] = j
    <3> TAKE j \in B
    <3>1. j \in n + 1 .. n + Len(t) /\ (s \o t)[j] = x
      BY DEF Places
    <3>2. j - n \in 1 .. Len(t) /\ j - n + n = j /\ j \in 1 .. n + Len(t) /\ ~(j <= n)
      BY <1>1, <3>1
    <3>3. t[j - n] = x
      BY <1>1, <3>1, <3>2
    <3> QED
      BY <3>2, <3>3
  <2>3. \A i, j \in C : f[i] = f[j] => i = j
    BY <1>1
  <2>4. f \in [C -> B]
    BY <2>1
  <2> HIDE DEF f, B, C
  <2> QED
    BY <2>2, <2>3, <2>4 DEF Bijection, Injection, Surjection, IsInjective
<1>5. IsFiniteSet(B) /\ Times(x, s \o t) = Times(x, s) + Cardinality(B)
  <2>1. n \in 0 .. Len(s \o t) /\ B = Places(x, s \o t, n + 1, Len(s \o t))
    BY <1>1
  <2> HIDE DEF B
  <2>2. /\ IsFiniteSet(B)
        /\ Times(x, s \o t) = Cardinality(Places(x, s \o t, 1, n)) + Cardinality(B)
    BY <1>1, <2>1, TimesSplit
  <2> QED
    BY <1>3, <2>2
<1>6. IsFiniteSet(C) /\ Cardinality(C) = Times(x, t)
  BY TimesType DEF Times
<1>7. Cardinality(B) = Cardinality(C)
  BY <1>4, <1>6, FS_Bijection DEF ExistsBijection
<1> QED
  BY <1>5, <1>6, <1>7

\* One value more.
LEMMA TimesAppend ==
  ASSUME NEW S, NEW s \in Seq(S), NEW v \in S, NEW x
  PROVE  Times(x, Append(s, v)) = IF v = x THEN Times(x, s) + 1 ELSE Times(x, s)
<1>1. <<v>> \in Seq(S) /\ Append(s, v) = s \o <<v>> /\ Len(<<v>>) = 1 /\ <<v>>[1] = v
  OBVIOUS
<1>2. Times(x, Append(s, v)) = Times(x, s) + Times(x, <<v>>)
  BY <1>1, TimesConcat
<1>3. {i \in 1 .. Len(<<v>>) : <<v>>[i] = x} = IF v = x THEN {1} ELSE {}
  BY <1>1
<1>4. Cardinality({1}) = 1
  BY FS_Singleton
<1>5. Times(x, <<v>>) = IF v = x THEN 1 ELSE 0
  BY <1>3, <1>4, FS_EmptySet DEF Times
<1>6. Times(x, s) \in Nat
  BY TimesType
<1> QED
  BY <1>2, <1>5, <1>6

\* In a sequence of nothing else it counts everything.
LEMMA TimesAll ==
  ASSUME NEW S, NEW s \in Seq(S), NEW x, \A i \in 1 .. Len(s) : s[i] = x
  PROVE  Times(x, s) = Len(s)
<1>1. {i \in 1 .. Len(s) : s[i] = x} = 1 .. Len(s)
  OBVIOUS
<1>2. Times(x, s) = Cardinality(1 .. Len(s))
  BY <1>1, Zenon DEF Times
<1> QED
  BY <1>2, UpToCardinality

\* When the arguments fit, the floats on the stack are those that a handler
\* pops and those under its arguments.
LEMMA TimesUnder ==
  ASSUME NEW vals \in Seq(Values), NEW types \in Seq(Types), Fits(vals, types)
  PROVE  Times(FLOAT, vals) = Times(FLOAT, Under(vals, Len(types))) + Times("f", types)
<1> DEFINE k == Len(types)
           n == Len(vals) - Len(types)
           B == Places(FLOAT, vals, n + 1, Len(vals))
           C == {i \in 1 .. k : types[i] = "f"}
           f == [i \in C |-> Len(vals) + 1 - i]
<1>1. /\ k \in Nat /\ n \in Nat /\ Len(vals) \in Nat /\ Len(vals) = n + k /\ n \in 0 .. Len(vals)
      /\ \A i \in 1 .. k : TypeOf(vals[Len(vals) + 1 - i]) = types[i]
  BY DEF Fits, FromTop
<1>2. /\ Under(vals, k) \in Seq(Values) /\ Len(Under(vals, k)) = n
      /\ \A i \in 1 .. n : Under(vals, k)[i] = vals[i]
  <2>1. k <= Len(vals) /\ Len(vals) - k = n
    BY <1>1
  <2> HIDE DEF k, n
  <2> QED
    BY <1>1, <2>1, UnderType
<1>3. C = {i \in 1 .. Len(types) : types[i] = "f"}
  OBVIOUS
<1>4. IsFiniteSet(C) /\ Cardinality(C) = Times("f", types)
  BY TimesType DEF Times
<1> HIDE DEF k, n
<1>5. {i \in 1 .. Len(Under(vals, k)) : Under(vals, k)[i] = FLOAT} = Places(FLOAT, vals, 1, n)
  BY <1>2 DEF Places
<1>6. Cardinality(Places(FLOAT, vals, 1, n)) = Times(FLOAT, Under(vals, k))
  BY <1>5 DEF Times
<1>7. f \in Bijection(C, B)
  <2>1. \A i \in C : i \in Nat /\ f[i] \in B
    <3> TAKE i \in C
    <3>1. i \in 1 .. k /\ types[i] = "f" /\ f[i] = Len(vals) + 1 - i
      OBVIOUS
    <3>2. Len(vals) + 1 - i \in n + 1 .. Len(vals)
      BY <1>1, <3>1
    <3>3. TypeOf(vals[Len(vals) + 1 - i]) = "f"
      BY <1>1, <3>1
    <3>4. vals[Len(vals) + 1 - i] = FLOAT
      BY <3>3 DEF TypeOf
    <3> QED
      BY <3>1, <3>2, <3>4 DEF Places
  <2>2. \A j \in B : \E i \in C : f[i] = j
    <3> TAKE j \in B
    <3>1. j \in n + 1 .. Len(vals) /\ vals[j] = FLOAT
      BY DEF Places
    <3>2. Len(vals) + 1 - j \in 1 .. k /\ Len(vals) + 1 - (Len(vals) + 1 - j) = j
      BY <1>1, <3>1
    <3>3. types[Len(vals) + 1 - j] = "f"
      BY <1>1, <3>1, <3>2 DEF TypeOf
    <3> QED
      BY <3>2, <3>3
  <2>3. \A i, j \in C : f[i] = f[j] => i = j
    BY <1>1
  <2>4. f \in [C -> B]
    BY <2>1
  <2> HIDE DEF f, B, C
  <2> QED
    BY <2>2, <2>3, <2>4 DEF Bijection, Injection, Surjection, IsInjective
<1>8. Times(FLOAT, vals) = Times(FLOAT, Under(vals, k)) + Cardinality(B)
  BY <1>1, <1>6, TimesSplit
<1>9. Cardinality(B) = Cardinality(C)
  BY <1>4, <1>7, FS_Bijection DEF ExistsBijection
<1> QED
  BY <1>4, <1>8, <1>9 DEF k
\* A handler's balance of floats.
LEMMA TimesApplied ==
  ASSUME NEW vals \in Seq(Values), NEW e \in Effects, Fits(vals, e.pop)
  PROVE  /\ Times("f", e.pop) \in Nat /\ Times("f", e.pop) <= Times(FLOAT, vals)
         /\ Times(FLOAT, e.push) \in Nat
         /\ Times(FLOAT, Under(vals, Len(e.pop)) \o e.push)
              = Times(FLOAT, vals) - Times("f", e.pop) + Times(FLOAT, e.push)
<1>1. e.pop \in Seq(Types) /\ e.push \in Seq(Values) /\ Len(e.pop) \in Nat /\ Len(e.pop) <= Len(vals)
  BY DEF Effects, Fits
<1>2. Under(vals, Len(e.pop)) \in Seq(Values)
  BY <1>1, UnderType
<1>3. /\ Times("f", e.pop) \in Nat /\ Times(FLOAT, e.push) \in Nat /\ Times(FLOAT, vals) \in Nat
      /\ Times(FLOAT, Under(vals, Len(e.pop))) \in Nat
  BY <1>1, <1>2, TimesType
<1>4. Times(FLOAT, vals) = Times(FLOAT, Under(vals, Len(e.pop))) + Times("f", e.pop)
  BY <1>1, TimesUnder
<1>5. Times(FLOAT, Under(vals, Len(e.pop)) \o e.push)
        = Times(FLOAT, Under(vals, Len(e.pop))) + Times(FLOAT, e.push)
  BY <1>1, <1>2, TimesConcat
<1> QED
  BY <1>3, <1>4, <1>5

---------------------------------------------------------------------------
(* Stacks of nothing but floats, which is all that COMPUTE sees.           *)

\* What a sequence of one value looks like.
LEMMA RepeatedType ==
  ASSUME NEW S, NEW x \in S, NEW n \in Nat
  PROVE  /\ Repeated(x, n) \in Seq(S) /\ Len(Repeated(x, n)) = n
         /\ \A i \in 1 .. n : Repeated(x, n)[i] = x
<1>1. Repeated(x, n) \in [1 .. n -> S]
  BY DEF Repeated
<1> QED
  BY <1>1 DEF Repeated

\* A sequence that has one value everywhere is one.
LEMMA RepeatedIs ==
  ASSUME NEW S, NEW s \in Seq(S), NEW x \in S, \A i \in 1 .. Len(s) : s[i] = x
  PROVE  s = Repeated(x, Len(s))
<1>1. Len(s) \in Nat
  OBVIOUS
<1>2. /\ Repeated(x, Len(s)) \in Seq(S) /\ Len(Repeated(x, Len(s))) = Len(s)
      /\ \A i \in 1 .. Len(s) : Repeated(x, Len(s))[i] = x
  BY <1>1, RepeatedType
<1> QED
  BY <1>2, SeqEqual

\* Two of them make a longer one.
LEMMA RepeatedConcat ==
  ASSUME NEW S, NEW x \in S, NEW m \in Nat, NEW n \in Nat
  PROVE  Repeated(x, m) \o Repeated(x, n) = Repeated(x, m + n)
<1> DEFINE s == Repeated(x, m)
           t == Repeated(x, n)
<1>1. /\ s \in Seq(S) /\ Len(s) = m /\ \A i \in 1 .. m : s[i] = x
      /\ t \in Seq(S) /\ Len(t) = n /\ \A i \in 1 .. n : t[i] = x
  BY RepeatedType
<1> HIDE DEF s, t
<1>2. /\ s \o t \in Seq(S) /\ Len(s \o t) = m + n
      /\ \A i \in 1 .. m + n : (s \o t)[i] = IF i <= m THEN s[i] ELSE t[i - m]
  BY <1>1, ConcatProperties
<1>3. \A i \in 1 .. m + n : (s \o t)[i] = x
  <2> TAKE i \in 1 .. m + n
  <2>1. CASE i <= m
    BY <1>1, <1>2, <2>1
  <2>2. CASE ~(i <= m)
    <3>1. i - m \in 1 .. n
      BY <2>2
    <3> QED
      BY <1>1, <1>2, <2>2, <3>1
  <2> QED
    BY <2>1, <2>2
<1>4. s \o t = Repeated(x, Len(s \o t))
  BY <1>2, <1>3, RepeatedIs
<1> QED
  BY <1>2, <1>4 DEF s, t

\* So many floats popped leave the others.
LEMMA PopFloats ==
  ASSUME NEW n \in Nat, NEW m \in 0 .. n, n <= SPORTH_STACK_SIZE
  PROVE  /\ [vals |-> Repeated(FLOAT, n), error |-> FALSE] \in Stacks
         /\ Repeated("f", m) \in Seq(Types)
         /\ Fits(Repeated(FLOAT, n), Repeated("f", m))
         /\ Under(Repeated(FLOAT, n), m) = Repeated(FLOAT, n - m)
         /\ PopAll([vals |-> Repeated(FLOAT, n), error |-> FALSE], Repeated("f", m))
              = [vals |-> Repeated(FLOAT, n - m), error |-> FALSE]
<1> DEFINE s == Repeated(FLOAT, n)
           t == Repeated("f", m)
           st == [vals |-> s, error |-> FALSE]
<1>1. FLOAT \in Values /\ "f" \in Types /\ m \in Nat /\ n - m \in Nat /\ m <= n
  BY DEF Values, Types
<1>2. /\ s \in Seq(Values) /\ Len(s) = n /\ \A i \in 1 .. n : s[i] = FLOAT
      /\ t \in Seq(Types) /\ Len(t) = m /\ \A i \in 1 .. m : t[i] = "f"
  BY <1>1, RepeatedType
<1> HIDE DEF s, t
<1>3. st \in Stacks
  BY <1>2 DEF Stacks
<1>4. Fits(s, t)
  <2>1. \A i \in 1 .. m : n + 1 - i \in 1 .. n
    BY <1>1
  <2>2. \A i \in 1 .. m : TypeOf(FromTop(s, i)) = t[i]
    BY <1>2, <2>1 DEF FromTop, TypeOf
  <2> QED
    BY <1>1, <1>2, <2>2 DEF Fits
<1>5. Under(s, m) = Repeated(FLOAT, n - m)
  <2>1. /\ Under(s, m) \in Seq(Values) /\ Len(Under(s, m)) = n - m
        /\ \A i \in 1 .. n - m : Under(s, m)[i] = s[i]
    BY <1>1, <1>2, UnderType
  <2>2. \A i \in 1 .. n - m : i \in 1 .. n
    BY <1>1
  <2>3. \A i \in 1 .. Len(Under(s, m)) : Under(s, m)[i] = FLOAT
    BY <1>2, <2>1, <2>2
  <2> QED
    BY <1>1, <2>1, <2>3, RepeatedIs
<1>6. PopAll(st, t) = [vals |-> Repeated(FLOAT, n - m), error |-> FALSE]
  BY <1>2, <1>3, <1>4, <1>5, PopAllExact
<1> QED
  BY <1>2, <1>3, <1>4, <1>5, <1>6 DEF s, t

\* A handler that takes floats and leaves floats, with floats enough and room.
LEMMA ApplyFloats ==
  ASSUME NEW e \in Effects, NEW n \in Nat, NEW c \in 0 .. n, NEW d \in Nat,
         e.pop = Repeated("f", c), e.push = Repeated(FLOAT, d),
         n <= SPORTH_STACK_SIZE, n - c + d <= SPORTH_STACK_SIZE
  PROVE  Apply(e, [vals |-> Repeated(FLOAT, n), error |-> FALSE])
           = [vals |-> Repeated(FLOAT, n - c + d), error |-> FALSE]
<1> DEFINE p == [vals |-> Repeated(FLOAT, n - c), error |-> FALSE]
<1>1. FLOAT \in Values /\ n - c \in Nat /\ n - c <= SPORTH_STACK_SIZE /\ 0 \in 0 .. n - c
  BY StackAssumption DEF Values
<1>2. PopAll([vals |-> Repeated(FLOAT, n), error |-> FALSE], e.pop) = p
  BY PopFloats
<1>3. p \in Stacks
  BY <1>1, PopFloats
<1>4. /\ Repeated(FLOAT, d) \in Seq(Values) /\ Len(Repeated(FLOAT, d)) = d
      /\ Len(Repeated(FLOAT, n - c)) = n - c
  BY <1>1, RepeatedType
<1>5. PushAll(p, Repeated(FLOAT, d))
        = [vals |-> Repeated(FLOAT, n - c) \o Repeated(FLOAT, d), error |-> FALSE]
  BY <1>3, <1>4, PushAllExact
<1>6. Repeated(FLOAT, n - c) \o Repeated(FLOAT, d) = Repeated(FLOAT, n - c + d)
  BY <1>1, RepeatedConcat
<1> QED
  BY <1>2, <1>5, <1>6 DEF Apply

\* One float more.
LEMMA PushFloat ==
  ASSUME NEW n \in Nat, n + 1 <= SPORTH_STACK_SIZE
  PROVE  Push([vals |-> Repeated(FLOAT, n), error |-> FALSE], FLOAT)
           = [vals |-> Repeated(FLOAT, n + 1), error |-> FALSE]
<1> DEFINE s == Repeated(FLOAT, n)
           st == [vals |-> s, error |-> FALSE]
<1>1. FLOAT \in Values /\ n <= SPORTH_STACK_SIZE /\ 0 \in 0 .. n
  BY StackAssumption DEF Values
<1>2. s \in Seq(Values) /\ Len(s) = n /\ \A i \in 1 .. n : s[i] = FLOAT
  BY <1>1, RepeatedType
<1>3. st \in Stacks
  BY <1>1, PopFloats
<1> HIDE DEF s
<1>4. Push(st, FLOAT) = [vals |-> Append(s, FLOAT), error |-> FALSE]
  BY <1>1, <1>2, <1>3, PushExact
<1>5. /\ Append(s, FLOAT) \in Seq(Values) /\ Len(Append(s, FLOAT)) = n + 1
      /\ \A i \in 1 .. n + 1 : Append(s, FLOAT)[i] = FLOAT
  BY <1>1, <1>2
<1>6. Append(s, FLOAT) = Repeated(FLOAT, n + 1)
  BY <1>1, <1>5, RepeatedIs
<1> QED
  BY <1>4, <1>6 DEF s
===========================================================================
