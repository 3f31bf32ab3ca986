---------------------------- MODULE VoicesProofs ----------------------------
(***************************************************************************)
(* Proofs about the voices of PolySporth, for any number of them: the list *)
(* stays one list, the loops over it visit each voice once while they      *)
(* remove some, and no voice that asked to be silent is left behind.       *)
(***************************************************************************)
EXTENDS Voices, FiniteSetTheorems, WellFoundedInduction, TLAPS

Lists == [state : [Ids -> States], dur : [Ids -> Int], noteoff : [Ids -> BOOLEAN],
          next : [Ids \cup {Root} -> Ids \cup {Nil}],
          prev : [Ids -> Ids \cup {Nil}], nvoices : 0 .. ninstances]

\* A walk names the root and then the voices of the list, each once.
Names(s, w) ==
  /\ s.nvoices \in Nat
  /\ w = [n \in 0 .. s.nvoices |-> w[n]]
  /\ w[0] = Root /\ \A n \in 1 .. s.nvoices : w[n] \in Ids
  /\ \A m, n \in 1 .. s.nvoices : w[m] = w[n] => m = n

\* Its links: next from each name to the following, prev back to a voice, and
\* none for the voices outside.
Links(s, w) ==
  /\ \A n \in 1 .. s.nvoices : s.next[w[n - 1]] = w[n]
  /\ s.next[w[s.nvoices]] = Nil
  /\ \A n \in 2 .. s.nvoices : s.prev[w[n]] = w[n - 1]
  /\ \A id \in Ids : (\A n \in 1 .. s.nvoices : w[n] # id) => s.next[id] = Nil

\* The states that belong to the list, and those that do not.
Sounding(s, w) ==
  /\ \A n \in 1 .. s.nvoices : s.state[w[n]] \in {PS_ON, PS_NOTEOFF, PS_PLEASE_SHUTUP}
  /\ \A id \in Ids : s.state[id] \in {PS_ON, PS_PLEASE_SHUTUP} => \E n \in 1 .. s.nvoices : w[n] = id

Sound(s, w) == s \in Lists /\ Names(s, w) /\ Links(s, w) /\ Sounding(s, w)

\* The marks are no voices.
LEMMA OutsideIds == Root \notin Ids /\ Nil \notin Ids /\ Root # Nil
<1> QED
  BY VoicesAssumption DEF Ids, Root, Nil

\* A set of numbers that is not empty has a least one.
LEMMA LeastNumber ==
  ASSUME NEW T, T \subseteq Nat, T # {}
  PROVE  \E x \in T : \A y \in T : x <= y
<1>1. IsWellFoundedOn(OpToRel(<, Nat), Nat)
  BY NatLessThanWellFounded
<1>2. PICK x \in T : \A y \in T : <<y, x>> \notin OpToRel(<, Nat)
  BY <1>1, WFMin
<1>3. \A y \in T : ~(y < x)
  BY <1>2 DEF OpToRel
<1> QED
  BY <1>3

\* The walk of a list is the only one.
LEMMA WalkIs ==
  ASSUME NEW s, NEW w, Names(s, w), Links(s, w)
  PROVE  Walk(s) = w
<1> DEFINE Step(f, n) == IF n = 0 THEN Root ELSE IF f[n - 1] = Nil THEN Nil ELSE s.next[f[n - 1]]
           N == s.nvoices
<1>0. N \in Nat
  BY DEF Names
<1>1. w = [n \in 0 .. N |-> Step(w, n)]
  <2>1. \A n \in 0 .. N : w[n] = Step(w, n)
    <3> TAKE n \in 0 .. N
    <3>1. CASE n = 0
      BY <3>1 DEF Names
    <3>2. CASE n # 0
      <4>1. n \in 1 .. N /\ n - 1 \in 0 .. N /\ (n - 1 = 0 \/ n - 1 \in 1 .. N)
        BY <3>2, <1>0
      <4>2. w[n - 1] # Nil
        <5>1. Nil \notin Ids /\ Root # Nil
          BY OutsideIds
        <5>2. w[0] = Root /\ \A i \in 1 .. N : w[i] \in Ids
          BY DEF Names
        <5> HIDE DEF N
        <5> QED
          BY <4>1, <5>1, <5>2
      <4> QED
        BY <3>2, <4>1, <4>2 DEF Links
    <3> QED
      BY <3>1, <3>2
  <2> QED
    BY <2>1 DEF Names
<1>2. Walk(s) = CHOOSE f : f = [n \in 0 .. N |-> Step(f, n)]
  BY DEF Walk
<1> HIDE DEF N, Step
<1>3. Walk(s) = [n \in 0 .. N |-> Step(Walk(s), n)]
  BY <1>1, <1>2, Zenon
<1> USE DEF Step
<1> DEFINE T == {n \in 0 .. N : Walk(s)[n] # w[n]}
<1>4. T = {}
  <2> SUFFICES ASSUME T # {} PROVE FALSE
    OBVIOUS
  <2>1. T \subseteq Nat
    BY <1>0
  <2>2. PICK n \in T : \A m \in T : n <= m
    BY <2>1, LeastNumber
  <2>3. n \in 0 .. N /\ Walk(s)[n] = Step(Walk(s), n) /\ w[n] = Step(w, n)
    BY <1>1, <1>3
  <2>4. CASE n = 0
    BY <2>2, <2>3, <2>4
  <2>5. CASE n # 0
    <3>1. n - 1 \in 0 .. N /\ n - 1 \notin T
      BY <1>0, <2>2, <2>3, <2>5
    <3>2. Walk(s)[n - 1] = w[n - 1]
      BY <3>1
    <3> QED
      BY <2>2, <2>3, <2>5, <3>2
  <2> QED
    BY <2>4, <2>5
<1>5. \A n \in 0 .. N : Walk(s)[n] = w[n]
  BY <1>4
<1> QED
  BY <1>1, <1>3, <1>5

\* The last r voices of a walk.
Remaining(s, w, r) == {w[n] : n \in s.nvoices - r + 1 .. s.nvoices}

\* They are r voices.
LEMMA RemainingCount ==
  ASSUME NEW s, NEW w, Names(s, w), NEW r \in 0 .. s.nvoices
  PROVE  /\ IsFiniteSet(Remaining(s, w, r)) /\ Cardinality(Remaining(s, w, r)) = r
         /\ Remaining(s, w, r) \subseteq Ids
<1> DEFINE R == Remaining(s, w, r)
           from == s.nvoices - r
           f == [n \in 1 .. r |-> w[from + n]]
<1>1. from \in Nat /\ s.nvoices \in Nat /\ r \in Nat /\ from + r = s.nvoices
  BY DEF Names
<1> HIDE DEF from
<1>2. R = {w[n] : n \in from + 1 .. from + r}
  BY <1>1 DEF Remaining, from
<1> HIDE DEF R
<1>3. \A n \in 1 .. r : from + n \in 1 .. s.nvoices /\ f[n] = w[from + n] /\ f[n] \in R
  BY <1>1, <1>2
<1>4. \A m, n \in 1 .. r : f[m] = f[n] => m = n
  <2> TAKE m, n \in 1 .. r
  <2> HAVE f[m] = f[n]
  <2>1. from + m = from + n
    BY <1>3 DEF Names
  <2> QED
    BY <1>1, <2>1
<1>5. \A x \in R : \E n \in 1 .. r : f[n] = x
  <2> TAKE x \in R
  <2>1. PICK n \in from + 1 .. from + r : x = w[n]
    BY <1>2
  <2>2. n - from \in 1 .. r /\ from + (n - from) = n
    BY <1>1, <2>1
  <2> QED
    BY <2>1, <2>2
<1>6. f \in [1 .. r -> R] /\ DOMAIN f = 1 .. r
  BY <1>3
<1> HIDE DEF f
<1>7. f \in Bijection(1 .. r, R)
  BY <1>4, <1>5, <1>6 DEF Bijection, Injection, Surjection, IsInjective
<1>8. IsFiniteSet(R) /\ Cardinality(R) = r
  BY <1>1, <1>7, FS_CountingElements, FS_NatBijection DEF ExistsBijection
<1>9. R \subseteq Ids
  BY <1>1, <1>2 DEF Names
<1> QED
  BY <1>8, <1>9 DEF R

\* There are no more of them than voices, and less if one is missing.
LEMMA NamesFit ==
  ASSUME NEW s, NEW w, Names(s, w)
  PROVE  /\ s.nvoices <= ninstances
         /\ \A id \in Ids : (\A n \in 1 .. s.nvoices : w[n] # id) => s.nvoices < ninstances
<1> DEFINE N == s.nvoices
           R == Remaining(s, w, N)
<1>1. N \in Nat /\ ninstances \in Nat
  BY VoicesAssumption DEF Names
<1>2. IsFiniteSet(R) /\ Cardinality(R) = N /\ R \in SUBSET Ids
  BY <1>1, RemainingCount
<1>3. R = {w[n] : n \in 1 .. N}
  BY <1>1 DEF Remaining
<1>4. IsFiniteSet(Ids) /\ Cardinality(Ids) = ninstances
  BY <1>1, FS_Interval, VoicesAssumption DEF Ids
<1>5. N <= ninstances /\ (N = ninstances => R = Ids)
  BY <1>2, <1>4, FS_Subset
<1> QED
  BY <1>1, <1>3, <1>5
-----------------------------------------------------------------------------
\* A walk with a new first voice, and one without its k-th.
With(w, N, id) == [n \in 0 .. N + 1 |-> IF n = 0 THEN Root ELSE IF n = 1 THEN id ELSE w[n - 1]]
Without(w, N, k) == [n \in 0 .. N - 1 |-> IF n < k THEN w[n] ELSE w[n + 1]]

\* Turning a voice on puts it in front of the list.
LEMMA TurnOnKeepsList ==
  ASSUME NEW s, NEW w, Sound(s, w), NEW id \in Ids, NEW dur \in Int, s.state[id] = PS_OFF
  PROVE  LET t == ps_turnon_sporthlet(s, id, dur) IN
         /\ Sound(t, With(w, s.nvoices, id))
         /\ t.state = [s.state EXCEPT ![id] = PS_ON] /\ t.dur = [s.dur EXCEPT ![id] = dur]
         /\ t.noteoff = s.noteoff
<1> DEFINE t == ps_turnon_sporthlet(s, id, dur)
           N == s.nvoices
           v == With(w, N, id)
           first == s.next[Root]
<1>1. /\ s \in Lists /\ Names(s, w) /\ Links(s, w) /\ Sounding(s, w) /\ N \in Nat
      /\ Root \notin Ids /\ Nil \notin Ids /\ Root # Nil
  BY OutsideIds DEF Sound, Names
<1>2. \A n \in 1 .. N : w[n] # id
  BY <1>1 DEF Sounding, PS_ON, PS_OFF, PS_NOTEOFF, PS_PLEASE_SHUTUP
<1>3. s.next[id] = Nil /\ N + 1 \in 0 .. ninstances
  BY <1>1, <1>2, NamesFit, VoicesAssumption DEF Links
<1>4. /\ N = 0 => first = Nil
      /\ N > 0 => first = w[1] /\ first \in Ids /\ first # id
  <2>1. w[0] = Root
    BY <1>1 DEF Names
  <2>2. CASE N = 0
    BY <1>1, <2>1, <2>2 DEF Links
  <2>3. CASE N > 0
    <3>1. 1 \in 1 .. N /\ 1 - 1 = 0
      BY <1>1, <2>3
    <3>2. s.next[w[1 - 1]] = w[1] /\ w[1] \in Ids
      BY <1>1, <3>1 DEF Names, Links
    <3> QED
      BY <1>1, <1>2, <2>1, <2>3, <3>1, <3>2
  <2> QED
    BY <1>1, <2>2, <2>3
<1>5. /\ t.next = [s.next EXCEPT ![id] = first, ![Root] = id]
      /\ t.prev = IF N = 0 THEN s.prev ELSE [s.prev EXCEPT ![first] = id]
      /\ t.state = [s.state EXCEPT ![id] = PS_ON] /\ t.dur = [s.dur EXCEPT ![id] = dur]
      /\ t.noteoff = s.noteoff /\ t.nvoices = N + 1
      /\ t = [state |-> t.state, dur |-> t.dur, noteoff |-> t.noteoff, next |-> t.next,
              prev |-> t.prev, nvoices |-> t.nvoices]
  <2>1. CASE N = 0
    <3>1. [s.next EXCEPT ![id] = first, ![Root] = id] = [s.next EXCEPT ![Root] = id]
      BY <1>1, <1>3, <1>4, <2>1 DEF Lists
    <3> QED
      BY <1>1, <2>1, <3>1 DEF ps_turnon_sporthlet, Lists
  <2>2. CASE N # 0
    BY <1>1, <2>2 DEF ps_turnon_sporthlet, Lists
  <2> QED
    BY <2>1, <2>2
<1> HIDE DEF t, first
<1>6. t \in Lists
  <2>1. t.next \in [Ids \cup {Root} -> Ids \cup {Nil}] /\ t.prev \in [Ids -> Ids \cup {Nil}]
    BY <1>1, <1>4, <1>5 DEF Lists
  <2>2. t.state \in [Ids -> States] /\ t.dur \in [Ids -> Int] /\ t.noteoff \in [Ids -> BOOLEAN]
    BY <1>1, <1>5 DEF Lists, States
  <2> QED
    BY <1>3, <1>5, <2>1, <2>2 DEF Lists
<1>7. /\ DOMAIN v = 0 .. N + 1 /\ v[0] = Root /\ v[1] = id
      /\ \A n \in 2 .. N + 1 : v[n] = w[n - 1] /\ n - 1 \in 1 .. N
  BY <1>1 DEF With
<1>8. Names(t, v)
  <2>1. v = [n \in 0 .. t.nvoices |-> v[n]]
    BY <1>1, <1>5 DEF With
  <2> HIDE DEF v
  <2>2. \A n \in 1 .. N + 1 : v[n] \in Ids
    <3> TAKE n \in 1 .. N + 1
    <3>1. n = 1 \/ n \in 2 .. N + 1
      BY <1>1
    <3> QED
      BY <1>1, <1>7, <3>1 DEF Names
  <2>3. ASSUME NEW m \in 1 .. N + 1, NEW n \in 1 .. N + 1, v[m] = v[n] PROVE m = n
    <3>1. CASE m = 1 \/ n = 1
      BY <1>1, <1>2, <1>7, <2>3, <3>1
    <3>2. CASE m # 1 /\ n # 1
      <4>1. m \in 2 .. N + 1 /\ n \in 2 .. N + 1
        BY <1>1, <3>2
      <4>2. w[m - 1] = w[n - 1] /\ m - 1 \in 1 .. N /\ n - 1 \in 1 .. N
        BY <1>7, <2>3, <4>1
      <4>3. m - 1 = n - 1
        BY <1>1, <4>2 DEF Names
      <4> QED
        BY <1>1, <4>3
    <3> QED
      BY <3>1, <3>2
  <2>4. t.nvoices = N + 1 /\ t.nvoices \in Nat
    BY <1>1, <1>5
  <2> QED
    BY <1>7, <2>1, <2>2, <2>3, <2>4 DEF Names
<1> HIDE DEF v
<1>9. Links(t, v)
  <2>1. t.next[Root] = id /\ t.next[id] = first
        /\ \A i \in Ids : i # id => t.next[i] = s.next[i]
    BY <1>1, <1>5 DEF Lists
  <2>2. ASSUME NEW n \in 1 .. N + 1 PROVE t.next[v[n - 1]] = v[n]
    <3>1. CASE n = 1
      BY <1>7, <2>1, <3>1
    <3>2. CASE n = 2
      BY <1>1, <1>4, <1>7, <2>1, <3>2
    <3>3. CASE n > 2
      <4>1. n - 1 \in 2 .. N + 1 /\ n - 1 - 1 = n - 2 /\ n - 2 \in 1 .. N /\ n - 1 \in 1 .. N
        BY <1>1, <3>3
      <4>2. v[n - 1] = w[n - 2] /\ v[n] = w[n - 1]
        BY <1>7, <3>3, <4>1
      <4>3. s.next[w[n - 2]] = w[n - 1]
        BY <1>1, <4>1 DEF Links
      <4> QED
        BY <1>1, <1>2, <2>1, <4>1, <4>2, <4>3 DEF Names
    <3> QED
      BY <1>1, <3>1, <3>2, <3>3
  <2>3. t.next[v[N + 1]] = Nil
    <3>1. CASE N = 0
      BY <1>4, <1>7, <2>1, <3>1
    <3>2. CASE N # 0
      <4>1. v[N + 1] = w[N] /\ N \in 1 .. N
        BY <1>1, <1>7, <3>2
      <4> QED
        BY <1>1, <1>2, <2>1, <4>1 DEF Names, Links
    <3> QED
      BY <3>1, <3>2
  <2>4. ASSUME NEW n \in 2 .. N + 1 PROVE t.prev[v[n]] = v[n - 1]
    <3>1. N > 0 /\ t.prev[first] = id /\ \A i \in Ids : i # first => t.prev[i] = s.prev[i]
      BY <1>1, <1>4, <1>5 DEF Lists
    <3>2. CASE n = 2
      BY <1>1, <1>4, <1>7, <3>1, <3>2
    <3>3. CASE n > 2
      <4>1. n - 1 \in 2 .. N /\ v[n] = w[n - 1] /\ v[n - 1] = w[n - 1 - 1]
        BY <1>1, <1>7, <3>3
      <4>2. n - 1 \in 1 .. N /\ 1 \in 1 .. N /\ n - 1 # 1 /\ first = w[1]
        BY <1>1, <1>4, <3>1, <4>1
      <4>3. w[n - 1] # first /\ w[n - 1] \in Ids
        BY <1>1, <4>2 DEF Names
      <4>4. s.prev[w[n - 1]] = w[n - 1 - 1]
        BY <1>1, <4>1 DEF Links
      <4> QED
        BY <3>1, <4>1, <4>3, <4>4
    <3> QED
      BY <1>1, <3>2, <3>3
  <2>5. ASSUME NEW i \in Ids, \A n \in 1 .. N + 1 : v[n] # i PROVE t.next[i] = Nil
    <3>1. i # id
      BY <1>1, <1>7, <2>5
    <3>2. \A n \in 1 .. N : w[n] # i
      <4> TAKE n \in 1 .. N
      <4>1. n + 1 \in 2 .. N + 1 /\ n + 1 \in 1 .. N + 1 /\ n + 1 - 1 = n
        BY <1>1
      <4> QED
        BY <1>7, <2>5, <4>1
    <3> QED
      BY <1>1, <2>1, <3>1, <3>2 DEF Links
  <2> QED
    BY <1>5, <2>2, <2>3, <2>4, <2>5 DEF Links
<1>10. Sounding(t, v)
  <2>1. t.state[id] = PS_ON /\ \A i \in Ids : i # id => t.state[i] = s.state[i]
    BY <1>1, <1>5 DEF Lists
  <2>2. ASSUME NEW n \in 1 .. N + 1
        PROVE  t.state[v[n]] \in {PS_ON, PS_NOTEOFF, PS_PLEASE_SHUTUP}
    <3>1. CASE n = 1
      BY <1>7, <2>1, <3>1
    <3>2. CASE n # 1
      <4>1. v[n] = w[n - 1] /\ n - 1 \in 1 .. N
        BY <1>1, <1>7, <3>2
      <4> QED
        BY <1>1, <1>2, <2>1, <4>1 DEF Names, Sounding
    <3> QED
      BY <3>1, <3>2
  <2>3. ASSUME NEW i \in Ids, t.state[i] \in {PS_ON, PS_PLEASE_SHUTUP}
        PROVE  \E n \in 1 .. N + 1 : v[n] = i
    <3>1. CASE i = id
      BY <1>1, <1>7, <3>1
    <3>2. CASE i # id
      <4>1. PICK n \in 1 .. N : w[n] = i
        BY <1>1, <2>1, <2>3, <3>2 DEF Sounding
      <4>2. n + 1 \in 1 .. N + 1 /\ v[n + 1] = i
        BY <1>1, <1>7, <4>1
      <4> QED
        BY <4>2
    <3> QED
      BY <3>1, <3>2
  <2> QED
    BY <1>5, <2>2, <2>3 DEF Sounding
<1> QED
  BY <1>5, <1>6, <1>8, <1>9, <1>10 DEF Sound, t, v

\* Turning a voice off takes it out of the list, wherever it stands.
LEMMA TurnOffKeepsList ==
  ASSUME NEW s, NEW w, Sound(s, w), NEW k \in 1 .. s.nvoices, CanTurnOff(s, w[k])
  PROVE  LET t == ps_turnoff_sporthlet(s, w[k]) IN
         /\ Sound(t, Without(w, s.nvoices, k)) /\ t.nvoices = s.nvoices - 1
         /\ t.state = [s.state EXCEPT ![w[k]] = PS_OFF] /\ t.dur = s.dur /\ t.noteoff = s.noteoff
<1> DEFINE id == w[k]
           t == ps_turnoff_sporthlet(s, id)
           N == s.nvoices
           v == Without(w, N, k)
           next == s.next[id]
           before == w[k - 1]
<1>1. /\ s \in Lists /\ Names(s, w) /\ Links(s, w) /\ Sounding(s, w) /\ N \in Nat
      /\ Root \notin Ids /\ Nil \notin Ids /\ Root # Nil
  BY OutsideIds DEF Sound, Names
<1>2. /\ k \in 1 .. N /\ k - 1 \in 0 .. N /\ id \in Ids /\ N - 1 \in Nat /\ N - 1 \in 0 .. ninstances
      /\ N \in Nat /\ k \in Nat /\ k >= 1 /\ k <= N
      /\ w[0] = Root /\ \A n \in 1 .. N : w[n] \in Ids
  <2>1. N <= ninstances /\ ninstances \in Nat
    BY <1>1, NamesFit, VoicesAssumption
  <2>2. w[0] = Root /\ \A n \in 1 .. N : w[n] \in Ids
    BY <1>1 DEF Names
  <2> QED
    BY <1>1, <2>1, <2>2
<1>3. \A m, n \in 0 .. N : w[m] = w[n] => m = n
  <2> TAKE m, n \in 0 .. N
  <2>1. m \in 1 .. N /\ n \in 1 .. N => (w[m] = w[n] => m = n)
    BY <1>1 DEF Names
  <2> QED
    BY <1>1, <1>2, <2>1
<1>4. /\ k = N => next = Nil
      /\ k < N => next = w[k + 1] /\ next \in Ids /\ next # Nil
  <2>1. CASE k = N
    BY <1>1, <2>1 DEF Links
  <2>2. CASE k < N
    <3>1. k + 1 \in 1 .. N /\ k + 1 - 1 = k
      BY <1>1, <1>2, <2>2
    <3>2. s.next[w[k + 1 - 1]] = w[k + 1] /\ w[k + 1] \in Ids
      BY <1>1, <1>2, <3>1 DEF Links
    <3> QED
      BY <1>1, <2>2, <3>1, <3>2
  <2> QED
    BY <1>2, <2>1, <2>2
<1>5. (s.next[Root] = id <=> k = 1) /\ before # id
  <2>1. before # id
    BY <1>2, <1>3
  <2>2. 1 \in 1 .. N /\ 1 - 1 = 0
    BY <1>1, <1>2
  <2>3. s.next[Root] = w[1]
    BY <1>1, <1>2, <2>2 DEF Links
  <2> QED
    BY <1>2, <1>3, <2>1, <2>2, <2>3
<1>6. k > 1 => s.prev[id] = before /\ before \in Ids
  <2>1. k > 1 => k \in 2 .. N /\ k - 1 \in 1 .. N
    BY <1>1, <1>2
  <2> QED
    BY <1>1, <1>2, <2>1 DEF Links
<1>7. k = 1 => before = Root
  BY <1>2
<1> HIDE DEF next, before
<1>8. /\ t.next = [s.next EXCEPT ![before] = next, ![id] = Nil]
      /\ t.prev = IF 1 < k /\ k < N THEN [s.prev EXCEPT ![next] = before, ![id] = Nil]
                  ELSE [s.prev EXCEPT ![id] = Nil]
      /\ t.state = [s.state EXCEPT ![id] = PS_OFF] /\ t.dur = s.dur
      /\ t.noteoff = s.noteoff /\ t.nvoices = N - 1
      /\ t = [state |-> t.state, dur |-> t.dur, noteoff |-> t.noteoff, next |-> t.next,
              prev |-> t.prev, nvoices |-> t.nvoices]
  <2>1. CASE k = 1
    <3>1. t = [[s EXCEPT !.next[Root] = next] EXCEPT !.state[id] = PS_OFF, !.next[id] = Nil,
                                                     !.prev[id] = Nil, !.nvoices = @ - 1]
      BY <1>5, <2>1 DEF ps_turnoff_sporthlet, next
    <3> HIDE DEF t, id
    <3>2. before = Root /\ ~(1 < k /\ k < N)
      BY <1>7, <2>1
    <3> QED
      BY <1>1, <3>1, <3>2 DEF Lists
  <2>2. CASE k > 1 /\ k = N
    BY <1>1, <1>2, <1>4, <1>5, <1>6, <2>2 DEF ps_turnoff_sporthlet, Lists, next
  <2>3. CASE k > 1 /\ k < N
    <3>1. next # Nil /\ s.next[Root] # id /\ s.prev[id] = before /\ 1 < k
      BY <1>4, <1>5, <1>6, <2>3
    <3>2. t = [[s EXCEPT !.next[before] = next, !.prev[next] = before]
                 EXCEPT !.state[id] = PS_OFF, !.next[id] = Nil, !.prev[id] = Nil, !.nvoices = @ - 1]
      BY <3>1 DEF ps_turnoff_sporthlet, next
    <3> HIDE DEF t, id
    <3> QED
      BY <1>1, <2>3, <3>1, <3>2 DEF Lists
  <2> QED
    BY <1>1, <1>2, <2>1, <2>2, <2>3
<1> HIDE DEF t, id
<1>9. before \in Ids \cup {Root} /\ next \in Ids \cup {Nil}
  BY <1>2, <1>4, <1>6, <1>7
<1>10. t \in Lists
  <2>1. t.next \in [Ids \cup {Root} -> Ids \cup {Nil}]
    BY <1>1, <1>8, <1>9 DEF Lists
  <2>2. t.prev \in [Ids -> Ids \cup {Nil}]
    BY <1>1, <1>2, <1>4, <1>6, <1>8 DEF Lists
  <2>3. t.state \in [Ids -> States] /\ t.dur \in [Ids -> Int] /\ t.noteoff \in [Ids -> BOOLEAN]
    <3>1. /\ s.state \in [Ids -> States] /\ s.dur \in [Ids -> Int]
          /\ s.noteoff \in [Ids -> BOOLEAN]
      BY <1>1 DEF Lists
    <3>2. PS_OFF \in States
      BY DEF States
    <3> QED
      BY <1>8, <3>1, <3>2
  <2> QED
    BY <1>2, <1>8, <2>1, <2>2, <2>3 DEF Lists
<1>11. \A n \in 0 .. N - 1 : n + 1 \in 0 .. N /\ v[n] = IF n < k THEN w[n] ELSE w[n + 1]
  BY <1>1 DEF Without
<1>12. v = [n \in 0 .. t.nvoices |-> v[n]]
  BY <1>8 DEF Without
<1> HIDE DEF v
<1>13. Names(t, v)
  <2>1. v[0] = Root
    BY <1>2, <1>11
  <2>2. \A n \in 1 .. N - 1 : v[n] \in Ids
    <3> TAKE n \in 1 .. N - 1
    <3>1. n \in 0 .. N - 1 /\ n \in 1 .. N /\ n + 1 \in 1 .. N
      BY <1>1
    <3> QED
      BY <1>2, <1>11, <3>1
  <2>3. ASSUME NEW m \in 1 .. N - 1, NEW n \in 1 .. N - 1, v[m] = v[n] PROVE m = n
    <3>1. /\ m \in 0 .. N - 1 /\ n \in 0 .. N - 1 /\ m + 1 \in 0 .. N /\ n + 1 \in 0 .. N
          /\ m \in 0 .. N /\ n \in 0 .. N
      BY <1>1
    <3>2. (IF m < k THEN w[m] ELSE w[m + 1]) = (IF n < k THEN w[n] ELSE w[n + 1])
      BY <1>11, <2>3, <3>1
    <3> QED
      BY <1>2, <1>3, <3>1, <3>2
  <2>4. t.nvoices = N - 1 /\ t.nvoices \in Nat
    BY <1>2, <1>8
  <2> QED
    BY <1>12, <2>1, <2>2, <2>3, <2>4 DEF Names
<1>14. /\ t.next[before] = next /\ t.next[id] = Nil
       /\ \A i \in Ids \cup {Root} : i # id /\ i # before => t.next[i] = s.next[i]
  BY <1>1, <1>2, <1>5, <1>8, <1>9 DEF Lists, id
<1>15. Links(t, v)
  <2>1. ASSUME NEW n \in 1 .. N - 1 PROVE t.next[v[n - 1]] = v[n]
    <3>1. /\ n - 1 \in 0 .. N - 1 /\ n \in 0 .. N - 1 /\ n \in 1 .. N /\ n + 1 \in 1 .. N
          /\ n - 1 + 1 = n /\ n + 1 - 1 = n /\ n - 1 \in 0 .. N
      BY <1>1
    <3>2. s.next[w[n - 1]] = w[n] /\ s.next[w[n]] = w[n + 1]
      BY <1>1, <3>1 DEF Links
    <3>3. CASE n < k
      <4>1. v[n - 1] = w[n - 1] /\ v[n] = w[n]
        BY <1>2, <1>11, <3>1, <3>3
      <4>2. w[n - 1] # before /\ w[n - 1] # id /\ w[n - 1] \in Ids \cup {Root}
        BY <1>2, <1>3, <3>1, <3>3 DEF before, id
      <4> QED
        BY <1>14, <3>2, <4>1, <4>2
    <3>4. CASE n = k
      <4>1. v[n - 1] = before /\ v[n] = w[k + 1]
        BY <1>2, <1>11, <3>1, <3>4 DEF before
      <4> QED
        BY <1>2, <1>4, <1>14, <3>1, <3>4, <4>1
    <3>5. CASE n > k
      <4>1. v[n - 1] = w[n] /\ v[n] = w[n + 1]
        BY <1>2, <1>11, <3>1, <3>5
      <4>2. w[n] # before /\ w[n] # id /\ w[n] \in Ids
        BY <1>2, <1>3, <3>1, <3>5 DEF before, id
      <4> QED
        BY <1>14, <3>2, <4>1, <4>2
    <3> QED
      BY <1>2, <3>3, <3>4, <3>5
  <2>2. t.next[v[N - 1]] = Nil
    <3>1. CASE k = N
      <4>1. v[N - 1] = before
        BY <1>2, <1>11, <3>1 DEF before
      <4> QED
        BY <1>4, <1>14, <3>1, <4>1
    <3>2. CASE k < N
      <4>1. v[N - 1] = w[N] /\ N \in 1 .. N
        BY <1>2, <1>11, <3>2
      <4>2. w[N] # before /\ w[N] # id /\ w[N] \in Ids /\ s.next[w[N]] = Nil
        BY <1>1, <1>2, <1>3, <3>2, <4>1 DEF before, id, Links
      <4> QED
        BY <1>14, <4>1, <4>2
    <3> QED
      BY <1>2, <3>1, <3>2
  <2>3. ASSUME NEW n \in 2 .. N - 1 PROVE t.prev[v[n]] = v[n - 1]
    <3>1. /\ n - 1 \in 0 .. N - 1 /\ n \in 0 .. N - 1 /\ n \in 2 .. N /\ n + 1 \in 2 .. N
          /\ n - 1 + 1 = n /\ n + 1 - 1 = n /\ n \in 1 .. N /\ n + 1 \in 1 .. N
          /\ n \in 0 .. N /\ n + 1 \in 0 .. N
      BY <1>1
    <3>2. s.prev[w[n]] = w[n - 1] /\ s.prev[w[n + 1]] = w[n]
      BY <1>1, <3>1 DEF Links
    <3>3. CASE n < k
      <4>1. v[n - 1] = w[n - 1] /\ v[n] = w[n]
        BY <1>2, <1>11, <3>1, <3>3
      <4>2. k < N => w[n] # next
        BY <1>2, <1>3, <1>4, <3>1, <3>3
      <4>3. w[n] # id /\ w[n] \in Ids
        BY <1>2, <1>3, <3>1, <3>3 DEF id
      <4> QED
        BY <1>1, <1>2, <1>4, <1>8, <3>2, <4>1, <4>2, <4>3 DEF Lists
    <3>4. CASE n = k
      <4>1. v[n - 1] = before /\ v[n] = w[k + 1] /\ 1 < k /\ k < N
        BY <1>2, <1>11, <3>1, <3>4 DEF before
      <4>2. v[n] = next /\ next # id
        BY <1>2, <1>3, <1>4, <3>1, <3>4, <4>1 DEF id
      <4> QED
        BY <1>1, <1>2, <1>4, <1>8, <4>1, <4>2 DEF Lists
    <3>5. CASE n > k
      <4>1. v[n - 1] = w[n] /\ v[n] = w[n + 1]
        BY <1>2, <1>11, <3>1, <3>5
      <4>2. w[n + 1] # next
        BY <1>2, <1>3, <1>4, <3>1, <3>5
      <4>3. w[n + 1] # id /\ w[n + 1] \in Ids
        BY <1>2, <1>3, <3>1, <3>5 DEF id
      <4> QED
        BY <1>1, <1>2, <1>4, <1>8, <3>2, <4>1, <4>2, <4>3 DEF Lists
    <3> QED
      BY <1>2, <3>3, <3>4, <3>5
  <2>4. ASSUME NEW i \in Ids, \A n \in 1 .. N - 1 : v[n] # i PROVE t.next[i] = Nil
    <3>1. CASE i = id
      BY <1>14, <3>1
    <3>2. CASE i # id
      <4>1. \A n \in 1 .. N : w[n] # i
        <5> TAKE n \in 1 .. N
        <5>1. CASE n = k
          BY <3>2, <5>1 DEF id
        <5>2. CASE n < k
          <6>1. n \in 1 .. N - 1 /\ n \in 0 .. N - 1
            BY <1>2, <5>2
          <6> QED
            BY <1>11, <2>4, <5>2, <6>1
        <5>3. CASE n > k
          <6>1. n - 1 \in 1 .. N - 1 /\ n - 1 \in 0 .. N - 1 /\ ~(n - 1 < k) /\ n - 1 + 1 = n
            BY <1>2, <5>3
          <6> QED
            BY <1>11, <2>4, <6>1
        <5> QED
          BY <1>2, <5>1, <5>2, <5>3
      <4>2. i # before
        <5>1. CASE k = 1
          BY <1>1, <1>7, <5>1
        <5>2. CASE k > 1
          BY <1>2, <4>1, <5>2 DEF before
        <5> QED
          BY <1>2, <5>1, <5>2
      <4> QED
        BY <1>1, <1>14, <3>2, <4>1, <4>2 DEF Links
    <3> QED
      BY <3>1, <3>2
  <2> QED
    BY <1>8, <2>1, <2>2, <2>3, <2>4 DEF Links
<1>16. Sounding(t, v)
  <2>1. t.state[id] = PS_OFF /\ \A i \in Ids : i # id => t.state[i] = s.state[i]
    BY <1>1, <1>2, <1>8 DEF Lists, id
  <2>2. ASSUME NEW n \in 1 .. N - 1
        PROVE  t.state[v[n]] \in {PS_ON, PS_NOTEOFF, PS_PLEASE_SHUTUP}
    <3>1. n \in 0 .. N - 1 /\ n \in 1 .. N /\ n + 1 \in 1 .. N /\ n \in 0 .. N /\ n + 1 \in 0 .. N
      BY <1>1
    <3>2. \E m \in 1 .. N : m # k /\ v[n] = w[m]
      <4>1. CASE n < k
        BY <1>2, <1>11, <3>1, <4>1
      <4>2. CASE n >= k
        <5>1. n + 1 # k /\ ~(n < k)
          BY <1>2, <3>1, <4>2
        <5> QED
          BY <1>11, <3>1, <5>1
      <4> QED
        BY <1>2, <4>1, <4>2
    <3>3. PICK m \in 1 .. N : m # k /\ v[n] = w[m]
      BY <3>2
    <3>4. w[m] # id /\ w[m] \in Ids
      <4>1. m \in 0 .. N /\ k \in 0 .. N
        BY <1>2
      <4> QED
        BY <1>2, <1>3, <3>3, <4>1 DEF id
    <3> QED
      BY <1>1, <2>1, <3>3, <3>4 DEF Sounding
  <2>3. ASSUME NEW i \in Ids, t.state[i] \in {PS_ON, PS_PLEASE_SHUTUP}
        PROVE  \E n \in 1 .. N - 1 : v[n] = i
    <3>1. i # id
      BY <2>1, <2>3 DEF PS_ON, PS_OFF, PS_PLEASE_SHUTUP
    <3>2. PICK m \in 1 .. N : w[m] = i
      BY <1>1, <2>1, <2>3, <3>1 DEF Sounding
    <3>3. m # k
      BY <3>1, <3>2 DEF id
    <3>4. CASE m < k
      <4>1. m \in 1 .. N - 1 /\ m \in 0 .. N - 1
        BY <1>2, <3>4
      <4> QED
        BY <1>11, <3>2, <3>4, <4>1
    <3>5. CASE m > k
      <4>1. m - 1 \in 1 .. N - 1 /\ m - 1 \in 0 .. N - 1 /\ ~(m - 1 < k) /\ m - 1 + 1 = m
        BY <1>2, <3>5
      <4> QED
        BY <1>11, <3>2, <4>1
    <3> QED
      BY <1>2, <3>3, <3>4, <3>5
  <2> QED
    BY <1>8, <2>2, <2>3 DEF Sounding
<1> QED
  BY <1>8, <1>10, <1>13, <1>15, <1>16 DEF Sound, t, v, id
-----------------------------------------------------------------------------
\* A list as the calls of scheme code leave it.
Good(s) == Sound(s, Walk(s))

\* How far a loop over the list has come: r voices are left, at is the next.
InLoop(s, r, at, rest) ==
  /\ r \in 0 .. s.nvoices /\ rest = Remaining(s, Walk(s), r)
  /\ r > 0 => at = Walk(s)[s.nvoices - r + 1]
  /\ r = 0 => at = Nil

\* Another state, duration or note-off mode does not move a voice.
LEMMA RestateKeepsList ==
  ASSUME NEW s, Good(s), NEW t \in Lists,
         t.next = s.next, t.prev = s.prev, t.nvoices = s.nvoices, Sounding(t, Walk(s))
  PROVE  Good(t) /\ Walk(t) = Walk(s)
<1>1. Names(t, Walk(s)) /\ Links(t, Walk(s))
  BY DEF Good, Sound, Names, Links
<1>2. Walk(t) = Walk(s)
  BY <1>1, WalkIs
<1> QED
  BY <1>1, <1>2 DEF Good, Sound

\* A call that turns a voice off leaves a list, and changes no other state.
LEMMA TurnOffEffect ==
  ASSUME NEW s, Good(s), NEW id \in Ids
  PROVE  LET t == ps_turnoff_sporthlet(s, id) IN
         /\ Good(t) /\ t.dur = s.dur /\ t.noteoff = s.noteoff
         /\ t.state = IF CanTurnOff(s, id) THEN [s.state EXCEPT ![id] = PS_OFF] ELSE s.state
<1>1. CASE CanTurnOff(s, id)
  <2>1. PICK k \in 1 .. s.nvoices : Walk(s)[k] = id
    BY <1>1 DEF Good, Sound, Sounding, CanTurnOff
  <2>2. /\ Sound(ps_turnoff_sporthlet(s, id), Without(Walk(s), s.nvoices, k))
        /\ ps_turnoff_sporthlet(s, id).state = [s.state EXCEPT ![id] = PS_OFF]
        /\ ps_turnoff_sporthlet(s, id).dur = s.dur
        /\ ps_turnoff_sporthlet(s, id).noteoff = s.noteoff
    BY <1>1, <2>1, TurnOffKeepsList DEF Good
  <2> QED
    BY <1>1, <2>2, WalkIs DEF Good, Sound
<1>2. CASE ~CanTurnOff(s, id)
  BY <1>2 DEF ps_turnoff_sporthlet
<1> QED
  BY <1>1, <1>2

\* So does a call that turns one on.
LEMMA TurnOnEffect ==
  ASSUME NEW s, Good(s), NEW id \in Ids, NEW dur \in Int
  PROVE  LET t == ps_turnon_sporthlet(s, id, dur) IN
         /\ Good(t) /\ t.noteoff = s.noteoff
         /\ s.state[id] # PS_OFF => t = s
         /\ s.state[id] = PS_OFF => /\ t.state = [s.state EXCEPT ![id] = PS_ON]
                                    /\ t.dur = [s.dur EXCEPT ![id] = dur]
<1>1. CASE s.state[id] = PS_OFF
  <2>1. /\ Sound(ps_turnon_sporthlet(s, id, dur), With(Walk(s), s.nvoices, id))
        /\ ps_turnon_sporthlet(s, id, dur).state = [s.state EXCEPT ![id] = PS_ON]
        /\ ps_turnon_sporthlet(s, id, dur).dur = [s.dur EXCEPT ![id] = dur]
        /\ ps_turnon_sporthlet(s, id, dur).noteoff = s.noteoff
    BY <1>1, TurnOnKeepsList DEF Good
  <2> QED
    BY <1>1, <2>1, WalkIs DEF Good, Sound
<1>2. CASE s.state[id] # PS_OFF
  BY <1>2 DEF ps_turnon_sporthlet
<1> QED
  BY <1>1, <1>2

\* A note off changes one state, unless the voice is off.
LEMMA NoteoffEffect ==
  ASSUME NEW s, Good(s), NEW id \in Ids
  PROVE  LET t == ps_sporthlet_noteoff(s, id) IN
         /\ Good(t) /\ Walk(t) = Walk(s) /\ t.nvoices = s.nvoices
         /\ t.dur = s.dur /\ t.noteoff = s.noteoff /\ t.next = s.next
         /\ t.state = IF s.state[id] = PS_OFF THEN s.state ELSE [s.state EXCEPT ![id] = PS_NOTEOFF]
<1> DEFINE t == ps_sporthlet_noteoff(s, id)
<1>1. s \in Lists /\ Sounding(s, Walk(s)) /\ Names(s, Walk(s))
  BY DEF Good, Sound
<1>2. /\ t \in Lists /\ t.next = s.next /\ t.prev = s.prev /\ t.nvoices = s.nvoices
      /\ t.dur = s.dur /\ t.noteoff = s.noteoff
      /\ t.state = IF s.state[id] = PS_OFF THEN s.state ELSE [s.state EXCEPT ![id] = PS_NOTEOFF]
  BY <1>1 DEF ps_sporthlet_noteoff, Lists, States
<1> HIDE DEF t
<1>3. /\ \A i \in Ids : t.state[i] \in {s.state[i], PS_NOTEOFF}
      /\ \A n \in 1 .. s.nvoices : Walk(s)[n] \in Ids
  BY <1>1, <1>2 DEF Lists, Names
<1>4. Sounding(t, Walk(s))
  BY <1>1, <1>2, <1>3 DEF Sounding, PS_NOTEOFF, PS_ON, PS_PLEASE_SHUTUP
<1> QED
  BY <1>2, <1>4, RestateKeepsList DEF t

\* A round of a loop takes the voice it has reached off what is left, whether
\* it removes that voice from the list or not.
LEMMA RoundAdvances ==
  ASSUME NEW s, Good(s), NEW r \in 1 .. s.nvoices, NEW t,
         \/ Walk(t) = Walk(s) /\ t.nvoices = s.nvoices
         \/ Walk(t) = Without(Walk(s), s.nvoices, s.nvoices - r + 1) /\ t.nvoices = s.nvoices - 1
  PROVE  LET at == Walk(s)[s.nvoices - r + 1] IN
         /\ at \in Ids /\ at \in Remaining(s, Walk(s), r)
         /\ InLoop(t, r - 1, s.next[at], Remaining(s, Walk(s), r) \ {at})
<1> DEFINE w == Walk(s)
           N == s.nvoices
           k == N - r + 1
<1>0. Names(s, w) /\ Links(s, w)
  BY DEF Good, Sound
<1> HIDE DEF w
<1>1. /\ Names(s, w) /\ Links(s, w)
      /\ N \in Nat /\ r \in Nat
      /\ r >= 1 /\ r <= N
  <2>1. s.nvoices \in Nat
    BY <1>0 DEF Names
  <2> QED
    BY <1>0, <2>1
<1>2. k \in 1 .. N /\ w[k] \in Ids /\ w[k] \in Remaining(s, w, r)
  <2>1. k \in 1 .. N /\ k \in N - r + 1 .. N
    BY <1>1
  <2> QED
    BY <1>1, <2>1 DEF Names, Remaining
<1>3. Remaining(s, w, r) \ {w[k]} = {w[n] : n \in k + 1 .. N}
  <2>1. \A n \in k + 1 .. N : w[n] # w[k] /\ n \in k .. N
    <3> TAKE n \in k + 1 .. N
    <3>1. n \in 1 .. N /\ n # k /\ n \in k .. N
      BY <1>1
    <3> QED
      BY <1>1, <1>2, <3>1 DEF Names
  <2>2. \A n \in k .. N : n = k \/ n \in k + 1 .. N
    BY <1>1
  <2> QED
    BY <2>1, <2>2 DEF Remaining
<1>4. r - 1 > 0 => s.next[w[k]] = w[k + 1]
  <2>1. r - 1 > 0 => k + 1 \in 1 .. N /\ k + 1 - 1 = k
    BY <1>1
  <2> QED
    BY <1>1, <2>1 DEF Links
<1>7. r - 1 = 0 => s.next[w[k]] = Nil
  <2>1. r - 1 = 0 => k = N
    BY <1>1
  <2> QED
    BY <1>1, <2>1 DEF Links
<1>5. CASE Walk(t) = w /\ t.nvoices = N
  <2>1. Remaining(t, w, r - 1) = {w[n] : n \in k + 1 .. N}
    BY <1>1, <1>5 DEF Remaining
  <2>2. t.nvoices - (r - 1) + 1 = k + 1
    BY <1>1, <1>5
  <2> QED
    BY <1>1, <1>2, <1>3, <1>4, <1>5, <1>7, <2>1, <2>2 DEF InLoop, w
<1>6. CASE Walk(t) = Without(w, N, k) /\ t.nvoices = N - 1
  <2> DEFINE v == Without(w, N, k)
  <2>1. \A n \in k .. N - 1 : v[n] = w[n + 1] /\ n + 1 \in k + 1 .. N
    <3> TAKE n \in k .. N - 1
    <3>1. n \in 0 .. N - 1 /\ ~(n < k) /\ n + 1 \in k + 1 .. N
      BY <1>1
    <3> QED
      BY <3>1 DEF Without
  <2> HIDE DEF v
  <2>2. \A n \in k + 1 .. N : n - 1 \in k .. N - 1 /\ n - 1 + 1 = n
    BY <1>1
  <2>3. t.nvoices - (r - 1) + 1 = k
    BY <1>1, <1>6
  <2>4. Remaining(t, v, r - 1) = {v[n] : n \in k .. N - 1}
    BY <1>6, <2>3 DEF Remaining
  <2>5. Remaining(t, v, r - 1) = {w[n] : n \in k + 1 .. N}
    BY <2>1, <2>2, <2>4
  <2>6. r - 1 > 0 => v[k] = w[k + 1]
    BY <1>1, <2>1
  <2> QED
    BY <1>1, <1>2, <1>3, <1>4, <1>6, <1>7, <2>3, <2>5, <2>6 DEF InLoop, v, w
<1> QED
  BY <1>5, <1>6 DEF w

\* A round that may take the k-th voice off the list.
Round(s, t, k) ==
  \/ Walk(t) = Walk(s) /\ t.nvoices = s.nvoices
  \/ Walk(t) = Without(Walk(s), s.nvoices, k) /\ t.nvoices = s.nvoices - 1

\* Turning off a voice of the list takes it off, or leaves everything.
LEMMA TurnOffRound ==
  ASSUME NEW s, Good(s), NEW k \in 1 .. s.nvoices
  PROVE  Round(s, ps_turnoff_sporthlet(s, Walk(s)[k]), k)
<1> DEFINE t == ps_turnoff_sporthlet(s, Walk(s)[k])
<1>1. CASE CanTurnOff(s, Walk(s)[k])
  <2> DEFINE w == Walk(s)
           id == w[k]
  <2>0. Sound(s, w) /\ CanTurnOff(s, w[k])
    BY <1>1 DEF Good
  <2> HIDE DEF w, t
  <2>3. /\ Sound(ps_turnoff_sporthlet(s, id), Without(w, s.nvoices, k))
        /\ ps_turnoff_sporthlet(s, id).nvoices = s.nvoices - 1
        /\ ps_turnoff_sporthlet(s, id).state = [s.state EXCEPT ![id] = PS_OFF]
        /\ ps_turnoff_sporthlet(s, id).dur = s.dur
        /\ ps_turnoff_sporthlet(s, id).noteoff = s.noteoff
    BY <2>0, TurnOffKeepsList
  <2>1. Sound(t, Without(Walk(s), s.nvoices, k)) /\ t.nvoices = s.nvoices - 1
    BY <2>3 DEF w, t
  <2> USE DEF t
  <2>2. Walk(t) = Without(Walk(s), s.nvoices, k)
    BY <2>1, WalkIs DEF Sound
  <2> QED
    BY <2>1, <2>2 DEF Round
<1>2. CASE ~CanTurnOff(s, Walk(s)[k])
  BY <1>2 DEF ps_turnoff_sporthlet, Round
<1> QED
  BY <1>1, <1>2

\* What a tick of the clock does to a voice of the list.
LEMMA DecrementedEffect ==
  ASSUME NEW s, Good(s), NEW k \in 1 .. s.nvoices, NEW id \in Ids, id = Walk(s)[k]
  PROVE  LET t == Decremented(s, id) IN
         /\ Good(t) /\ t.noteoff = s.noteoff /\ Round(s, t, k)
         /\ s.dur[id] < 0 => t.state = s.state /\ t.dur = s.dur
         /\ s.dur[id] > 0 => t.state = s.state /\ t.dur = [s.dur EXCEPT ![id] = @ - 1]
         /\ s.dur[id] = 0 =>
              /\ t.dur = s.dur
              /\ \/ t.state = s.state
                 \/ /\ t.state = [s.state EXCEPT ![id] = PS_NOTEOFF] /\ s.state[id] # PS_OFF
                    /\ Walk(t) = Walk(s) /\ t.nvoices = s.nvoices
                 \/ t.state = [s.state EXCEPT ![id] = PS_OFF]
<1> DEFINE t == Decremented(s, id)
<1>0. /\ s \in Lists /\ Sounding(s, Walk(s))
      /\ s.dur[id] \in Int
  <2>1. s \in Lists /\ Sounding(s, Walk(s))
    BY DEF Good, Sound
  <2> QED
    BY <2>1 DEF Lists
<1>1. CASE s.dur[id] < 0
  <2>1. t = s
    BY <1>1 DEF Decremented
  <2> QED
    BY <1>0, <1>1, <2>1 DEF Round
<1>2. CASE s.dur[id] > 0
  <2>1. t = [s EXCEPT !.dur[id] = @ - 1]
    BY <1>0, <1>2 DEF Decremented
  <2> HIDE DEF t
  <2>2. t \in Lists
    <3>1. [s.dur EXCEPT ![id] = @ - 1] \in [Ids -> Int]
      BY <1>0 DEF Lists
    <3> QED
      BY <1>0, <2>1, <3>1 DEF Lists
  <2>3. /\ t.next = s.next /\ t.prev = s.prev /\ t.nvoices = s.nvoices
        /\ t.state = s.state /\ t.noteoff = s.noteoff
        /\ t.dur = [s.dur EXCEPT ![id] = @ - 1]
    BY <1>0, <2>1 DEF Lists
  <2>4. Sounding(t, Walk(s))
    BY <1>0, <2>3 DEF Sounding
  <2>5. Good(t) /\ Walk(t) = Walk(s)
    BY <2>2, <2>3, <2>4, RestateKeepsList
  <2> QED
    BY <1>0, <1>2, <2>3, <2>5 DEF Round, t
<1>3. CASE s.dur[id] = 0 /\ s.noteoff[id]
  <2>1. t = ps_sporthlet_noteoff(s, id)
    BY <1>3 DEF Decremented
  <2>2. /\ Good(t) /\ Walk(t) = Walk(s) /\ t.nvoices = s.nvoices
        /\ t.dur = s.dur /\ t.noteoff = s.noteoff
        /\ t.state = IF s.state[id] = PS_OFF THEN s.state ELSE [s.state EXCEPT ![id] = PS_NOTEOFF]
    BY <2>1, NoteoffEffect
  <2> HIDE DEF t
  <2> QED
    BY <1>3, <2>2 DEF Round, t
<1>4. CASE s.dur[id] = 0 /\ ~s.noteoff[id]
  <2>1. t = ps_turnoff_sporthlet(s, id)
    BY <1>4 DEF Decremented
  <2>2. /\ Good(t) /\ t.dur = s.dur /\ t.noteoff = s.noteoff
        /\ t.state = IF CanTurnOff(s, id) THEN [s.state EXCEPT ![id] = PS_OFF] ELSE s.state
    BY <2>1, TurnOffEffect
  <2>3. Round(s, t, k)
    BY <2>1, TurnOffRound
  <2> HIDE DEF t
  <2> QED
    BY <1>4, <2>2, <2>3 DEF t
<1> QED
  BY <1>0, <1>1, <1>2, <1>3, <1>4

---------------------------------------------------------------------------
(* The invariant of the voices.                                            *)

\* Where the loop is.  What is unseen are the last rounds voices of the walk.
AtRound ==
  /\ pc \in {"clock", "shutup"} => InLoop(ps, rounds, last, unseen)
  /\ pc = "compute" => /\ rounds <= ps.nvoices /\ count = ps.nvoices
                       /\ last = Walk(ps)[ps.nvoices - rounds]
                       /\ unseen = Remaining(ps, Walk(ps), rounds)

\* A voice asks to be turned off only from a sample of it to the loop for it.
Asked ==
  /\ pc \in {"load", "idle", "events", "clock"} =>
       \A id \in Ids : ps.state[id] # PS_PLEASE_SHUTUP
  /\ pc = "compute" /\ ~do_shutup => \A id \in Ids : ps.state[id] # PS_PLEASE_SHUTUP
  /\ pc = "shutup" => \A id \in Ids : ps.state[id] = PS_PLEASE_SHUTUP => id \in unseen

VoicesInv == TypeOK /\ Good(ps) /\ AtRound /\ Asked

\* A voice whose time is up was on until then, and one that is on with its
\* time up has been computed while it was on, or waits for this sample.
Fresh ==
  /\ pc \in {"load", "idle", "events", "shutup"} => due = {}
  /\ pc = "clock" => due \cap unseen = {} /\ due \subseteq Listed
  /\ pc = "compute" => due \subseteq unseen
  /\ due \cap prev_noteoff = {}
  /\ \A id \in Ids : ps.state[id] = PS_ON /\ id \in prev_noteoff =>
       \/ ps.dur[id] # 0
       \/ pc = "clock" /\ id \notin unseen
       \/ pc = "compute" /\ id \in unseen


\* The voices of the list are all that remain at the start of a loop.
LEMMA ListedIs == ASSUME Good(ps) PROVE Listed = Remaining(ps, Walk(ps), ps.nvoices)
<1>1. ps.nvoices \in Nat
  BY DEF Good, Sound, Names
<1>2. ps.nvoices - ps.nvoices + 1 = 1
  BY <1>1
<1> QED
  BY <1>2 DEF Listed, Remaining

\* The list as it is created is empty.
LEMMA InitInv == Init => VoicesInv
<1> SUFFICES ASSUME Init PROVE VoicesInv
  OBVIOUS
<1> DEFINE w == [n \in 0 .. 0 |-> Root]
<1>0. /\ ps.state = [i \in Ids |-> PS_NULL] /\ ps.next = [i \in Ids \cup {Root} |-> Nil]
      /\ ps.nvoices = 0
  BY DEF Init
<1>1. ps \in Lists
  <2>1. PICK dur \in [Ids -> Garbage] :
          ps = [state |-> [i \in Ids |-> PS_NULL], dur |-> dur,
                noteoff |-> [i \in Ids |-> FALSE],
                next |-> [i \in Ids \cup {Root} |-> Nil],
                prev |-> [i \in Ids |-> Nil], nvoices |-> 0]
    BY DEF Init
  <2>2. dur \in [Ids -> Int]
    BY VoicesAssumption
  <2>3. 0 \in 0 .. ninstances
    BY VoicesAssumption
  <2> QED
    BY <2>1, <2>2, <2>3 DEF Lists, States
<1>2. 0 .. 0 = {0} /\ 1 .. 0 = {} /\ 2 .. 0 = {}
  OBVIOUS
<1>3. Names(ps, w)
  BY <1>0, <1>2 DEF Names
<1>4. Links(ps, w)
  BY <1>0, <1>2 DEF Links
<1>5. Sounding(ps, w)
  BY <1>0, <1>2 DEF Sounding, PS_NULL, PS_ON, PS_PLEASE_SHUTUP
<1>6. Good(ps)
  BY <1>1, <1>3, <1>4, <1>5, WalkIs DEF Good, Sound
<1>7. TypeOK
  <2>1. 0 \in 0 .. ninstances
    BY VoicesAssumption
  <2>2. /\ pc = "load" /\ last = Root /\ rounds = 0 /\ count = 0 /\ do_shutup = FALSE
        /\ prev_noteoff = {} /\ due = {} /\ unseen = {}
    BY DEF Init
  <2> QED
    BY <1>1, <2>1, <2>2 DEF TypeOK, Lists
<1> QED
  BY <1>0, <1>6, <1>7 DEF Init, VoicesInv, AtRound, Asked, PS_NULL, PS_PLEASE_SHUTUP

\* No voice asks to be turned off while scheme code runs.
LEMMA SchemeAsked ==
  ASSUME VoicesInv, Scheme
  PROVE  \A id \in Ids : ps.state[id] # PS_PLEASE_SHUTUP
<1> QED
  BY DEF VoicesInv, Asked, Scheme

\* The states of one list are those of another but for one voice.
Others(s, t, id) == \A i \in Ids \ {id} : t.state[i] = s.state[i]

\* A call of scheme code, or an event, that leaves a list and asks for nothing.
LEMMA SchemeKeeps ==
  ASSUME VoicesInv, Scheme, NEW id \in Ids,
         Good(ps'), Others(ps, ps', id), ps'.state[id] # PS_PLEASE_SHUTUP,
         UNCHANGED <<pc, loop, prev_noteoff>>, due' \subseteq Ids
  PROVE  VoicesInv'
<1>1. ps' \in [state : [Ids -> States], dur : [Ids -> Int], noteoff : [Ids -> BOOLEAN],
             next : [Ids \cup {Root} -> Ids \cup {Nil}],
             prev : [Ids -> Ids \cup {Nil}], nvoices : 0 .. ninstances]
  BY DEF Good, Sound, Lists
<1>2. TypeOK'
  BY <1>1 DEF VoicesInv, TypeOK, loop
<1>3. \A i \in Ids : ps'.state[i] # PS_PLEASE_SHUTUP
  BY SchemeAsked DEF Others
<1> QED
  BY <1>2, <1>3 DEF VoicesInv, AtRound, Asked, Scheme

\* ps-eval marks a voice that is not in the list.
LEMMA EvalEffect ==
  ASSUME NEW s, Good(s), NEW id \in Ids, id \notin {Walk(s)[n] : n \in 1 .. s.nvoices}
  PROVE  Good([s EXCEPT !.state[id] = PS_OFF])
<1> DEFINE t == [s EXCEPT !.state[id] = PS_OFF]
<1>1. s \in Lists /\ Sounding(s, Walk(s)) /\ Names(s, Walk(s))
  BY DEF Good, Sound
<1>2. /\ t \in Lists /\ t.next = s.next /\ t.prev = s.prev /\ t.nvoices = s.nvoices
      /\ t.state = [s.state EXCEPT ![id] = PS_OFF]
  BY <1>1 DEF Lists, States
<1> HIDE DEF t
<1>3. \A i \in Ids \ {id} : t.state[i] = s.state[i]
  BY <1>1, <1>2 DEF Lists
<1>4. t.state[id] = PS_OFF
  BY <1>1, <1>2 DEF Lists
<1>5. Sounding(t, Walk(s))
  <2>1. \A n \in 1 .. s.nvoices : Walk(s)[n] \in Ids \ {id}
    BY <1>1 DEF Names
  <2> QED
    BY <1>1, <1>2, <1>3, <1>4, <2>1
    DEF Sounding, PS_OFF, PS_ON, PS_PLEASE_SHUTUP
<1> QED
  BY <1>2, <1>5, RestateKeepsList DEF t

\* The note-off mode of a voice has nothing to do with the list.
LEMMA ModeEffect ==
  ASSUME NEW s, Good(s), NEW id \in Ids
  PROVE  LET t == [s EXCEPT !.noteoff[id] = TRUE] IN Good(t) /\ t.state = s.state /\ t.dur = s.dur
<1> DEFINE t == [s EXCEPT !.noteoff[id] = TRUE]
<1>1. s \in Lists /\ Sounding(s, Walk(s))
  BY DEF Good, Sound
<1>2. /\ t \in Lists /\ t.next = s.next /\ t.prev = s.prev /\ t.nvoices = s.nvoices
      /\ t.state = s.state /\ t.dur = s.dur
  BY <1>1 DEF Lists
<1> HIDE DEF t
<1>3. Sounding(t, Walk(s))
  BY <1>1, <1>2 DEF Sounding
<1> QED
  BY <1>2, <1>3, RestateKeepsList DEF t

---------------------------------------------------------------------------
(* Scheme code and events keep the invariant.                              *)

\* A voice is turned off, or on, or marked: the others stay as they are.
LEMMA TurnOffOthers ==
  ASSUME NEW s, Good(s), NEW id \in Ids
  PROVE  LET t == ps_turnoff_sporthlet(s, id) IN
         /\ Others(s, t, id)
         /\ t.state[id] = IF CanTurnOff(s, id) THEN PS_OFF ELSE s.state[id]
<1> DEFINE t == ps_turnoff_sporthlet(s, id)
<1>1. s \in Lists
  BY DEF Good, Sound
<1>2. t.state = IF CanTurnOff(s, id) THEN [s.state EXCEPT ![id] = PS_OFF] ELSE s.state
  BY TurnOffEffect
<1> HIDE DEF t
<1> QED
  BY <1>1, <1>2 DEF Lists, Others, t

\* Turning a voice on touches the state and the duration of that voice only.
LEMMA TurnOnOthers ==
  ASSUME NEW s, Good(s), NEW id \in Ids, NEW dur \in Int
  PROVE  LET t == ps_turnon_sporthlet(s, id, dur) IN
         /\ Others(s, t, id)
         /\ t.state[id] = IF s.state[id] = PS_OFF THEN PS_ON ELSE s.state[id]
         /\ \A i \in Ids : i # id \/ s.state[id] # PS_OFF => t.dur[i] = s.dur[i]
         /\ s.state[id] = PS_OFF => t.dur[id] = dur
<1> DEFINE t == ps_turnon_sporthlet(s, id, dur)
<1>1. s \in Lists
  BY DEF Good, Sound
<1>2. /\ s.state[id] # PS_OFF => t = s
      /\ s.state[id] = PS_OFF => /\ t.state = [s.state EXCEPT ![id] = PS_ON]
                                 /\ t.dur = [s.dur EXCEPT ![id] = dur]
  BY TurnOnEffect
<1> HIDE DEF t
<1> QED
  BY <1>1, <1>2 DEF Lists, Others, t

\* So does a note off,
LEMMA NoteoffOthers ==
  ASSUME NEW s, Good(s), NEW id \in Ids
  PROVE  LET t == ps_sporthlet_noteoff(s, id) IN
         /\ Others(s, t, id)
         /\ t.state[id] = IF s.state[id] = PS_OFF THEN PS_OFF ELSE PS_NOTEOFF
<1> DEFINE t == ps_sporthlet_noteoff(s, id)
<1>1. s \in Lists
  BY DEF Good, Sound
<1>2. t.state = IF s.state[id] = PS_OFF THEN s.state ELSE [s.state EXCEPT ![id] = PS_NOTEOFF]
  BY NoteoffEffect
<1> HIDE DEF t
<1> QED
  BY <1>1, <1>2 DEF Lists, Others, t

\* and so does evaluating a patch.
LEMMA EvalOthers ==
  ASSUME NEW s, Good(s), NEW id \in Ids
  PROVE  LET t == [s EXCEPT !.state[id] = PS_OFF] IN
         Others(s, t, id) /\ t.state[id] = PS_OFF /\ t.dur = s.dur
<1>1. s \in Lists
  BY DEF Good, Sound
<1> QED
  BY <1>1 DEF Lists, Others

\* The voice that a note takes, and what becomes of it.
NoteOn(s, id, dur) ==
  ps_turnon_sporthlet(IF s.state[id] = PS_ON THEN ps_turnoff_sporthlet(s, id) ELSE s, id, dur)

\* A note takes a voice that is free or about to be, and sounds it.
LEMMA NoteTakes ==
  ASSUME NEW from \in Ids, NEW to \in Ids, NEW dur, Note(from, to, dur)
  PROVE  \E id \in Ids : /\ Free(ps, id) /\ ps' = NoteOn(ps, id, dur)
                         /\ due' = IF ps.state[id] = PS_ON THEN due \ {id} ELSE due
<1>1. PICK id \in find_free_voice(ps, from, to) :
        /\ ps' = NoteOn(ps, id, dur)
        /\ due' = IF ps.state[id] = PS_ON THEN due \ {id} ELSE due
  BY DEF Note, NoteOn
<1>2. Free(ps, id)
  BY DEF find_free_voice
<1>3. id \in Ids
  BY VoicesAssumption DEF find_free_voice, Ids
<1> QED
  BY <1>1, <1>2, <1>3

\* What a note changes.
LEMMA NoteEffect ==
  ASSUME NEW s, Good(s), NEW id \in Ids, NEW dur \in Int
  PROVE  LET t == NoteOn(s, id, dur) IN
         /\ Good(t) /\ Others(s, t, id)
         /\ t.state[id] = IF s.state[id] \in {PS_OFF, PS_ON} THEN PS_ON ELSE s.state[id]
         /\ \A i \in Ids : i # id => t.dur[i] = s.dur[i]
         /\ s.state[id] \in {PS_OFF, PS_ON} => t.dur[id] = dur
<1> DEFINE u == IF s.state[id] = PS_ON THEN ps_turnoff_sporthlet(s, id) ELSE s
           t == ps_turnon_sporthlet(u, id, dur)
<1>1. /\ Good(u) /\ Others(s, u, id) /\ u.dur = s.dur
      /\ u.state[id] = IF s.state[id] = PS_ON THEN PS_OFF ELSE s.state[id]
  BY TurnOffEffect, TurnOffOthers DEF CanTurnOff, Others
<1> HIDE DEF u
<1>2. /\ Good(t) /\ Others(u, t, id)
      /\ t.state[id] = IF u.state[id] = PS_OFF THEN PS_ON ELSE u.state[id]
      /\ \A i \in Ids : i # id \/ u.state[id] # PS_OFF => t.dur[i] = u.dur[i]
      /\ u.state[id] = PS_OFF => t.dur[id] = dur
  <2>1. Good(t)
    BY <1>1, TurnOnEffect
  <2> QED
    BY <1>1, <2>1, TurnOnOthers
<1>3. NoteOn(s, id, dur) = t
  BY DEF NoteOn, u
<1> HIDE DEF t
<1> QED
  BY <1>1, <1>2, <1>3 DEF Others, PS_ON, PS_OFF

\* Every call of scheme code, and every note, keeps the invariant.
LEMMA SchemeInv ==
  ASSUME VoicesInv, NEW id \in Ids,
         \/ ps_eval(id) \/ ps_turnoff(id) \/ ps_noteoff(id) \/ ps_noteoff_mode(id)
         \/ \E dur \in Durations : ps_turnon(id, dur)
         \/ \E to \in Ids, dur \in Durations : Note(id, to, dur)
  PROVE  VoicesInv'
<1>0. /\ Good(ps) /\ due \subseteq Ids /\ Durations \subseteq Int
      /\ Scheme /\ \A i \in Ids : ps.state[i] # PS_PLEASE_SHUTUP
  <2>1. Scheme
    BY DEF ps_eval, ps_turnoff, ps_noteoff, ps_noteoff_mode, ps_turnon, Note, Scheme
  <2> QED
    BY <2>1, SchemeAsked, VoicesAssumption DEF VoicesInv, TypeOK
<1>1. CASE ps_eval(id)
  <2>1. ps' = [ps EXCEPT !.state[id] = PS_OFF] /\ id \notin Listed
    BY <1>1 DEF ps_eval
  <2>2. Good(ps')
    BY <1>0, <2>1, EvalEffect DEF Listed
  <2>3. Others(ps, ps', id) /\ ps'.state[id] # PS_PLEASE_SHUTUP
    BY <1>0, <2>1, EvalOthers DEF PS_OFF, PS_PLEASE_SHUTUP
  <2> QED
    BY <1>0, <1>1, <2>2, <2>3, SchemeKeeps DEF ps_eval
<1>2. CASE ps_turnoff(id)
  <2>1. ps' = ps_turnoff_sporthlet(ps, id)
    BY <1>2 DEF ps_turnoff
  <2>2. Good(ps') /\ Others(ps, ps', id) /\ ps'.state[id] # PS_PLEASE_SHUTUP
    BY <1>0, <2>1, TurnOffEffect, TurnOffOthers DEF PS_OFF, PS_PLEASE_SHUTUP
  <2> QED
    BY <1>0, <1>2, <2>2, SchemeKeeps DEF ps_turnoff
<1>3. CASE ps_noteoff(id)
  <2>1. ps' = ps_sporthlet_noteoff(ps, id)
    BY <1>3 DEF ps_noteoff
  <2>2. Good(ps') /\ Others(ps, ps', id) /\ ps'.state[id] # PS_PLEASE_SHUTUP
    BY <1>0, <2>1, NoteoffEffect, NoteoffOthers DEF PS_OFF, PS_NOTEOFF, PS_PLEASE_SHUTUP
  <2> QED
    BY <1>0, <1>3, <2>2, SchemeKeeps DEF ps_noteoff
<1>4. CASE ps_noteoff_mode(id)
  <2>1. ps' = [ps EXCEPT !.noteoff[id] = TRUE]
    BY <1>4 DEF ps_noteoff_mode
  <2>2. Good(ps') /\ ps'.state = ps.state
    BY <1>0, <2>1, ModeEffect
  <2>3. Others(ps, ps', id) /\ ps'.state[id] # PS_PLEASE_SHUTUP
    BY <1>0, <2>2 DEF Others
  <2> QED
    BY <1>0, <1>4, <2>2, <2>3, SchemeKeeps DEF ps_noteoff_mode
<1>5. ASSUME NEW dur \in Durations, ps_turnon(id, dur) PROVE VoicesInv'
  <2>1. ps' = ps_turnon_sporthlet(ps, id, dur) /\ dur \in Int
    BY <1>0, <1>5 DEF ps_turnon
  <2>3. Good(ps')
    BY <1>0, <2>1, TurnOnEffect
  <2>4. Others(ps, ps', id) /\ ps'.state[id] \in {PS_ON, ps.state[id]}
    BY <1>0, <2>1, TurnOnOthers
  <2>2. Good(ps') /\ Others(ps, ps', id) /\ ps'.state[id] # PS_PLEASE_SHUTUP
    BY <1>0, <2>3, <2>4 DEF PS_ON, PS_PLEASE_SHUTUP
  <2> QED
    BY <1>0, <1>5, <2>2, SchemeKeeps DEF ps_turnon
<1>6. ASSUME NEW to \in Ids, NEW dur \in Durations, Note(id, to, dur) PROVE VoicesInv'
  <2>1. PICK i \in Ids : /\ ps' = NoteOn(ps, i, dur)
                         /\ due' = IF ps.state[i] = PS_ON THEN due \ {i} ELSE due
    BY <1>6, NoteTakes
  <2>2. Good(ps') /\ Others(ps, ps', i) /\ ps'.state[i] # PS_PLEASE_SHUTUP
    <3>1. dur \in Int /\ Good(ps) /\ ps.state[i] # PS_PLEASE_SHUTUP
      BY <1>0, VoicesAssumption
    <3>2. LET t == NoteOn(ps, i, dur) IN
          /\ Good(t) /\ Others(ps, t, i)
          /\ t.state[i] = IF ps.state[i] \in {PS_OFF, PS_ON} THEN PS_ON ELSE ps.state[i]
          /\ \A j \in Ids : j # i => t.dur[j] = ps.dur[j]
          /\ ps.state[i] \in {PS_OFF, PS_ON} => t.dur[i] = dur
      BY <3>1, NoteEffect
    <3>3. PS_ON # PS_PLEASE_SHUTUP
      BY DEF PS_ON, PS_PLEASE_SHUTUP
    <3> QED
      BY <2>1, <3>1, <3>2, <3>3
  <2> QED
    BY <1>0, <1>6, <2>1, <2>2, SchemeKeeps DEF Note
<1> QED
  BY <1>1, <1>2, <1>3, <1>4, <1>5, <1>6

---------------------------------------------------------------------------
(* The loops keep the invariant.                                           *)

\* Where a loop that is not over has come to.
LEMMA RoundAt ==
  ASSUME VoicesInv, pc \in {"clock", "shutup"}, rounds > 0
  PROVE  /\ rounds \in 1 .. ps.nvoices /\ ps.nvoices - rounds + 1 \in 1 .. ps.nvoices
         /\ last = Walk(ps)[ps.nvoices - rounds + 1]
         /\ last \in Ids /\ last \in unseen
         /\ unseen = Remaining(ps, Walk(ps), rounds)
<1>1. /\ InLoop(ps, rounds, last, unseen) /\ Names(ps, Walk(ps)) /\ Good(ps)
  BY DEF VoicesInv, AtRound, Good, Sound
<1>2. ps.nvoices \in Nat
  BY <1>1 DEF Names
<1>3. /\ rounds \in 0 .. ps.nvoices /\ unseen = Remaining(ps, Walk(ps), rounds)
      /\ last = Walk(ps)[ps.nvoices - rounds + 1]
  BY <1>1 DEF InLoop
<1>4. rounds \in 1 .. ps.nvoices /\ ps.nvoices - rounds + 1 \in 1 .. ps.nvoices
  BY <1>2, <1>3
<1>5. LET at == Walk(ps)[ps.nvoices - rounds + 1] IN at \in Ids /\ at \in Remaining(ps, Walk(ps), rounds)
  BY <1>1, <1>4, RoundAdvances
<1> QED
  BY <1>3, <1>4, <1>5

\* The next round of a loop, after what the present one did to the list.
LEMMA RoundKeeps ==
  ASSUME VoicesInv, pc \in {"clock", "shutup"}, rounds > 0,
         Good(ps'), Round(ps, ps', ps.nvoices - rounds + 1),
         last' = ps.next[last], rounds' = rounds - 1, unseen' = unseen \ {last},
         UNCHANGED <<pc, count, do_shutup, prev_noteoff>>, due' \subseteq Ids
  PROVE  TypeOK' /\ Good(ps)' /\ AtRound'
<1>1. /\ rounds \in 1 .. ps.nvoices
      /\ last = Walk(ps)[ps.nvoices - rounds + 1]
      /\ last \in Ids /\ unseen = Remaining(ps, Walk(ps), rounds)
  BY RoundAt
<1>2. InLoop(ps', rounds - 1, ps.next[last], unseen \ {last})
  <2>1. Good(ps)
    BY DEF VoicesInv
  <2>2. LET at == Walk(ps)[ps.nvoices - rounds + 1] IN
        InLoop(ps', rounds - 1, ps.next[at], Remaining(ps, Walk(ps), rounds) \ {at})
    BY <1>1, <2>1, RoundAdvances DEF Round
  <2> QED
    BY <1>1, <2>2
<1>3. AtRound'
  BY <1>2 DEF AtRound
<1>4. ps' \in [state : [Ids -> States], dur : [Ids -> Int], noteoff : [Ids -> BOOLEAN],
             next : [Ids \cup {Root} -> Ids \cup {Nil}],
             prev : [Ids -> Ids \cup {Nil}], nvoices : 0 .. ninstances]
  BY DEF Good, Sound, Lists
<1>5. /\ ps.next[last] \in Ids \cup {Nil} /\ unseen \subseteq Ids
      /\ pc \in {"load", "idle", "events", "clock", "compute", "shutup"}
      /\ count \in 0 .. ninstances /\ do_shutup \in BOOLEAN /\ prev_noteoff \subseteq Ids
  BY <1>1 DEF VoicesInv, TypeOK
<1>6. rounds - 1 \in 0 .. ninstances
  <2>1. rounds \in 0 .. ninstances /\ rounds > 0 /\ ninstances \in Nat
    BY VoicesAssumption DEF VoicesInv, TypeOK
  <2> QED
    BY <2>1
<1>7. TypeOK'
  BY <1>4, <1>5, <1>6 DEF TypeOK
<1> QED
  BY <1>3, <1>7

\* A loop begins with all the voices.
LEMMA LoopBegins ==
  ASSUME Good(ps)
  PROVE  /\ InLoop(ps, ps.nvoices, ps.next[Root], Listed) /\ Listed \subseteq Ids
         /\ ps.nvoices \in Nat /\ ps.nvoices - ps.nvoices = 0 /\ Walk(ps)[0] = Root
         /\ ps.next[Root] \in Ids \cup {Nil}
<1>1. Names(ps, Walk(ps)) /\ Links(ps, Walk(ps)) /\ ps \in Lists
  BY DEF Good, Sound
<1>2. ps.nvoices \in Nat /\ Walk(ps)[0] = Root
  BY <1>1 DEF Names
<1>3. ps.nvoices - ps.nvoices = 0 /\ ps.nvoices - ps.nvoices + 1 = 1 /\ ps.nvoices \in 0 .. ps.nvoices
  BY <1>2
<1>4. ps.nvoices > 0 => ps.next[Root] = Walk(ps)[1]
  <2>1. ps.nvoices > 0 => 1 \in 1 .. ps.nvoices /\ 1 - 1 = 0
    BY <1>2
  <2>2. ps.nvoices > 0 => ps.next[Walk(ps)[1 - 1]] = Walk(ps)[1]
    BY <1>1, <2>1 DEF Links
  <2> QED
    BY <1>2, <2>1, <2>2
<1>5. Listed = Remaining(ps, Walk(ps), ps.nvoices)
  BY ListedIs
<1>6. Listed \subseteq Ids
  BY <1>1 DEF Names, Listed
<1>7. ps.next[Root] \in Ids \cup {Nil}
  BY <1>1 DEF Lists
<1>8. ps.nvoices = 0 => ps.next[Root] = Nil
  BY <1>1, <1>2 DEF Links
<1>9. InLoop(ps, ps.nvoices, ps.next[Root], Listed)
  BY <1>3, <1>4, <1>5, <1>8 DEF InLoop
<1> QED
  BY <1>2, <1>3, <1>6, <1>7, <1>9

\* A voice that sounds in some way of its own is in the list.
LEMMA AskerListed ==
  ASSUME Good(ps), NEW id \in Ids, ps.state[id] \in {PS_ON, PS_PLEASE_SHUTUP}
  PROVE  id \in Listed
<1> QED
  BY DEF Good, Sound, Sounding, Listed

\* The clock, its loop included, keeps the invariant,
LEMMA ClockInv == ASSUME VoicesInv, Clock PROVE VoicesInv'
<1> DEFINE k == ps.nvoices - rounds + 1
<1>1. /\ pc = "clock" /\ rounds > 0 /\ Good(ps) /\ due \subseteq Ids
      /\ \A id \in Ids : ps.state[id] # PS_PLEASE_SHUTUP
      /\ ps' = Decremented(ps, last)
  BY DEF Clock, VoicesInv, TypeOK, Asked
<1>2. k \in 1 .. ps.nvoices /\ last = Walk(ps)[k] /\ last \in Ids
  BY <1>1, RoundAt
<1>3. ps \in Lists /\ ps.dur[last] \in Int
  <2>1. ps \in Lists
    BY <1>1 DEF Good, Sound
  <2> QED
    BY <1>2, <2>1 DEF Lists
<1> HIDE DEF k
<1>4. /\ Good(ps') /\ Round(ps, ps', k)
      /\ ps'.state \in {ps.state, [ps.state EXCEPT ![last] = PS_NOTEOFF],
                        [ps.state EXCEPT ![last] = PS_OFF]}
  <2>1. /\ Good(ps') /\ Round(ps, ps', k)
        /\ ps.dur[last] < 0 => ps'.state = ps.state
        /\ ps.dur[last] > 0 => ps'.state = ps.state
        /\ ps.dur[last] = 0 =>
             \/ ps'.state = ps.state
             \/ ps'.state = [ps.state EXCEPT ![last] = PS_NOTEOFF]
             \/ ps'.state = [ps.state EXCEPT ![last] = PS_OFF]
    <3>1. LET t == Decremented(ps, last) IN
          /\ Good(t) /\ t.noteoff = ps.noteoff /\ Round(ps, t, k)
          /\ ps.dur[last] < 0 => t.state = ps.state /\ t.dur = ps.dur
          /\ ps.dur[last] > 0 => t.state = ps.state /\ t.dur = [ps.dur EXCEPT ![last] = @ - 1]
          /\ ps.dur[last] = 0 =>
               /\ t.dur = ps.dur
               /\ \/ t.state = ps.state
                  \/ /\ t.state = [ps.state EXCEPT ![last] = PS_NOTEOFF] /\ ps.state[last] # PS_OFF
                     /\ Walk(t) = Walk(ps) /\ t.nvoices = ps.nvoices
                  \/ t.state = [ps.state EXCEPT ![last] = PS_OFF]
      BY <1>1, <1>2, DecrementedEffect
    <3> QED
      BY <1>1, <3>1
  <2> QED
    BY <1>3, <2>1
<1>5. \A id \in Ids : ps'.state[id] # PS_PLEASE_SHUTUP
  BY <1>1, <1>3, <1>4 DEF Lists, PS_NOTEOFF, PS_OFF, PS_PLEASE_SHUTUP
<1>6. due' \subseteq Ids
  BY <1>1, <1>2 DEF Clock
<1>7. TypeOK' /\ Good(ps)' /\ AtRound'
  BY <1>1, <1>4, <1>6, RoundKeeps DEF Clock, k
<1>8. Asked'
  BY <1>1, <1>5 DEF Clock, Asked
<1> QED
  BY <1>7, <1>8 DEF VoicesInv

\* so does a round of the loop that silences voices,
LEMMA SilenceInv == ASSUME VoicesInv, Silence PROVE VoicesInv'
<1> DEFINE k == ps.nvoices - rounds + 1
<1>1. /\ pc = "shutup" /\ rounds > 0 /\ Good(ps) /\ due \subseteq Ids
      /\ \A id \in Ids : ps.state[id] = PS_PLEASE_SHUTUP => id \in unseen
      /\ ps' = IF ps.state[last] = PS_PLEASE_SHUTUP
               THEN ps_turnoff_sporthlet(ps, last) ELSE ps
  BY DEF Silence, VoicesInv, TypeOK, Asked
<1>2. k \in 1 .. ps.nvoices /\ last = Walk(ps)[k] /\ last \in Ids
  BY <1>1, RoundAt
<1> HIDE DEF k
<1>3. /\ Good(ps') /\ Round(ps, ps', k) /\ Others(ps, ps', last)
      /\ ps'.state[last] # PS_PLEASE_SHUTUP
  <2>1. CASE ps.state[last] = PS_PLEASE_SHUTUP
    <3>1. ps' = ps_turnoff_sporthlet(ps, last) /\ CanTurnOff(ps, last)
      BY <1>1, <2>1 DEF CanTurnOff
    <3>2. Good(ps')
      BY <1>1, <1>2, <3>1, TurnOffEffect
    <3>3. Others(ps, ps', last) /\ ps'.state[last] = PS_OFF
      BY <1>1, <1>2, <3>1, TurnOffOthers
    <3>4. Round(ps, ps', k)
      BY <1>1, <1>2, <3>1, TurnOffRound
    <3> QED
      BY <3>2, <3>3, <3>4 DEF PS_OFF, PS_PLEASE_SHUTUP
  <2>2. CASE ps.state[last] # PS_PLEASE_SHUTUP
    BY <1>1, <2>2 DEF Round, Others
  <2> QED
    BY <2>1, <2>2
<1>4. TypeOK' /\ Good(ps)' /\ AtRound'
  BY <1>1, <1>3, RoundKeeps DEF Silence, k
<1>5. Asked'
  BY <1>1, <1>2, <1>3 DEF Silence, Asked, Others
<1> QED
  BY <1>4, <1>5 DEF VoicesInv

\* so does the step to the events,
LEMMA EventsInv == ASSUME VoicesInv, Events PROVE VoicesInv'
<1>1. Good(ps) /\ ps.nvoices \in 0 .. ninstances
  BY DEF VoicesInv, TypeOK
<1>2. TypeOK'
  BY <1>1, LoopBegins DEF VoicesInv, TypeOK, Events
<1>3. AtRound'
  BY <1>1, LoopBegins DEF AtRound, Events
<1>4. Asked'
  BY DEF VoicesInv, Asked, Events
<1> QED
  BY <1>1, <1>2, <1>3, <1>4 DEF VoicesInv, Events

\* the step to the patches,
LEMMA ComputeInv == ASSUME VoicesInv, Compute PROVE VoicesInv'
<1>1. Good(ps) /\ ps.nvoices \in 0 .. ninstances
  BY DEF VoicesInv, TypeOK
<1>2. TypeOK'
  BY <1>1, LoopBegins DEF VoicesInv, TypeOK, Compute
<1>3. AtRound'
  <2>1. pc' = "compute" /\ rounds' = ps.nvoices /\ count' = ps.nvoices /\ last' = Root
        /\ unseen' = Listed /\ ps' = ps
    BY DEF Compute
  <2>2. ps.nvoices <= ps.nvoices /\ last' = Walk(ps)[ps.nvoices - ps.nvoices]
        /\ Listed = Remaining(ps, Walk(ps), ps.nvoices)
    BY <1>1, <2>1, LoopBegins, ListedIs
  <2> QED
    BY <2>1, <2>2 DEF AtRound
<1>4. Asked'
  BY DEF VoicesInv, Asked, Compute
<1> QED
  BY <1>1, <1>2, <1>3, <1>4 DEF VoicesInv, Compute

\* the loop over those that asked to be silent,
LEMMA ShutupInv == ASSUME VoicesInv, Shutup PROVE VoicesInv'
<1>1. /\ Good(ps) /\ count = ps.nvoices /\ count \in 0 .. ninstances
      /\ pc = "compute"
  BY DEF VoicesInv, TypeOK, AtRound, Shutup
<1>2. CASE do_shutup
  <2>1. /\ pc' = "shutup" /\ last' = ps.next[Root] /\ rounds' = ps.nvoices
        /\ unseen' = Listed /\ UNCHANGED <<count, do_shutup, ps, prev_noteoff, due>>
    BY <1>1, <1>2 DEF Shutup
  <2>2. TypeOK'
    BY <1>1, <2>1, LoopBegins DEF VoicesInv, TypeOK
  <2>3. AtRound'
    BY <1>1, <2>1, LoopBegins DEF AtRound
  <2>4. Asked'
    BY <1>1, <2>1, AskerListed DEF Asked
  <2> QED
    BY <1>1, <2>1, <2>2, <2>3, <2>4 DEF VoicesInv
<1>3. CASE ~do_shutup
  <2>1. pc' = "idle" /\ Forgotten /\ UNCHANGED <<ps, prev_noteoff, due>>
    BY <1>3 DEF Shutup
  <2>2. 0 \in 0 .. ninstances
    BY VoicesAssumption
  <2>3. TypeOK'
    BY <2>1, <2>2 DEF VoicesInv, TypeOK, Forgotten
  <2> QED
    BY <1>1, <1>3, <2>1, <2>3 DEF VoicesInv, AtRound, Asked
<1> QED
  BY <1>2, <1>3

\* the end of a sample,
LEMMA ComputedInv == ASSUME VoicesInv, Computed PROVE VoicesInv'
<1>1. /\ Good(ps) /\ pc = "shutup" /\ rounds = 0 /\ unseen = Remaining(ps, Walk(ps), 0)
      /\ pc' = "idle" /\ Forgotten /\ UNCHANGED <<ps, prev_noteoff, due>>
  BY DEF VoicesInv, AtRound, InLoop, Computed
<1>2. unseen = {}
  <2>1. ps.nvoices \in Nat
    BY <1>1 DEF Good, Sound, Names
  <2> QED
    BY <1>1, <2>1 DEF Remaining
<1>3. \A id \in Ids : ps.state[id] # PS_PLEASE_SHUTUP
  BY <1>1, <1>2 DEF VoicesInv, Asked
<1>4. 0 \in 0 .. ninstances
  BY VoicesAssumption
<1>5. TypeOK'
  BY <1>1, <1>4 DEF VoicesInv, TypeOK, Forgotten
<1> QED
  BY <1>1, <1>3, <1>5 DEF VoicesInv, AtRound, Asked

\* The voice that a round of ps_compute computes.
LEMMA VoiceAt ==
  ASSUME VoicesInv, pc = "compute", rounds > 0
  PROVE  LET k == ps.nvoices - rounds + 1 IN
         /\ rounds \in 1 .. ps.nvoices /\ k \in 1 .. ps.nvoices
         /\ get_next_voice_id = Walk(ps)[k] /\ ps.next[last] = Walk(ps)[k]
         /\ Walk(ps)[k] \in Ids /\ Walk(ps)[k] \in unseen /\ last # Nil
         /\ unseen = Remaining(ps, Walk(ps), rounds)
<1> DEFINE k == ps.nvoices - rounds + 1
           w == Walk(ps)
<1>1. /\ Good(ps) /\ Names(ps, w) /\ Links(ps, w)
      /\ rounds <= ps.nvoices /\ last = w[ps.nvoices - rounds]
      /\ unseen = Remaining(ps, w, rounds) /\ rounds \in 0 .. ninstances
  BY DEF VoicesInv, TypeOK, AtRound, Good, Sound
<1> HIDE DEF w
<1>2. ps.nvoices \in Nat /\ rounds \in Nat
  BY <1>1, VoicesAssumption DEF Names
<1>3. /\ rounds \in 1 .. ps.nvoices
      /\ k \in 1 .. ps.nvoices /\ k - 1 = ps.nvoices - rounds
      /\ k - 1 = 0 \/ k - 1 \in 1 .. ps.nvoices
      /\ ps.nvoices = 1 => k = 1
  BY <1>1, <1>2
<1>4. LET at == Walk(ps)[ps.nvoices - rounds + 1] IN at \in Ids /\ at \in Remaining(ps, Walk(ps), rounds)
  BY <1>1, <1>3, RoundAdvances
<1>5. w[k] \in Ids /\ w[k] \in unseen
  BY <1>1, <1>4 DEF w
<1>6. ps.next[w[k - 1]] = w[k]
  BY <1>1, <1>3 DEF Links
<1>7. last = w[k - 1]
  BY <1>1, <1>3
<1> HIDE DEF k
<1>8. last # Nil
  BY <1>1, <1>3, <1>7, OutsideIds DEF Names
<1>9. get_next_voice_id = w[k]
  <2>1. CASE ps.nvoices = 1
    <3>1. w[k - 1] = Root
      BY <1>1, <1>2, <1>3, <2>1 DEF Names
    <3> QED
      BY <1>6, <2>1, <3>1 DEF get_next_voice_id
  <2>2. CASE ps.nvoices # 1
    BY <1>6, <1>7, <2>2 DEF get_next_voice_id
  <2> QED
    BY <2>1, <2>2
<1> QED
  BY <1>1, <1>3, <1>5, <1>6, <1>7, <1>8, <1>9 DEF k, w

\* A patch asks for the end of a voice of the list.
LEMMA AskEffect ==
  ASSUME NEW s, Good(s), NEW id \in {Walk(s)[n] : n \in 1 .. s.nvoices}, NEW asks \in BOOLEAN
  PROVE  LET t == IF asks THEN [s EXCEPT !.state[id] = PS_PLEASE_SHUTUP] ELSE s IN
         /\ Good(t) /\ Walk(t) = Walk(s) /\ t.nvoices = s.nvoices /\ t.dur = s.dur
         /\ Others(s, t, id) /\ id \in Ids
         /\ t.state[id] = IF asks THEN PS_PLEASE_SHUTUP ELSE s.state[id]
<1>1. s \in Lists /\ Sounding(s, Walk(s)) /\ Names(s, Walk(s))
  BY DEF Good, Sound
<1>2. id \in Ids
  BY <1>1 DEF Names
<1>3. CASE ~asks
  BY <1>2, <1>3 DEF Others
<1>4. CASE asks
  <2> DEFINE t == [s EXCEPT !.state[id] = PS_PLEASE_SHUTUP]
  <2>1. /\ t \in Lists /\ t.next = s.next /\ t.prev = s.prev /\ t.nvoices = s.nvoices
        /\ t.dur = s.dur /\ t.state = [s.state EXCEPT ![id] = PS_PLEASE_SHUTUP]
    BY <1>1 DEF Lists, States
  <2> HIDE DEF t
  <2>2. t.state[id] = PS_PLEASE_SHUTUP /\ \A i \in Ids \ {id} : t.state[i] = s.state[i]
    BY <1>1, <1>2, <2>1 DEF Lists
  <2>3. Sounding(t, Walk(s))
    <3>1. \A n \in 1 .. s.nvoices : Walk(s)[n] \in Ids
      BY <1>1 DEF Names
    <3>2. /\ \A n \in 1 .. s.nvoices :
               s.state[Walk(s)[n]] \in {PS_ON, PS_NOTEOFF, PS_PLEASE_SHUTUP}
          /\ \A i \in Ids : s.state[i] \in {PS_ON, PS_PLEASE_SHUTUP} =>
               \E n \in 1 .. s.nvoices : Walk(s)[n] = i
      BY <1>1 DEF Sounding
    <3>3. \A n \in 1 .. s.nvoices :
            t.state[Walk(s)[n]] \in {PS_ON, PS_NOTEOFF, PS_PLEASE_SHUTUP}
      BY <2>2, <3>1, <3>2
    <3>4. \A i \in Ids : t.state[i] \in {PS_ON, PS_PLEASE_SHUTUP} =>
            \E n \in 1 .. s.nvoices : Walk(s)[n] = i
      BY <2>2, <3>2
    <3> QED
      BY <2>1, <3>3, <3>4 DEF Sounding
  <2>4. Good(t) /\ Walk(t) = Walk(s)
    BY <2>1, <2>3, RestateKeepsList
  <2> QED
    BY <1>2, <1>4, <2>1, <2>2, <2>4 DEF Others, t
<1> QED
  BY <1>3, <1>4

\* and the patch of one voice, whatever it asks for.
LEMMA VoiceInv == ASSUME VoicesInv, Voice PROVE VoicesInv'
<1> DEFINE k == ps.nvoices - rounds + 1
           id == Walk(ps)[k]
<1>1. /\ pc = "compute" /\ rounds > 0 /\ Good(ps) /\ due \subseteq Ids
      /\ count = ps.nvoices /\ prev_noteoff \subseteq Ids /\ unseen \subseteq Ids
      /\ ~do_shutup => \A i \in Ids : ps.state[i] # PS_PLEASE_SHUTUP
  BY DEF Voice, VoicesInv, TypeOK, Asked, AtRound
<1>2. /\ rounds \in 1 .. ps.nvoices /\ k \in 1 .. ps.nvoices
      /\ get_next_voice_id = id /\ ps.next[last] = id
      /\ id \in Ids /\ unseen = Remaining(ps, Walk(ps), rounds)
  BY <1>1, VoiceAt
<1>3. id \in {Walk(ps)[n] : n \in 1 .. ps.nvoices}
  BY <1>2
<1>4. PICK asks \in BOOLEAN : /\ ps' = IF asks THEN [ps EXCEPT !.state[id] = PS_PLEASE_SHUTUP] ELSE ps
                              /\ do_shutup' = (do_shutup \/ asks)
  BY <1>2 DEF Voice, ps_noteoff_ugen
<1>5. /\ Good(ps') /\ Walk(ps') = Walk(ps) /\ ps'.nvoices = ps.nvoices
      /\ Others(ps, ps', id)
      /\ ps'.state[id] = IF asks THEN PS_PLEASE_SHUTUP ELSE ps.state[id]
  BY <1>1, <1>3, <1>4, AskEffect
<1>6. InLoop(ps, rounds - 1, ps.next[id], unseen \ {id})
  BY <1>1, <1>2, RoundAdvances
<1>7. /\ last' = id /\ rounds' = rounds - 1 /\ unseen' = unseen \ {id}
      /\ pc' = "compute" /\ count' = ps.nvoices
      /\ prev_noteoff' \subseteq Ids /\ due' \subseteq Ids
  <2>1. ps_offtick(id) \subseteq Ids
    BY <1>1, <1>2 DEF ps_offtick
  <2> QED
    BY <1>1, <1>2, <2>1 DEF Voice
<1>8. ps.nvoices \in Nat /\ rounds \in Nat /\ rounds - 1 <= ps.nvoices
      /\ ps.nvoices - (rounds - 1) = k /\ ps.nvoices \in 0 .. ninstances
      /\ rounds - 1 \in 0 .. ninstances
  <2>1. ps.nvoices \in 0 .. ninstances /\ ninstances \in Nat
    BY VoicesAssumption DEF VoicesInv, TypeOK
  <2> QED
    BY <1>2, <2>1
<1> HIDE DEF id, k
<1>9. AtRound'
  <2>1. unseen' = Remaining(ps, Walk(ps), rounds - 1)
    BY <1>6, <1>7 DEF InLoop
  <2>2. unseen' = Remaining(ps', Walk(ps'), rounds')
    BY <1>5, <1>7, <2>1 DEF Remaining
  <2>3. last' = Walk(ps')[ps'.nvoices - rounds']
    BY <1>5, <1>7, <1>8 DEF id
  <2> QED
    BY <1>5, <1>7, <1>8, <2>2, <2>3 DEF AtRound
<1>10. TypeOK'
  <2>1. ps' \in [state : [Ids -> States], dur : [Ids -> Int], noteoff : [Ids -> BOOLEAN],
             next : [Ids \cup {Root} -> Ids \cup {Nil}],
             prev : [Ids -> Ids \cup {Nil}], nvoices : 0 .. ninstances]
    BY <1>5 DEF Good, Sound, Lists
  <2>2. do_shutup' \in BOOLEAN
    BY <1>4
  <2> QED
    BY <1>1, <1>2, <1>7, <1>8, <2>1, <2>2 DEF TypeOK
<1>11. Asked'
  <2>1. ~do_shutup' => \A i \in Ids : ps'.state[i] # PS_PLEASE_SHUTUP
    BY <1>1, <1>2, <1>4, <1>5 DEF Others
  <2> QED
    BY <1>7, <2>1 DEF Asked
<1> QED
  BY <1>5, <1>9, <1>10, <1>11 DEF VoicesInv

\* A step keeps the invariant.
LEMMA NextInv == ASSUME VoicesInv, [Next]_vars PROVE VoicesInv'
<1>1. CASE Loaded \/ Tick
  BY <1>1 DEF Loaded, Tick, VoicesInv, TypeOK, AtRound, Asked, loop
<1>2. CASE UNCHANGED vars
  BY <1>2 DEF vars, VoicesInv, TypeOK, AtRound, Asked
<1> QED
  BY <1>1, <1>2, SchemeInv, EventsInv, ClockInv, ComputeInv, VoiceInv, ShutupInv, SilenceInv,
     ComputedInv DEF Next

---------------------------------------------------------------------------
(* Theorems.                                                               *)

\* Whatever is called, in whatever order the loops and the calls come, the
\* voices are one list and every loop stands at the voice it should.
THEOREM VoicesInvariant == Spec => []VoicesInv
<1>1. Init => VoicesInv
  BY InitInv
<1>2. VoicesInv /\ [Next]_vars => VoicesInv'
  BY NextInv
<1> QED
  BY <1>1, <1>2, PTL DEF Spec

\* The types, and one list, linked both ways: the invariant that the runs check.
\* Voices leaves out ps-clear-events, and ps-eval into a voice that sounds.
THEOREM InvHolds == Spec => []Inv
<1>1. VoicesInv => Inv
  <2> SUFFICES ASSUME VoicesInv PROVE Linked
    BY DEF VoicesInv, Inv
  <2> DEFINE w == Walk(ps)
  <2>1. /\ Good(ps) /\ Names(ps, w) /\ Links(ps, w) /\ Sounding(ps, w)
        /\ Listed = Remaining(ps, w, ps.nvoices)
    BY ListedIs DEF VoicesInv, Good, Sound
  <2>2. ps.nvoices \in Nat /\ ps.nvoices \in 0 .. ps.nvoices
    <3>1. ps.nvoices \in Nat
      BY <2>1 DEF Names
    <3> QED
      BY <3>1
  <2>3. Cardinality(Listed) = ps.nvoices /\ Listed \subseteq Ids
    BY <2>1, <2>2, RemainingCount
  <2>4. Nil \notin Listed
    BY <2>3, OutsideIds
  <2>5. /\ ps.next[Walk(ps)[ps.nvoices]] = Nil
        /\ \A n \in 2 .. ps.nvoices : ps.prev[Walk(ps)[n]] = Walk(ps)[n - 1]
    BY <2>1 DEF Links
  <2>6. \A id \in Ids :
       /\ ps.state[id] \in {PS_ON, PS_PLEASE_SHUTUP} => id \in Listed
       /\ id \in Listed => ps.state[id] \in {PS_ON, PS_NOTEOFF, PS_PLEASE_SHUTUP}
    <3>1. /\ \A n \in 1 .. ps.nvoices :
               ps.state[Walk(ps)[n]] \in {PS_ON, PS_NOTEOFF, PS_PLEASE_SHUTUP}
          /\ \A i \in Ids : ps.state[i] \in {PS_ON, PS_PLEASE_SHUTUP} =>
               \E n \in 1 .. ps.nvoices : Walk(ps)[n] = i
      BY <2>1 DEF Sounding
    <3> QED
      BY <3>1 DEF Listed
  <2> QED
    BY <2>3, <2>4, <2>5, <2>6 DEF Linked
<1> QED
  BY <1>1, VoicesInvariant, PTL

\* A loop visits each voice that was in the list when it began once, and
\* follows no NULL, whatever it removes on its way.
THEOREM EachOnceHolds == Spec => []EachOnce
<1>1. VoicesInv => EachOnce
  <2> SUFFICES ASSUME VoicesInv PROVE EachOnce
    OBVIOUS
  <2>1. Names(ps, Walk(ps)) /\ ps.nvoices \in Nat /\ rounds \in Int
    <3>1. Names(ps, Walk(ps))
      BY DEF VoicesInv, Good, Sound
    <3>2. rounds \in Int
      BY DEF VoicesInv, TypeOK
    <3> QED
      BY <3>1, <3>2 DEF Names
  <2>2. ASSUME pc \in {"clock", "shutup"}
        PROVE  rounds = Cardinality(unseen) /\ (rounds > 0 => last \in unseen)
    <3>1. rounds \in 0 .. ps.nvoices /\ unseen = Remaining(ps, Walk(ps), rounds)
      BY <2>2 DEF VoicesInv, AtRound, InLoop
    <3>2. rounds = Cardinality(unseen)
      BY <2>1, <3>1, RemainingCount
    <3>3. rounds > 0 => last \in unseen
      BY <2>2, RoundAt
    <3> QED
      BY <3>2, <3>3
  <2>3. ASSUME pc = "compute"
        PROVE  /\ rounds = Cardinality(unseen)
               /\ rounds > 0 => last # Nil /\ get_next_voice_id \in unseen
    <3>1. /\ rounds <= ps.nvoices /\ rounds \in 0 .. ninstances
          /\ unseen = Remaining(ps, Walk(ps), rounds)
      BY <2>3 DEF VoicesInv, TypeOK, AtRound
    <3>2. rounds \in 0 .. ps.nvoices
      BY <2>1, <3>1
    <3>3. rounds = Cardinality(unseen)
      BY <2>1, <3>1, <3>2, RemainingCount
    <3>4. rounds > 0 => last # Nil /\ get_next_voice_id \in unseen
      BY <2>3, VoiceAt
    <3> QED
      BY <3>3, <3>4
  <2> QED
    BY <2>2, <2>3 DEF EachOnce
<1> QED
  BY <1>1, VoicesInvariant, PTL

\* A voice whose patch asked for its end has it before the same sample ends.
THEOREM SilencedHolds == Spec => []Silenced
<1>1. VoicesInv => Silenced
  BY DEF VoicesInv, Asked, Silenced
<1> QED
  BY <1>1, VoicesInvariant, PTL

---------------------------------------------------------------------------
(* Notes are not stolen.                                                   *)

\* A voice that nothing is done to.
Same(s, t, id) == t.state[id] = s.state[id] /\ t.dur[id] = s.dur[id]

\* Scheme code and events leave a voice that plays, unless they name it.
LEMMA SchemeLeaves ==
  ASSUME VoicesInv, NEW i \in Ids, ps.state[i] = PS_ON, ps.dur[i] # 0, NEW id \in Ids,
         \/ ps_eval(id) \/ ps_turnoff(id) \/ ps_noteoff(id) \/ ps_noteoff_mode(id)
         \/ \E dur \in Durations : ps_turnon(id, dur)
         \/ \E to \in Ids, dur \in Durations : Note(id, to, dur)
  PROVE  Same(ps, ps', i) \/ ps_turnoff(i) \/ ps_noteoff(i)
<1>0. Good(ps) /\ Durations \subseteq Int /\ i \in Listed
  BY AskerListed, VoicesAssumption DEF VoicesInv
<1>1. CASE ps_eval(id)
  <2>1. ps' = [ps EXCEPT !.state[id] = PS_OFF] /\ i # id
    BY <1>0, <1>1 DEF ps_eval
  <2>2. Others(ps, ps', id) /\ ps'.dur = ps.dur
    BY <1>0, <2>1, EvalOthers
  <2> QED
    BY <2>1, <2>2 DEF Others, Same
<1>2. CASE ps_turnoff(id)
  <2>1. ps' = ps_turnoff_sporthlet(ps, id)
    BY <1>2 DEF ps_turnoff
  <2>2. Others(ps, ps', id) /\ ps'.dur = ps.dur
    BY <1>0, <2>1, TurnOffEffect, TurnOffOthers
  <2> QED
    BY <1>2, <2>2 DEF Others, Same
<1>3. CASE ps_noteoff(id)
  <2>1. ps' = ps_sporthlet_noteoff(ps, id)
    BY <1>3 DEF ps_noteoff
  <2>2. Others(ps, ps', id) /\ ps'.dur = ps.dur
    BY <1>0, <2>1, NoteoffEffect, NoteoffOthers
  <2> QED
    BY <1>3, <2>2 DEF Others, Same
<1>4. CASE ps_noteoff_mode(id)
  <2>1. ps' = [ps EXCEPT !.noteoff[id] = TRUE]
    BY <1>4 DEF ps_noteoff_mode
  <2> QED
    BY <1>0, <2>1, ModeEffect DEF Same
<1>5. ASSUME NEW dur \in Durations, ps_turnon(id, dur) PROVE Same(ps, ps', i)
  <2>1. ps' = ps_turnon_sporthlet(ps, id, dur) /\ dur \in Int
    BY <1>0, <1>5 DEF ps_turnon
  <2>2. /\ Others(ps, ps', id)
        /\ ps'.state[id] = IF ps.state[id] = PS_OFF THEN PS_ON ELSE ps.state[id]
        /\ \A j \in Ids : j # id \/ ps.state[id] # PS_OFF => ps'.dur[j] = ps.dur[j]
    BY <1>0, <2>1, TurnOnOthers
  <2> QED
    BY <2>2 DEF Others, Same, PS_ON, PS_OFF
<1>6. ASSUME NEW to \in Ids, NEW dur \in Durations, Note(id, to, dur) PROVE Same(ps, ps', i)
  <2>1. PICK taken \in Ids : Free(ps, taken) /\ ps' = NoteOn(ps, taken, dur)
    BY <1>6, NoteTakes
  <2>2. i # taken
    BY <2>1 DEF Free, PS_ON, PS_OFF
  <2>3. dur \in Int
    BY <1>0
  <2> DEFINE t == NoteOn(ps, taken, dur)
  <2>5. /\ Good(t) /\ Others(ps, t, taken)
        /\ t.state[taken] = IF ps.state[taken] \in {PS_OFF, PS_ON} THEN PS_ON ELSE ps.state[taken]
        /\ \A j \in Ids : j # taken => t.dur[j] = ps.dur[j]
        /\ ps.state[taken] \in {PS_OFF, PS_ON} => t.dur[taken] = dur
    BY <1>0, <2>1, <2>3, NoteEffect
  <2>4. /\ Others(ps, ps', taken)
        /\ \A j \in Ids : j # taken => ps'.dur[j] = ps.dur[j]
    BY <2>1, <2>5
  <2> QED
    BY <2>2, <2>4 DEF Others, Same
<1> QED
  BY <1>1, <1>2, <1>3, <1>4, <1>5, <1>6

\* A tick leaves every voice but the one it has reached, and only ages that
\* one while it has time left.
LEMMA ClockLeaves ==
  ASSUME VoicesInv, NEW i \in Ids, Clock
  PROVE  /\ i # last => Same(ps, ps', i)
         /\ ps.dur[last] # 0 => ps'.state[last] = ps.state[last]
         /\ ps.dur[last] < 0 => ps'.dur[last] = ps.dur[last]
         /\ ps.dur[last] > 0 => ps'.dur[last] = ps.dur[last] - 1
         /\ ps.dur[last] = 0 => ps'.dur[last] = ps.dur[last]
         /\ ps'.state[last] \in {ps.state[last], PS_NOTEOFF, PS_OFF}
         /\ ps.dur[last] \in Int
<1> DEFINE k == ps.nvoices - rounds + 1
<1>1. pc = "clock" /\ rounds > 0 /\ ps' = Decremented(ps, last) /\ Good(ps)
  BY DEF Clock, VoicesInv
<1>2. k \in 1 .. ps.nvoices /\ last = Walk(ps)[k] /\ last \in Ids
  BY <1>1, RoundAt
<1>3. /\ ps.dur \in [Ids -> Int] /\ ps.state \in [Ids -> States]
      /\ ps.dur[last] \in Int
  <2>1. ps.dur \in [Ids -> Int] /\ ps.state \in [Ids -> States]
    BY <1>1 DEF Good, Sound, Lists
  <2> QED
    BY <1>2, <2>1
<1> HIDE DEF k
<1>4. /\ ps.dur[last] < 0 => ps'.state = ps.state /\ ps'.dur = ps.dur
      /\ ps.dur[last] > 0 => ps'.state = ps.state /\ ps'.dur = [ps.dur EXCEPT ![last] = @ - 1]
      /\ ps.dur[last] = 0 =>
           /\ ps'.dur = ps.dur
           /\ \/ ps'.state = ps.state
              \/ ps'.state = [ps.state EXCEPT ![last] = PS_NOTEOFF] /\ ps.state[last] # PS_OFF
              \/ ps'.state = [ps.state EXCEPT ![last] = PS_OFF]
  BY <1>1, <1>2, DecrementedEffect
<1>5. CASE ps.dur[last] < 0
  BY <1>2, <1>3, <1>4, <1>5 DEF Same
<1>6. CASE ps.dur[last] > 0
  BY <1>2, <1>3, <1>4, <1>6 DEF Same
<1>7. CASE ps.dur[last] = 0
  BY <1>2, <1>3, <1>4, <1>7 DEF Same
<1> QED
  BY <1>3, <1>5, <1>6, <1>7

\* A sample leaves every voice, but one of them may ask for its end.
LEMMA VoiceLeaves ==
  ASSUME VoicesInv, NEW i \in Ids, Voice
  PROVE  \/ Same(ps, ps', i)
         \/ ps'.state[i] = PS_PLEASE_SHUTUP /\ i = get_next_voice_id /\ ps'.dur[i] = ps.dur[i]
<1> DEFINE id == get_next_voice_id
<1>1. Good(ps) /\ id \in {Walk(ps)[n] : n \in 1 .. ps.nvoices}
  BY VoiceAt DEF VoicesInv, Voice
<1>2. PICK asks \in BOOLEAN : ps' = IF asks THEN [ps EXCEPT !.state[id] = PS_PLEASE_SHUTUP] ELSE ps
  BY DEF Voice, ps_noteoff_ugen
<1> HIDE DEF id
<1>3. /\ ps'.dur = ps.dur /\ Others(ps, ps', id)
      /\ ps'.state[id] = IF asks THEN PS_PLEASE_SHUTUP ELSE ps.state[id]
  BY <1>1, <1>2, AskEffect
<1>4. CASE i = id
  BY <1>3, <1>4 DEF Same, id
<1>5. CASE i # id
  BY <1>3, <1>5 DEF Same, Others
<1> QED
  BY <1>4, <1>5

\* The loop that removes voices leaves those that did not ask.
LEMMA SilenceLeaves ==
  ASSUME VoicesInv, NEW i \in Ids, Silence, ps.state[i] # PS_PLEASE_SHUTUP
  PROVE  Same(ps, ps', i)
<1>1. pc = "shutup" /\ rounds > 0 /\ Good(ps)
  BY DEF Silence, VoicesInv
<1>2. last \in Ids
  BY <1>1, RoundAt
<1>3. CASE ps.state[last] = PS_PLEASE_SHUTUP
  <2>1. ps' = ps_turnoff_sporthlet(ps, last) /\ i # last
    BY <1>3 DEF Silence
  <2>2. Others(ps, ps', last) /\ ps'.dur = ps.dur
    BY <1>1, <1>2, <2>1, TurnOffEffect, TurnOffOthers
  <2> QED
    BY <2>1, <2>2 DEF Same, Others
<1>4. CASE ps.state[last] # PS_PLEASE_SHUTUP
  BY <1>4 DEF Silence, Same
<1> QED
  BY <1>3, <1>4

\* A note plays as long as it was meant to, unless its own patch ends it or
\* scheme code names its voice: nothing else does, find_free_voice included.
THEOREM NotStolenHolds == Spec => NotStolen
<1> DEFINE Kept(id) ==
       ps.state[id] = PS_ON /\ ps.dur[id] # 0 =>
         \/ ps'.state[id] = PS_ON
            /\ ps'.dur[id] = ps.dur[id] - (IF pc = "clock" /\ id = last /\ ps.dur[id] > 0
                                          THEN 1 ELSE 0)
         \/ ps'.state[id] = PS_PLEASE_SHUTUP /\ pc = "compute"
         \/ Scheme /\ (ps_turnoff(id) \/ ps_noteoff(id))
<1>1. ASSUME VoicesInv, Next PROVE \A i \in Ids : Kept(i)
  <2> SUFFICES ASSUME NEW i \in Ids, ps.state[i] = PS_ON, ps.dur[i] # 0 PROVE Kept(i)
    OBVIOUS
  <2>0. ps.dur[i] \in Int
    <3>1. ps.dur \in [Ids -> Int]
      BY <1>1 DEF VoicesInv, Good, Sound, Lists
    <3> QED
      BY <3>1
  <2>1. ASSUME Same(ps, ps', i), pc # "clock" \/ i # last PROVE Kept(i)
    BY <2>0, <2>1 DEF Same
  <2>2. ASSUME NEW id \in Ids,
               \/ ps_eval(id) \/ ps_turnoff(id) \/ ps_noteoff(id) \/ ps_noteoff_mode(id)
               \/ \E dur \in Durations : ps_turnon(id, dur)
               \/ \E to \in Ids, dur \in Durations : Note(id, to, dur)
        PROVE  Kept(i)
    <3>1. pc # "clock" /\ Scheme
      BY <2>2 DEF ps_eval, ps_turnoff, ps_noteoff, ps_noteoff_mode, ps_turnon, Note, Scheme
    <3>2. Same(ps, ps', i) \/ ps_turnoff(i) \/ ps_noteoff(i)
      BY <1>1, <2>2, SchemeLeaves
    <3> QED
      BY <2>1, <3>1, <3>2
  <2>3. CASE Clock
    <3>0. pc = "clock"
      BY <2>3 DEF Clock
    <3>1. CASE i # last
      BY <1>1, <2>1, <2>3, <3>1, ClockLeaves
    <3>2. CASE i = last /\ ps.dur[i] < 0
      <4>1. ps'.state[i] = PS_ON /\ ps'.dur[i] = ps.dur[i]
        BY <1>1, <2>3, <3>2, ClockLeaves
      <4> QED
        BY <2>0, <3>2, <4>1
    <3>3. CASE i = last /\ ps.dur[i] > 0
      <4>1. ps'.state[i] = PS_ON /\ ps'.dur[i] = ps.dur[i] - 1
        BY <1>1, <2>3, <3>3, ClockLeaves
      <4> QED
        BY <3>0, <3>3, <4>1
    <3> QED
      BY <2>0, <3>1, <3>2, <3>3
  <2>4. CASE Voice
    <3>1. pc = "compute"
      BY <2>4 DEF Voice
    <3> QED
      BY <1>1, <2>1, <2>4, <3>1, VoiceLeaves
  <2>5. CASE Silence
    <3>1. pc = "shutup" /\ Same(ps, ps', i)
      BY <1>1, <2>5, SilenceLeaves DEF Silence, PS_ON, PS_PLEASE_SHUTUP
    <3> QED
      BY <2>1, <3>1
  <2>6. CASE Loaded \/ Tick \/ Events \/ Compute \/ Shutup \/ Computed
    <3>1. ps' = ps /\ (pc # "clock" \/ Compute)
      BY <2>6 DEF Loaded, Tick, Events, Compute, Shutup, Computed
    <3>2. ASSUME Compute, pc = "clock" PROVE i # last
      <4>1. rounds = 0
        BY <3>2 DEF Compute
      <4>2. last = Nil
        BY <1>1, <3>2, <4>1 DEF VoicesInv, AtRound, InLoop
      <4> QED
        BY <4>2, OutsideIds
    <3> QED
      BY <2>1, <3>1, <3>2 DEF Same
  <2> QED
    BY <1>1, <2>2, <2>3, <2>4, <2>5, <2>6 DEF Next
<1>2. VoicesInv /\ [Next]_vars =>
        [\A id \in Ids :
           ps.state[id] = PS_ON /\ ps.dur[id] # 0 =>
             \/ ps'.state[id] = PS_ON
                /\ ps'.dur[id] = ps.dur[id] - (IF pc = "clock" /\ id = last /\ ps.dur[id] > 0
                                              THEN 1 ELSE 0)
             \/ ps'.state[id] = PS_PLEASE_SHUTUP /\ pc = "compute"
             \/ Scheme /\ (ps_turnoff(id) \/ ps_noteoff(id))]_vars
  BY <1>1
<1> QED
  BY <1>2, VoicesInvariant, PTL DEF Spec, NotStolen

---------------------------------------------------------------------------
(* The offtick of a voice whose time is up.                                *)

\* A voice that scheme code or an event turns on gets a duration of a note.
LEMMA SchemeTimes ==
  ASSUME VoicesInv, NEW i \in Ids, ps'.state[i] = PS_ON, NEW id \in Ids,
         \/ ps_eval(id) \/ ps_turnoff(id) \/ ps_noteoff(id) \/ ps_noteoff_mode(id)
         \/ \E dur \in Durations : ps_turnon(id, dur)
         \/ \E to \in Ids, dur \in Durations : Note(id, to, dur)
  PROVE  Same(ps, ps', i) \/ ps'.dur[i] \in Durations
<1>0. Good(ps) /\ Durations \subseteq Int
  BY VoicesAssumption DEF VoicesInv
<1>1. CASE ps_eval(id)
  <2>1. ps' = [ps EXCEPT !.state[id] = PS_OFF]
    BY <1>0, <1>1 DEF ps_eval
  <2>2. Others(ps, ps', id) /\ ps'.dur = ps.dur /\ ps'.state[id] = PS_OFF
    BY <1>0, <2>1, EvalOthers
  <2> QED
    BY <2>2 DEF Others, Same, PS_OFF, PS_ON
<1>2. CASE ps_turnoff(id)
  <2>1. ps' = ps_turnoff_sporthlet(ps, id)
    BY <1>2 DEF ps_turnoff
  <2>2. /\ Others(ps, ps', id) /\ ps'.dur = ps.dur
        /\ ps'.state[id] = IF CanTurnOff(ps, id) THEN PS_OFF ELSE ps.state[id]
    BY <1>0, <2>1, TurnOffEffect, TurnOffOthers
  <2> QED
    BY <2>2 DEF Others, Same, PS_OFF, PS_ON
<1>3. CASE ps_noteoff(id)
  <2>1. ps' = ps_sporthlet_noteoff(ps, id)
    BY <1>3 DEF ps_noteoff
  <2>2. /\ Others(ps, ps', id) /\ ps'.dur = ps.dur
        /\ ps'.state[id] = IF ps.state[id] = PS_OFF THEN PS_OFF ELSE PS_NOTEOFF
    BY <1>0, <2>1, NoteoffEffect, NoteoffOthers
  <2> QED
    BY <2>2 DEF Others, Same, PS_OFF, PS_NOTEOFF, PS_ON
<1>4. CASE ps_noteoff_mode(id)
  <2>1. ps' = [ps EXCEPT !.noteoff[id] = TRUE]
    BY <1>4 DEF ps_noteoff_mode
  <2> QED
    BY <1>0, <2>1, ModeEffect DEF Same
<1>5. ASSUME NEW dur \in Durations, ps_turnon(id, dur)
      PROVE  Same(ps, ps', i) \/ ps'.dur[i] \in Durations
  <2>1. ps' = ps_turnon_sporthlet(ps, id, dur) /\ dur \in Int
    BY <1>0, <1>5 DEF ps_turnon
  <2>2. /\ Others(ps, ps', id)
        /\ ps'.state[id] = IF ps.state[id] = PS_OFF THEN PS_ON ELSE ps.state[id]
        /\ \A j \in Ids : j # id \/ ps.state[id] # PS_OFF => ps'.dur[j] = ps.dur[j]
        /\ ps.state[id] = PS_OFF => ps'.dur[id] = dur
    BY <1>0, <2>1, TurnOnOthers
  <2> QED
    BY <2>2 DEF Others, Same
<1>6. ASSUME NEW to \in Ids, NEW dur \in Durations, Note(id, to, dur)
      PROVE  Same(ps, ps', i) \/ ps'.dur[i] \in Durations
  <2>1. PICK taken \in Ids : Free(ps, taken) /\ ps' = NoteOn(ps, taken, dur)
    BY <1>6, NoteTakes
  <2>3. dur \in Int
    BY <1>0
  <2> DEFINE t == NoteOn(ps, taken, dur)
  <2>5. /\ Good(t) /\ Others(ps, t, taken)
        /\ t.state[taken] = IF ps.state[taken] \in {PS_OFF, PS_ON} THEN PS_ON ELSE ps.state[taken]
        /\ \A j \in Ids : j # taken => t.dur[j] = ps.dur[j]
        /\ ps.state[taken] \in {PS_OFF, PS_ON} => t.dur[taken] = dur
    BY <1>0, <2>1, <2>3, NoteEffect
  <2> HIDE DEF t
  <2>6. ps' = t
    BY <2>1 DEF t
  <2>7. CASE i = taken
    BY <2>5, <2>6, <2>7
  <2>8. CASE i # taken
    BY <2>5, <2>6, <2>8 DEF Others, Same
  <2> QED
    BY <2>7, <2>8
<1> QED
  BY <1>1, <1>2, <1>3, <1>4, <1>5, <1>6

\* Scheme calls keep what is known of a note that starts,
LEMMA FreshScheme ==
  ASSUME VoicesInv, Fresh, 0 \notin Durations, NEW id \in Ids,
         \/ ps_eval(id) \/ ps_turnoff(id) \/ ps_noteoff(id) \/ ps_noteoff_mode(id)
         \/ \E dur \in Durations : ps_turnon(id, dur)
         \/ \E to \in Ids, dur \in Durations : Note(id, to, dur)
  PROVE  Fresh'
<1>1. /\ pc \in {"load", "events"} /\ pc' = pc /\ prev_noteoff' = prev_noteoff
      /\ due' \subseteq due
  <2>1. CASE ps_eval(id) \/ ps_noteoff(id) \/ ps_noteoff_mode(id)
    BY <2>1 DEF ps_eval, ps_noteoff, ps_noteoff_mode, Scheme
  <2>2. CASE ps_turnoff(id)
    BY <2>2 DEF ps_turnoff, Scheme
  <2>3. CASE \E dur \in Durations : ps_turnon(id, dur)
    BY <2>3 DEF ps_turnon, Scheme
  <2>4. CASE \E to \in Ids, dur \in Durations : Note(id, to, dur)
    BY <2>4 DEF Note
  <2> QED
    BY <2>1, <2>2, <2>3, <2>4
<1>2. due = {} /\ due' = {}
  BY <1>1 DEF Fresh
<1>3. \A i \in Ids : ps.state[i] = PS_ON /\ i \in prev_noteoff => ps.dur[i] # 0
  BY <1>1 DEF Fresh
<1>4. \A i \in Ids : ps'.state[i] = PS_ON => Same(ps, ps', i) \/ ps'.dur[i] \in Durations
  BY SchemeTimes
<1>5. \A i \in Ids : ps'.state[i] = PS_ON /\ i \in prev_noteoff' => ps'.dur[i] # 0
  BY <1>1, <1>3, <1>4 DEF Same
<1> QED
  BY <1>1, <1>2, <1>5 DEF Fresh

\* A round leaves every other voice in the list.
LEMMA RoundListed ==
  ASSUME NEW s, Names(s, Walk(s)), NEW k \in 1 .. s.nvoices, NEW t, Round(s, t, k),
         NEW n \in 1 .. s.nvoices, n # k
  PROVE  \E m \in 1 .. t.nvoices : Walk(t)[m] = Walk(s)[n]
<1> DEFINE w == Walk(s)
           N == s.nvoices
<1>1. N \in Nat /\ k \in 1 .. N /\ n \in 1 .. N
  BY DEF Names
<1>2. CASE Walk(t) = w /\ t.nvoices = N
  BY <1>1, <1>2
<1>3. CASE Walk(t) = Without(w, N, k) /\ t.nvoices = N - 1
  <2> HIDE DEF w
  <2>1. CASE n < k
    <3>1. n \in 0 .. N - 1 /\ n \in 1 .. N - 1
      BY <1>1, <2>1
    <3>2. Without(w, N, k)[n] = w[n]
      BY <2>1, <3>1 DEF Without
    <3> QED
      BY <1>3, <3>1, <3>2 DEF w
  <2>2. CASE n > k
    <3>1. n - 1 \in 0 .. N - 1 /\ n - 1 \in 1 .. N - 1 /\ ~(n - 1 < k) /\ n - 1 + 1 = n
      BY <1>1, <2>2
    <3>2. Without(w, N, k)[n - 1] = w[n]
      BY <3>1 DEF Without
    <3> QED
      BY <1>3, <3>1, <3>2 DEF w
  <2> QED
    BY <1>1, <2>1, <2>2
<1> QED
  BY <1>2, <1>3 DEF Round

\* so does the clock,
LEMMA FreshClock == ASSUME VoicesInv, Fresh, Clock PROVE Fresh'
<1> DEFINE k == ps.nvoices - rounds + 1
<1>1. /\ pc = "clock" /\ rounds > 0 /\ ps' = Decremented(ps, last) /\ Good(ps)
      /\ pc' = "clock" /\ unseen' = unseen \ {last} /\ prev_noteoff' = prev_noteoff
      /\ Names(ps, Walk(ps))
      /\ due' = IF ps.state[last] # ps'.state[last] /\ ps'.state[last] = PS_NOTEOFF
                THEN due \cup {last}
                ELSE IF ps'.state[last] = PS_OFF THEN due \ {last} ELSE due
  BY DEF Clock, VoicesInv, Good, Sound
<1>2. k \in 1 .. ps.nvoices /\ last = Walk(ps)[k] /\ last \in Ids /\ last \in unseen
  BY <1>1, RoundAt
<1>3. /\ ps.dur \in [Ids -> Int] /\ ps.state \in [Ids -> States] /\ ps.dur[last] \in Int
  <2>1. ps.dur \in [Ids -> Int] /\ ps.state \in [Ids -> States]
    BY <1>1 DEF Good, Sound, Lists
  <2> QED
    BY <1>2, <2>1
<1> HIDE DEF k
<1>4. /\ due \cap unseen = {} /\ due \subseteq Listed /\ due \cap prev_noteoff = {}
      /\ \A i \in Ids : ps.state[i] = PS_ON /\ i \in prev_noteoff => ps.dur[i] # 0 \/ i \notin unseen
      /\ ps.state[last] # PS_PLEASE_SHUTUP
      /\ last \notin due
  BY <1>1, <1>2 DEF Fresh, VoicesInv, Asked
<1>5. ps.state[last] \in {PS_ON, PS_NOTEOFF, PS_PLEASE_SHUTUP}
  BY <1>1, <1>2 DEF Good, Sound, Sounding
<1>6. Round(ps, ps', k)
  BY <1>1, <1>2, DecrementedEffect
<1>7. ASSUME ps.state[last] # ps'.state[last], ps'.state[last] = PS_NOTEOFF
      PROVE  /\ ps.dur[last] = 0 /\ Walk(ps') = Walk(ps) /\ ps'.nvoices = ps.nvoices
             /\ last \notin prev_noteoff
  <2>1. ps.dur[last] = 0
    BY <1>2, <1>3, <1>7, <1>1, ClockLeaves
  <2> DEFINE t == Decremented(ps, last)
  <2>4. Good(ps) /\ last \in Ids /\ last = Walk(ps)[k] /\ k \in 1 .. ps.nvoices
    BY <1>1, <1>2
  <2>6. /\ Good(t) /\ t.noteoff = ps.noteoff /\ Round(ps, t, k)
        /\ ps.dur[last] < 0 => t.state = ps.state /\ t.dur = ps.dur
        /\ ps.dur[last] > 0 => t.state = ps.state /\ t.dur = [ps.dur EXCEPT ![last] = @ - 1]
        /\ ps.dur[last] = 0 =>
             /\ t.dur = ps.dur
             /\ \/ t.state = ps.state
                \/ /\ t.state = [ps.state EXCEPT ![last] = PS_NOTEOFF] /\ ps.state[last] # PS_OFF
                   /\ Walk(t) = Walk(ps) /\ t.nvoices = ps.nvoices
                \/ t.state = [ps.state EXCEPT ![last] = PS_OFF]
    BY <2>4, DecrementedEffect
  <2> HIDE DEF t
  <2>5. ps.dur[last] = 0 =>
          \/ ps'.state = ps.state
          \/ Walk(ps') = Walk(ps) /\ ps'.nvoices = ps.nvoices
          \/ ps'.state = [ps.state EXCEPT ![last] = PS_OFF]
    BY <1>1, <2>6 DEF t
  <2>2. \/ ps'.state = ps.state
        \/ Walk(ps') = Walk(ps) /\ ps'.nvoices = ps.nvoices
        \/ ps'.state = [ps.state EXCEPT ![last] = PS_OFF]
    BY <2>1, <2>5
  <2>3. Walk(ps') = Walk(ps) /\ ps'.nvoices = ps.nvoices
    BY <1>2, <1>3, <1>7, <2>2 DEF PS_OFF, PS_NOTEOFF
  <2>7. last \notin prev_noteoff
    BY <1>2, <1>4, <1>5, <1>7, <2>1
  <2> QED
    BY <2>1, <2>3, <2>7
<1>8. due \subseteq Listed'
  <2> SUFFICES ASSUME NEW i \in due PROVE i \in Listed'
    OBVIOUS
  <2>1. PICK n \in 1 .. ps.nvoices : i = Walk(ps)[n]
    BY <1>4 DEF Listed
  <2>2. n # k
    BY <1>2, <1>4, <2>1
  <2>3. \E m \in 1 .. ps'.nvoices : Walk(ps')[m] = Walk(ps)[n]
    BY <1>1, <1>2, <1>6, <2>2, RoundListed
  <2> QED
    BY <2>1, <2>3 DEF Listed
<1>9. due' \cap unseen' = {} /\ due' \subseteq Listed' /\ due' \cap prev_noteoff' = {}
  <2>1. CASE ps.state[last] # ps'.state[last] /\ ps'.state[last] = PS_NOTEOFF
    <3>1. due' = due \cup {last} /\ last \notin prev_noteoff
      BY <1>1, <1>7, <2>1
    <3>2. last \in Listed'
      BY <1>2, <1>7, <2>1 DEF Listed
    <3> QED
      BY <1>1, <1>4, <1>8, <3>1, <3>2
  <2>2. CASE ~(ps.state[last] # ps'.state[last] /\ ps'.state[last] = PS_NOTEOFF)
    <3>1. due' \subseteq due
      BY <1>1, <2>2
    <3> QED
      BY <1>1, <1>4, <1>8, <3>1
  <2> QED
    BY <2>1, <2>2
<1>10. \A i \in Ids : i # last => Same(ps, ps', i)
  BY ClockLeaves
<1>11. \A i \in Ids : ps'.state[i] = PS_ON /\ i \in prev_noteoff' => ps'.dur[i] # 0 \/ i \notin unseen'
  BY <1>1, <1>4, <1>10 DEF Same
<1> QED
  BY <1>1, <1>9, <1>11 DEF Fresh

\* so does the patch of a voice,
LEMMA FreshVoice == ASSUME VoicesInv, Fresh, Voice PROVE Fresh'
<1> DEFINE id == get_next_voice_id
<1>1. /\ pc = "compute" /\ rounds > 0 /\ pc' = "compute"
      /\ due' = due \ {id} /\ unseen' = unseen \ {id}
      /\ prev_noteoff' = IF ps.state[id] = PS_NOTEOFF THEN prev_noteoff \cup {id}
                                                      ELSE prev_noteoff \ {id}
  BY DEF Voice, ps_offtick
<1>2. id \in unseen
  BY <1>1, VoiceAt
<1>3. /\ due \subseteq unseen /\ due \cap prev_noteoff = {}
      /\ \A i \in Ids : ps.state[i] = PS_ON /\ i \in prev_noteoff => ps.dur[i] # 0 \/ i \in unseen
  BY <1>1 DEF Fresh
<1>4. \A i \in Ids : ps'.state[i] = PS_ON => Same(ps, ps', i)
  BY VoiceLeaves DEF PS_ON, PS_PLEASE_SHUTUP
<1> HIDE DEF id
<1>5. \A i \in Ids : ps'.state[i] = PS_ON /\ i \in prev_noteoff' => ps'.dur[i] # 0 \/ i \in unseen'
  <2> SUFFICES ASSUME NEW i \in Ids, ps'.state[i] = PS_ON, i \in prev_noteoff'
               PROVE  ps'.dur[i] # 0 \/ i \in unseen'
    OBVIOUS
  <2>1. ps.state[i] = PS_ON /\ ps'.dur[i] = ps.dur[i]
    BY <1>4 DEF Same
  <2>2. i # id /\ i \in prev_noteoff
    BY <1>1, <2>1 DEF PS_ON, PS_NOTEOFF
  <2> QED
    BY <1>1, <1>3, <2>1, <2>2
<1>6. due' \subseteq unseen' /\ due' \cap prev_noteoff' = {}
  BY <1>1, <1>3
<1> QED
  BY <1>1, <1>5, <1>6 DEF Fresh

\* and so does every step.
LEMMA FreshNext ==
  ASSUME VoicesInv, Fresh, 0 \notin Durations, [Next]_vars PROVE Fresh'
<1>1. CASE Loaded \/ Tick
  BY <1>1 DEF Loaded, Tick, Fresh
<1>2. CASE Events
  <2>1. /\ pc = "events" /\ pc' = "clock" /\ due = {} /\ due' = {} /\ ps' = ps
        /\ prev_noteoff' = prev_noteoff
    BY <1>2 DEF Events, Fresh
  <2> QED
    BY <2>1 DEF Fresh
<1>3. CASE Compute
  <2>1. /\ pc' = "compute" /\ unseen' = Listed /\ due' = due /\ ps' = ps
        /\ prev_noteoff' = prev_noteoff /\ due \subseteq Listed /\ due \cap prev_noteoff = {}
    BY <1>3 DEF Compute, Fresh
  <2>2. \A i \in Ids : ps.state[i] = PS_ON => i \in Listed
    BY AskerListed DEF VoicesInv
  <2> QED
    BY <2>1, <2>2 DEF Fresh
<1>4. CASE Shutup \/ Silence \/ Computed
  <2>1. /\ pc' \in {"idle", "shutup"} /\ due' = due /\ prev_noteoff' = prev_noteoff
        /\ due \cap prev_noteoff = {}
    BY <1>4 DEF Shutup, Silence, Computed, Fresh
  <2>2. ASSUME pc = "compute", rounds = 0 PROVE unseen = {}
    <3>1. ps.nvoices \in Nat /\ unseen = Remaining(ps, Walk(ps), 0)
      BY <2>2 DEF VoicesInv, AtRound, Good, Sound, Names
    <3> QED
      BY <3>1 DEF Remaining
  <2>3. /\ due = {}
        /\ \A i \in Ids : ps.state[i] = PS_ON /\ i \in prev_noteoff => ps.dur[i] # 0
    BY <1>4, <2>2 DEF Shutup, Silence, Computed, Fresh
  <2>4. \A i \in Ids : ps'.state[i] = PS_ON => Same(ps, ps', i)
    <3>1. CASE Shutup \/ Computed
      BY <3>1 DEF Shutup, Computed, Same
    <3>2. CASE Silence
      <4> SUFFICES ASSUME NEW i \in Ids, ps'.state[i] = PS_ON PROVE Same(ps, ps', i)
        OBVIOUS
      <4>1. CASE ps.state[i] # PS_PLEASE_SHUTUP
        BY <3>2, <4>1, SilenceLeaves
      <4>2. CASE ps.state[i] = PS_PLEASE_SHUTUP
        <5>1. /\ Good(ps) /\ last \in Ids
              /\ ps' = IF ps.state[last] = PS_PLEASE_SHUTUP
                       THEN ps_turnoff_sporthlet(ps, last) ELSE ps
          BY <3>2, RoundAt DEF Silence, VoicesInv
        <5>2. CASE ps.state[last] = PS_PLEASE_SHUTUP
          <6>1. Others(ps, ps', last) /\ ps'.state[last] = PS_OFF
            BY <5>1, <5>2, TurnOffOthers DEF CanTurnOff
          <6> QED
            BY <4>2, <6>1 DEF Others, PS_ON, PS_OFF, PS_PLEASE_SHUTUP
        <5>3. CASE ps.state[last] # PS_PLEASE_SHUTUP
          BY <4>2, <5>1, <5>3 DEF PS_ON, PS_PLEASE_SHUTUP
        <5> QED
          BY <5>2, <5>3
      <4> QED
        BY <4>1, <4>2
    <3> QED
      BY <1>4, <3>1, <3>2
  <2> QED
    BY <2>1, <2>3, <2>4 DEF Fresh, Same
<1>5. CASE UNCHANGED vars
  BY <1>5 DEF vars, Fresh, Listed
<1> QED
  BY <1>1, <1>2, <1>3, <1>4, <1>5, FreshScheme, FreshClock, FreshVoice DEF Next

\* When notes take time, a voice that is computed after its timer went to 0
\* has an offtick that gives 1.
THEOREM OfftickSentHolds == ASSUME 0 \notin Durations PROVE Spec => []OfftickSent
<1>1. Init => VoicesInv /\ Fresh
  BY InitInv DEF Init, Fresh
<1>2. VoicesInv /\ Fresh /\ [Next]_vars => (VoicesInv /\ Fresh)'
  BY NextInv, FreshNext
<1>3. VoicesInv /\ Fresh => OfftickSent
  BY DEF Fresh, OfftickSent
<1> QED
  BY <1>1, <1>2, <1>3, PTL DEF Spec
=============================================================================
