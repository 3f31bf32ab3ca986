---------------------------- MODULE EventsProofs ----------------------------
(***************************************************************************)
(* The events of PolySporth: the vectors are well formed whatever the      *)
(* scheme code does, and a bracketed file whose functions create no events *)
(* themselves gets what Schedule promises.                                 *)
(*                                                                         *)
(* Chain, Sorted, Merged and Times are recursive functions.  What each     *)
(* computes is shown by an induction over its steps (UpTo, RunExists), for *)
(* chains of any length: a sort and a merge keep the nodes and order them, *)
(* and the differences add up to the times again.  With that every call of *)
(* scheme code keeps Sound, a claim about one record of the variables.     *)
(* Strong is the invariant of Inv; Ledger, with it, the one of Agree and   *)
(* of the refinement.                                                      *)
(***************************************************************************)
EXTENDS Events, FiniteSetTheorems, SequenceTheorems, WellFoundedInduction, TLAPS

---------------------------------------------------------------------------
(* Recursion over the numbers up to N, and over the nodes of a vector.     *)

\* A set of numbers that is not empty has a least one.
LEMMA LeastOf ==
  ASSUME NEW T, T \subseteq Nat, T # {}
  PROVE  \E x \in T : \A y \in T : x <= y
<1>1. IsWellFoundedOn(OpToRel(<, Nat), Nat)
  BY NatLessThanWellFounded
<1>2. PICK x \in T : \A y \in T : <<y, x>> \notin OpToRel(<, Nat)
  BY <1>1, WFMin
<1>3. \A y \in T : ~(y < x)
  BY <1>2 DEF OpToRel
<1> QED
  BY <1>3

\* What holds of zero, and of n + 1 when it holds of n, holds up to N.
LEMMA UpTo ==
  ASSUME NEW N \in Nat, NEW T, 0 \in T, \A n \in 0 .. N - 1 : n \in T => n + 1 \in T
  PROVE  0 .. N \subseteq T
<1> DEFINE F == (0 .. N) \ T
<1> SUFFICES ASSUME F # {} PROVE FALSE
  OBVIOUS
<1>1. PICK x \in F : \A y \in F : x <= y
  <2> F \subseteq Nat
    OBVIOUS
  <2> QED
    BY LeastOf
<1>2. x # 0 /\ x \in 1 .. N
  OBVIOUS
<1>3. x - 1 \in 0 .. N - 1 /\ x - 1 \in T /\ x - 1 + 1 = x
  BY <1>1, <1>2
<1> QED
  BY <1>3

\* f is what comes of b when F[1], F[2] .. are applied in turn.
IsRun(f, V, b, N, F) ==
  f \in [0 .. N -> V] /\ f[0] = b /\ \A k \in 1 .. N : f[k] = F[k][f[k - 1]]

\* A step function has a run of N steps from every start.
LEMMA RunExists ==
  ASSUME NEW V, NEW b \in V, NEW N \in Nat, NEW F \in [1 .. N -> [V -> V]]
  PROVE  \E f : IsRun(f, V, b, N, F)
<1> DEFINE Good(n, f) == f[0] = b /\ \A k \in 1 .. n : f[k] = F[k][f[k - 1]]
           T == {n \in 0 .. N : \E f \in [0 .. n -> V] : Good(n, f)}
<1>1. 0 \in T
  <2> DEFINE f == [n \in 0 .. 0 |-> b]
  <2>1. f \in [0 .. 0 -> V] /\ Good(0, f) /\ 0 \in 0 .. N
    OBVIOUS
  <2> HIDE DEF f, Good
  <2> QED
    BY <2>1
<1>2. ASSUME NEW n \in 0 .. N - 1, n \in T PROVE n + 1 \in T
  <2>1. PICK f \in [0 .. n -> V] : Good(n, f)
    BY <1>2
  <2> DEFINE g == [k \in 0 .. n + 1 |-> IF k = n + 1 THEN F[n + 1][f[n]] ELSE f[k]]
  <2>2. n + 1 \in 1 .. N /\ f[n] \in V /\ F[n + 1][f[n]] \in V
    OBVIOUS
  <2>3. g \in [0 .. n + 1 -> V]
    <3>1. \A k \in 0 .. n + 1 : k # n + 1 => k \in 0 .. n
      OBVIOUS
    <3>2. \A k \in 0 .. n + 1 : (IF k = n + 1 THEN F[n + 1][f[n]] ELSE f[k]) \in V
      BY <2>2, <3>1
    <3> QED
      BY <3>2
  <2>4. g[0] = b
    BY <2>1
  <2>5. ASSUME NEW k \in 1 .. n + 1 PROVE g[k] = F[k][g[k - 1]]
    <3>1. CASE k = n + 1
      <4>1. g[k] = F[n + 1][f[n]] /\ k - 1 = n /\ n \in 0 .. n + 1 /\ n # n + 1
        BY <3>1
      <4>2. g[k - 1] = f[n]
        BY <4>1
      <4> QED
        BY <3>1, <4>1, <4>2
    <3>2. CASE k # n + 1
      <4>1. k \in 1 .. n /\ k - 1 \in 0 .. n /\ k - 1 # n + 1
        BY <3>2
      <4>2. g[k] = f[k] /\ g[k - 1] = f[k - 1]
        BY <3>2, <4>1
      <4> QED
        BY <2>1, <4>1, <4>2
    <3> QED
      BY <3>1, <3>2
  <2>6. n + 1 \in 0 .. N
    OBVIOUS
  <2> HIDE DEF g
  <2> QED
    BY <2>3, <2>4, <2>5, <2>6
<1> HIDE DEF T
<1>3. 0 .. N \subseteq T
  BY <1>1, <1>2, UpTo
<1>4. N \in T
  BY <1>3
<1> QED
  BY <1>4 DEF T, IsRun

\* c is what a vector v holds in the heap h.
Chained(h, v, c) ==
  /\ c \in Seq(DOMAIN h) /\ Len(c) = v.size
  /\ c # <<>> => c[1] = v.first
  /\ \A i \in 1 .. Len(c) - 1 : h[c[i]].next = c[i + 1]

\* The walk over a vector finds what it holds.
LEMMA ChainIs ==
  ASSUME NEW h, NEW v, NEW c, Chained(h, v, c)
  PROVE  Chain(h, v) = c
<1> DEFINE N == v.size
           Step(f, i) == IF i = 0 THEN <<>>
                         ELSE Append(f[i - 1], IF i = 1 THEN v.first ELSE h[f[i - 1][i - 1]].next)
           w == [i \in 0 .. N |-> SubSeq(c, 1, i)]
           g == CHOOSE f : f = [i \in 0 .. N |-> Step(f, i)]
<1>1. N \in Nat /\ c \in Seq(DOMAIN h) /\ Len(c) = N
  BY DEF Chained
<1>2. \A i \in 1 .. N : c[i] = IF i = 1 THEN v.first ELSE h[c[i - 1]].next
  <2> TAKE i \in 1 .. N
  <2>1. CASE i = 1
    BY <1>1, <2>1 DEF Chained
  <2>2. CASE i # 1
    <3>1. i - 1 \in 1 .. Len(c) - 1 /\ i - 1 + 1 = i
      BY <1>1, <2>2
    <3> QED
      BY <2>2, <3>1 DEF Chained
  <2> QED
    BY <2>1, <2>2
<1>3. \A i \in 1 .. N : SubSeq(c, 1, i) = Append(SubSeq(c, 1, i - 1), c[i])
  BY <1>1
<1>4. SubSeq(c, 1, 0) = <<>> /\ SubSeq(c, 1, N) = c
  BY <1>1
<1>5. \A i \in 1 .. N : i # 1 => SubSeq(c, 1, i - 1)[i - 1] = c[i - 1]
  BY <1>1
<1> HIDE DEF N
<1>6. w = [i \in 0 .. N |-> Step(w, i)]
  <2> SUFFICES ASSUME NEW i \in 0 .. N PROVE w[i] = Step(w, i)
    OBVIOUS
  <2>1. CASE i = 0
    BY <1>4, <2>1
  <2>2. CASE i # 0
    <3>1. i \in 1 .. N /\ i - 1 \in 0 .. N
      BY <1>1, <2>2
    <3>2. w[i] = SubSeq(c, 1, i) /\ w[i - 1] = SubSeq(c, 1, i - 1)
      BY <3>1
    <3> QED
      BY <1>2, <1>3, <1>5, <2>2, <3>1, <3>2
  <2> QED
    BY <2>1, <2>2
<1>7. Chain(h, v) = g[N]
  BY DEF Chain, N
<1> HIDE DEF Step, w
<1>8. g = [i \in 0 .. N |-> Step(g, i)]
  BY <1>6, Zenon
<1> HIDE DEF g
<1> DEFINE T == {i \in 0 .. N : g[i] = w[i]}
<1>9. 0 \in T
  BY <1>1, <1>6, <1>8 DEF Step
<1>10. ASSUME NEW n \in 0 .. N - 1, n \in T PROVE n + 1 \in T
  <2>1. n + 1 \in 0 .. N /\ n + 1 - 1 = n /\ n + 1 # 0 /\ g[n] = w[n]
    BY <1>1, <1>10
  <2>2. g[n + 1] = Step(g, n + 1) /\ w[n + 1] = Step(w, n + 1)
    BY <1>6, <1>8, <2>1
  <2>3. Step(g, n + 1) = Step(w, n + 1)
    BY <2>1 DEF Step
  <2> QED
    BY <2>1, <2>2, <2>3
<1> HIDE DEF T
<1>11. 0 .. N \subseteq T
  BY <1>1, <1>9, <1>10, UpTo
<1>12. g[N] = w[N]
  BY <1>1, <1>11 DEF T
<1> QED
  BY <1>1, <1>4, <1>7, <1>12 DEF w

---------------------------------------------------------------------------
(* Sorting.                                                                *)

\* No node is twice in the chain.
Distinct(c) == \A i, j \in 1 .. Len(c) : c[i] = c[j] => i = j

\* Its nodes are in the order of their times.
Increasing(h, c) == \A i, j \in 1 .. Len(c) : i <= j => h[c[i]].delta <= h[c[j]].delta

\* What a sequence with another element is, place by place.
LEMMA InsertAtIs ==
  ASSUME NEW S, NEW c \in Seq(S), NEW n \in S, NEW m \in 1 .. Len(c) + 1,
         NEW w, w = InsertAt(c, m, n)
  PROVE  /\ w \in Seq(S) /\ Len(w) = Len(c) + 1
         /\ w[m] = n
         /\ \A i \in 1 .. m - 1 : w[i] = c[i]
         /\ \A i \in m .. Len(c) : w[i + 1] = c[i]
<1>0. PICK k \in 0 .. Len(c) : k + 1 = m /\ k = m - 1
  <2>1. m - 1 \in 0 .. Len(c) /\ m - 1 + 1 = m
    OBVIOUS
  <2> QED
    BY <2>1
<1> DEFINE a == SubSeq(c, 1, k)
           b == SubSeq(c, k + 1, Len(c))
           one == <<n>>
           ae == a \o one
<1>1. Len(c) \in Nat /\ k \in Nat /\ k <= Len(c) /\ k + 1 - 1 = k
  BY <1>0
<1>2. w = ae \o b
  <2>1. w = SubSeq(c, 1, m - 1) \o <<n>> \o SubSeq(c, m, Len(c))
    BY DEF InsertAt
  <2> QED
    BY <1>0, <2>1
<1>3. /\ a \in Seq(S) /\ Len(a) = k /\ \A i \in 1 .. k : a[i] = c[i]
      /\ b \in Seq(S) /\ Len(b) = Len(c) - k /\ \A i \in 1 .. Len(c) - k : b[i] = c[k + i]
      /\ one \in Seq(S) /\ Len(one) = 1 /\ one[1] = n
  BY <1>1
<1> HIDE DEF a, b, one
<1>6. ae \in Seq(S) /\ Len(ae) = k + 1 /\ ae[k + 1] = n /\ \A i \in 1 .. k : ae[i] = a[i]
  <2>1. /\ ae \in Seq(S) /\ Len(ae) = k + 1
        /\ \A i \in 1 .. k + 1 : ae[i] = IF i <= k THEN a[i] ELSE one[i - k]
    <3>1. /\ a \o one \in Seq(S) /\ Len(a \o one) = Len(a) + Len(one)
          /\ \A i \in 1 .. Len(a) + Len(one) : (a \o one)[i] = IF i <= Len(a) THEN a[i] ELSE one[i - Len(a)]
      BY <1>3, ConcatProperties
    <3> QED
      BY <1>3, <3>1
  <2>2. k + 1 \in 1 .. k + 1 /\ k + 1 - k = 1 /\ ~(k + 1 <= k)
    BY <1>1
  <2> QED
    BY <1>1, <1>3, <2>1, <2>2
<1> HIDE DEF ae
<1>4. /\ w \in Seq(S) /\ Len(w) = Len(c) + 1
      /\ w[k + 1] = n /\ \A i \in 1 .. k : w[i] = a[i]
      /\ \A i \in 1 .. Len(c) - k : w[k + 1 + i] = b[i]
  <2>1. /\ w \in Seq(S) /\ Len(w) = k + 1 + (Len(c) - k)
        /\ \A i \in 1 .. k + 1 + (Len(c) - k) : w[i] = IF i <= k + 1 THEN ae[i] ELSE b[i - (k + 1)]
    <3>1. /\ ae \o b \in Seq(S) /\ Len(ae \o b) = Len(ae) + Len(b)
          /\ \A i \in 1 .. Len(ae) + Len(b) : (ae \o b)[i] = IF i <= Len(ae) THEN ae[i] ELSE b[i - Len(ae)]
      <4>1. ae \in Seq(S) /\ b \in Seq(S)
        BY <1>3, <1>6
      <4> QED
        BY <4>1, ConcatProperties
    <3>2. w \in Seq(S) /\ Len(w) = Len(ae) + Len(b)
      BY <1>2, <3>1
    <3>3. \A i \in 1 .. Len(ae) + Len(b) : w[i] = IF i <= Len(ae) THEN ae[i] ELSE b[i - Len(ae)]
      BY <1>2, <3>1
    <3> QED
      BY <1>3, <1>6, <3>2, <3>3
  <2>2. ASSUME NEW i \in 1 .. Len(c) - k PROVE w[k + 1 + i] = b[i]
    <3>1. k + 1 + i \in 1 .. k + 1 + (Len(c) - k) /\ ~(k + 1 + i <= k + 1) /\ k + 1 + i - (k + 1) = i
      BY <1>1
    <3> QED
      BY <2>1, <3>1
  <2>3. k + 1 + (Len(c) - k) = Len(c) + 1
    BY <1>1
  <2>4. ASSUME NEW i \in 1 .. k + 1 PROVE w[i] = ae[i]
    BY <1>1, <2>1, <2>3
  <2> QED
    BY <1>1, <1>6, <2>1, <2>2, <2>3, <2>4
<1>5. ASSUME NEW i \in k + 1 .. Len(c) PROVE w[i + 1] = c[i]
  <2>1. PICK j \in 1 .. Len(c) - k : k + 1 + j = i + 1 /\ k + j = i
    <3>1. i - k \in 1 .. Len(c) - k /\ k + 1 + (i - k) = i + 1 /\ k + (i - k) = i
      BY <1>1
    <3> QED
      BY <3>1
  <2>2. b[j] = c[k + j] /\ w[k + 1 + j] = b[j]
    BY <1>3, <1>4
  <2> QED
    BY <2>1, <2>2
<1> QED
  BY <1>0, <1>3, <1>4, <1>5

\* Where Insert puts a node is a place of the sequence.
LEMMA InsertType ==
  ASSUME NEW h, NEW S, NEW c \in Seq(S), NEW n \in S
  PROVE  Insert(h, c, n) \in Seq(S)
<1> DEFINE before == {i \in DOMAIN c : h[c[i]].delta <= h[n].delta}
<1>1. DOMAIN c = 1 .. Len(c) /\ Len(c) \in Nat
  OBVIOUS
<1>2. IsFiniteSet(1 .. Len(c)) /\ Cardinality(1 .. Len(c)) = Len(c)
  BY <1>1, FS_Interval
<1>3. before \subseteq 1 .. Len(c)
  BY <1>1
<1> HIDE DEF before
<1>4. Cardinality(before) \in 0 .. Len(c)
  <2>1. before \in SUBSET (1 .. Len(c))
    BY <1>3
  <2>2. IsFiniteSet(before) /\ Cardinality(before) <= Len(c)
    BY <1>2, <2>1, FS_Subset
  <2>3. Cardinality(before) \in Nat
    BY <2>2, FS_CardinalityType
  <2> QED
    BY <1>1, <2>2, <2>3
<1> DEFINE k == Cardinality(before)
           m == k + 1
<1>5. InsertAt(c, m, n) \in Seq(S)
  <2>1. m \in 1 .. Len(c) + 1
    BY <1>1, <1>4
  <2> HIDE DEF m
  <2> QED
    BY <2>1, InsertAtIs
<1> QED
  BY <1>5 DEF Insert, before

\* In a sequence that is sorted it is behind what is not later.
LEMMA InsertPlace ==
  ASSUME NEW h, NEW S, NEW c \in Seq(S), NEW n \in S,
         \A x \in S : h[x].delta \in Nat, Increasing(h, c)
  PROVE  \E m \in 1 .. Len(c) + 1 :
           /\ Insert(h, c, n) = InsertAt(c, m, n)
           /\ \A i \in 1 .. m - 1 : h[c[i]].delta <= h[n].delta
           /\ \A i \in m .. Len(c) : h[n].delta <= h[c[i]].delta
<1> DEFINE before == {i \in DOMAIN c : h[c[i]].delta <= h[n].delta}
           T == {i \in 1 .. Len(c) + 1 : i \notin before}
<1>1. DOMAIN c = 1 .. Len(c) /\ Len(c) \in Nat /\ \A i \in 1 .. Len(c) : c[i] \in S
  OBVIOUS
<1>2. Len(c) + 1 \in T /\ T \subseteq Nat
  BY <1>1
<1>3. PICK x \in T : \A y \in T : x <= y
  BY <1>2, LeastOf
<1> DEFINE k == x - 1
<1>4. k \in 0 .. Len(c) /\ k + 1 = x
  BY <1>1, <1>2, <1>3
<1>5. \A i \in 1 .. k : i \in before
  BY <1>1, <1>3, <1>4
<1>6. ASSUME NEW i \in k + 1 .. Len(c) PROVE i \notin before /\ h[n].delta <= h[c[i]].delta
  <2>1. i \in 1 .. Len(c) /\ x \in 1 .. Len(c) /\ x <= i
    BY <1>1, <1>4
  <2>2. ~(h[c[x]].delta <= h[n].delta)
    BY <1>1, <1>3, <2>1
  <2>3. h[c[x]].delta <= h[c[i]].delta
    BY <2>1 DEF Increasing
  <2>4. h[c[x]].delta \in Nat /\ h[c[i]].delta \in Nat /\ h[n].delta \in Nat
    BY <1>1, <2>1
  <2> QED
    BY <2>2, <2>3, <2>4
<1>7. before = 1 .. k
  <2>1. \A i \in before : i \in 1 .. Len(c)
    BY <1>1
  <2>2. ASSUME NEW i \in before PROVE i \in 1 .. k
    <3>1. i \in 1 .. Len(c) /\ i \notin k + 1 .. Len(c)
      BY <1>6, <2>1
    <3> QED
      BY <1>1, <1>4, <3>1
  <2> QED
    BY <1>5, <2>2
<1>8. Cardinality(before) = k
  <2>1. k \in Int /\ 1 \in Int /\ k >= 0
    BY <1>1, <1>4
  <2>2. Cardinality(1 .. k) = IF 1 > k THEN 0 ELSE k - 1 + 1
    BY <2>1, FS_Interval
  <2> HIDE DEF k
  <2>3. (IF 1 > k THEN 0 ELSE k - 1 + 1) = k
    BY <2>1
  <2> QED
    BY <1>7, <2>2, <2>3
<1>9. x \in 1 .. Len(c) + 1 /\ Insert(h, c, n) = InsertAt(c, x, n)
  BY <1>4, <1>8 DEF Insert
<1>10. \A i \in 1 .. k : h[c[i]].delta <= h[n].delta
  BY <1>5
<1>11. k = x - 1
  OBVIOUS
<1> HIDE DEF k, before, T
<1> QED
  BY <1>4, <1>6, <1>9, <1>10, <1>11

\* Insert keeps a sequence sorted and adds one node to it.
LEMMA InsertKeeps ==
  ASSUME NEW h, NEW S, NEW c \in Seq(S), NEW n \in S,
         \A x \in S : h[x].delta \in Nat, Increasing(h, c), Distinct(c), n \notin ToSet(c),
         NEW w, w = Insert(h, c, n)
  PROVE  /\ w \in Seq(S) /\ Len(w) = Len(c) + 1 /\ Increasing(h, w) /\ Distinct(w)
         /\ ToSet(w) = ToSet(c) \union {n}
<1>0. PICK m \in 1 .. Len(c) + 1 :
           /\ w = InsertAt(c, m, n)
           /\ \A i \in 1 .. m - 1 : h[c[i]].delta <= h[n].delta
           /\ \A i \in m .. Len(c) : h[n].delta <= h[c[i]].delta
  BY InsertPlace
<1> DEFINE k == m - 1
<1>1. /\ k \in 0 .. Len(c) /\ k + 1 = m
      /\ \A i \in 1 .. k : h[c[i]].delta <= h[n].delta
      /\ \A i \in k + 1 .. Len(c) : h[n].delta <= h[c[i]].delta
  BY <1>0
<1>2. /\ w \in Seq(S) /\ Len(w) = Len(c) + 1 /\ w[k + 1] = n
      /\ \A i \in 1 .. k : w[i] = c[i]
      /\ \A i \in k + 1 .. Len(c) : w[i + 1] = c[i]
  <2>1. /\ w \in Seq(S) /\ Len(w) = Len(c) + 1 /\ w[m] = n
        /\ \A i \in 1 .. m - 1 : w[i] = c[i]
        /\ \A i \in m .. Len(c) : w[i + 1] = c[i]
    BY <1>0, InsertAtIs
  <2> QED
    BY <1>1, <2>1
<1> HIDE DEF k
<1>3. DOMAIN c = 1 .. Len(c) /\ Len(c) \in Nat /\ k \in Nat /\ k <= Len(c) /\ DOMAIN w = 1 .. Len(c) + 1
  BY <1>1, <1>2
<1>4. \A i \in k + 2 .. Len(c) + 1 : i - 1 \in k + 1 .. Len(c) /\ w[i] = c[i - 1]
  BY <1>2, <1>3
<1>5. \A i \in 1 .. Len(c) + 1 : i \in 1 .. k \/ i = k + 1 \/ i \in k + 2 .. Len(c) + 1
  BY <1>3
<1>6. \A i \in 1 .. Len(c) : c[i] # n /\ c[i] \in S
  BY <1>3 DEF ToSet
<1>7. Distinct(w)
  <2> SUFFICES ASSUME NEW i \in 1 .. Len(c) + 1, NEW j \in 1 .. Len(c) + 1, w[i] = w[j], i # j PROVE FALSE
    BY <1>2 DEF Distinct
  <2> DEFINE at(x) == IF x <= k THEN x ELSE x - 1
  <2>1. \A x \in 1 .. Len(c) + 1 : x # k + 1 => at(x) \in 1 .. Len(c) /\ w[x] = c[at(x)]
    <3> TAKE x \in 1 .. Len(c) + 1
    <3> HAVE x # k + 1
    <3>1. CASE x \in 1 .. k
      BY <1>2, <1>3, <3>1
    <3>2. CASE x \in k + 2 .. Len(c) + 1
      <4>1. at(x) = x - 1 /\ x - 1 \in 1 .. Len(c)
        BY <1>3, <3>2
      <4> QED
        BY <1>4, <3>2, <4>1
    <3> HIDE DEF at
    <3> QED
      BY <1>5, <3>1, <3>2
  <2> HIDE DEF at
  <2>2. i # k + 1 /\ j # k + 1
    <3>1. \A x \in 1 .. Len(c) + 1 : x # k + 1 => w[x] # w[k + 1]
      BY <1>2, <1>6, <2>1
    <3> QED
      BY <3>1
  <2>3. at(i) = at(j)
    BY <2>1, <2>2 DEF Distinct
  <2> QED
    BY <1>3, <2>2, <2>3 DEF at
<1>8. Increasing(h, w)
  <2> DEFINE d(i) == h[w[i]].delta
  <2>0. \A i \in 1 .. Len(c) + 1 : d(i) \in Nat
    BY <1>2
  <2> SUFFICES ASSUME NEW i \in 1 .. Len(c) + 1, NEW j \in 1 .. Len(c) + 1, i < j PROVE d(i) <= d(j)
    BY <1>2, <2>0 DEF Increasing
  <2>1. CASE i \in 1 .. k /\ j \in 1 .. k
    <3>1. w[i] = c[i] /\ w[j] = c[j] /\ i \in 1 .. Len(c) /\ j \in 1 .. Len(c) /\ i <= j
      BY <1>2, <1>3, <2>1
    <3> QED
      BY <3>1 DEF Increasing
  <2>2. CASE i \in 1 .. k /\ j = k + 1
    BY <1>1, <1>2, <2>2
  <2>3. CASE i \in 1 .. k /\ j \in k + 2 .. Len(c) + 1
    <3>1. w[i] = c[i] /\ w[j] = c[j - 1] /\ i \in 1 .. Len(c) /\ j - 1 \in 1 .. Len(c) /\ i <= j - 1
      BY <1>2, <1>3, <1>4, <2>3
    <3> QED
      BY <3>1 DEF Increasing
  <2>4. CASE i = k + 1 /\ j \in k + 2 .. Len(c) + 1
    BY <1>1, <1>2, <1>4, <2>4
  <2>5. CASE i \in k + 2 .. Len(c) + 1 /\ j \in k + 2 .. Len(c) + 1
    <3>1. w[i] = c[i - 1] /\ w[j] = c[j - 1] /\ i - 1 \in 1 .. Len(c) /\ j - 1 \in 1 .. Len(c) /\ i - 1 <= j - 1
      BY <1>3, <1>4, <2>5
    <3> QED
      BY <3>1 DEF Increasing
  <2> QED
    BY <1>3, <1>5, <2>1, <2>2, <2>3, <2>4, <2>5
<1>9. ToSet(w) = ToSet(c) \union {n}
  <2>1. ASSUME NEW i \in 1 .. Len(c) + 1 PROVE w[i] \in ToSet(c) \union {n}
    <3>1. w[i] = n \/ \E j \in 1 .. Len(c) : w[i] = c[j]
      <4>1. CASE i \in 1 .. k
        BY <1>2, <1>3, <4>1
      <4>2. CASE i = k + 1
        BY <1>2, <4>2
      <4>3. CASE i \in k + 2 .. Len(c) + 1
        <5>1. i - 1 \in 1 .. Len(c)
          BY <1>3, <4>3
        <5> QED
          BY <1>4, <4>3, <5>1
      <4> QED
        BY <1>5, <4>1, <4>2, <4>3
    <3> QED
      BY <1>3, <3>1 DEF ToSet
  <2>2. ASSUME NEW i \in 1 .. Len(c) PROVE c[i] \in ToSet(w)
    <3>1. i \in 1 .. k \/ i \in k + 1 .. Len(c)
      BY <1>3
    <3>2. \E j \in 1 .. Len(c) + 1 : w[j] = c[i]
      BY <1>2, <1>3, <3>1
    <3> QED
      BY <1>3, <3>2 DEF ToSet
  <2>3. n \in ToSet(w)
    BY <1>2, <1>3 DEF ToSet
  <2> QED
    BY <1>3, <2>1, <2>2, <2>3 DEF ToSet
<1> QED
  BY <1>2, <1>7, <1>8, <1>9

\* Sorting keeps the nodes of a chain and puts them in order.
LEMMA SortedIs ==
  ASSUME NEW h, NEW S, NEW c \in Seq(S), \A x \in S : h[x].delta \in Nat, Distinct(c),
         NEW w, w = Sorted(h, c)
  PROVE  /\ w \in Seq(S) /\ Len(w) = Len(c) /\ ToSet(w) = ToSet(c)
         /\ Distinct(w) /\ Increasing(h, w)
<1> DEFINE N == Len(c)
           Step(f, i) == IF i = 0 THEN <<>> ELSE Insert(h, f[i - 1], c[i])
           g == CHOOSE f : f = [i \in 0 .. N |-> Step(f, i)]
           F == [k \in 1 .. N |-> [v \in Seq(S) |-> Insert(h, v, c[k])]]
           b == <<>>
<1>1. N \in Nat /\ \A i \in 1 .. N : c[i] \in S
  OBVIOUS
<1> HIDE DEF N
<1>2. F \in [1 .. N -> [Seq(S) -> Seq(S)]]
  <2>1. \A k \in 1 .. N : \A v \in Seq(S) : Insert(h, v, c[k]) \in Seq(S)
    BY <1>1, InsertType
  <2> QED
    BY <2>1
<1>3. \A k \in 1 .. N : \A v \in Seq(S) : F[k][v] = Insert(h, v, c[k])
  OBVIOUS
<1> HIDE DEF F
<1>4. PICK f : f \in [0 .. N -> Seq(S)] /\ f[0] = <<>> /\ \A k \in 1 .. N : f[k] = F[k][f[k - 1]]
  <2>1. b \in Seq(S)
    OBVIOUS
  <2> HIDE DEF b
  <2>2. \E f : IsRun(f, Seq(S), b, N, F)
    BY <1>1, <1>2, <2>1, RunExists
  <2> QED
    BY <2>2 DEF b, IsRun
<1>5. \A k \in 1 .. N : f[k] = Insert(h, f[k - 1], c[k])
  <2> TAKE k \in 1 .. N
  <2>1. k - 1 \in 0 .. N
    BY <1>1
  <2>2. f[k - 1] \in Seq(S)
    BY <1>4, <2>1
  <2> QED
    BY <1>3, <1>4, <2>2
<1>6. f = [i \in 0 .. N |-> Step(f, i)]
  <2>1. \A i \in 0 .. N : i # 0 => i \in 1 .. N
    BY <1>1
  <2>2. \A i \in 0 .. N : f[i] = Step(f, i)
    BY <1>4, <1>5, <2>1
  <2> HIDE DEF Step
  <2> QED
    BY <1>4, <2>2
<1>7. w = g[N]
  BY DEF Sorted, N
<1> HIDE DEF Step
<1>8. g = [i \in 0 .. N |-> Step(g, i)]
  BY <1>6, Zenon
<1> HIDE DEF g
<1> DEFINE Good(k) == /\ g[k] \in Seq(S) /\ Len(g[k]) = k /\ Distinct(g[k]) /\ Increasing(h, g[k])
                      /\ ToSet(g[k]) = {c[i] : i \in 1 .. k}
           T == {k \in 0 .. N : Good(k)}
<1>9. 0 \in T
  <2>1. g[0] = <<>> /\ 0 \in 0 .. N
    BY <1>1, <1>8 DEF Step
  <2>2. Good(0)
    BY <2>1 DEF Distinct, Increasing, ToSet
  <2> QED
    BY <2>1, <2>2
<1>10. ASSUME NEW k \in 0 .. N - 1, k \in T PROVE k + 1 \in T
  <2> HIDE DEF Good
  <2>0. Good(k)
    BY <1>10
  <2> HIDE DEF T
  <2>a. k + 1 \in 1 .. N /\ k + 1 \in 0 .. N /\ k + 1 # 0 /\ k + 1 - 1 = k /\ k \in Nat
    BY <1>1
  <2>1. /\ k + 1 \in 1 .. N /\ k + 1 \in 0 .. N /\ k + 1 # 0 /\ k + 1 - 1 = k /\ k \in Nat
        /\ g[k] \in Seq(S) /\ Len(g[k]) = k /\ Distinct(g[k]) /\ Increasing(h, g[k])
        /\ ToSet(g[k]) = {c[i] : i \in 1 .. k}
    BY <2>0, <2>a DEF Good
  <2>2. g[k + 1] = Insert(h, g[k], c[k + 1])
    <3>1. g[k + 1] = Step(g, k + 1)
      BY <1>8, <2>a
    <3> QED
      BY <2>a, <3>1 DEF Step
  <2>3. c[k + 1] \in S
    BY <1>1, <2>1
  <2>4. c[k + 1] \notin ToSet(g[k])
    <3>1. ASSUME NEW i \in 1 .. k PROVE c[i] # c[k + 1]
      <4>1. i \in 1 .. N /\ i # k + 1
        BY <1>1, <2>1
      <4> QED
        BY <2>1, <4>1 DEF Distinct, N
    <3> QED
      BY <2>1, <3>1
  <2>5. /\ g[k + 1] \in Seq(S) /\ Len(g[k + 1]) = Len(g[k]) + 1
        /\ Increasing(h, g[k + 1]) /\ Distinct(g[k + 1])
        /\ ToSet(g[k + 1]) = ToSet(g[k]) \union {c[k + 1]}
    <3> DEFINE x == g[k]
               y == c[k + 1]
               z == g[k + 1]
    <3>1. x \in Seq(S) /\ y \in S /\ z = Insert(h, x, y) /\ Distinct(x) /\ Increasing(h, x) /\ y \notin ToSet(x)
      BY <2>1, <2>2, <2>3, <2>4
    <3> HIDE DEF x, y, z
    <3>2. /\ z \in Seq(S) /\ Len(z) = Len(x) + 1 /\ Increasing(h, z) /\ Distinct(z)
          /\ ToSet(z) = ToSet(x) \union {y}
      BY <3>1, InsertKeeps
    <3> QED
      BY <3>2 DEF x, y, z
  <2>6. {c[i] : i \in 1 .. k} \union {c[k + 1]} = {c[i] : i \in 1 .. k + 1}
    <3>1. 1 .. k + 1 = (1 .. k) \union {k + 1}
      BY <2>1
    <3> QED
      BY <3>1
  <2>7. Good(k + 1)
    BY <2>1, <2>5, <2>6 DEF Good
  <2> QED
    BY <2>1, <2>7 DEF T
<1> HIDE DEF T, Good
<1>11. N \in T
  <2>1. 0 .. N \subseteq T
    BY <1>1, <1>9, <1>10, UpTo
  <2> QED
    BY <1>1, <2>1
<1>12. Good(N)
  BY <1>11 DEF T
<1>13. ToSet(c) = {c[i] : i \in 1 .. N}
  BY DEF ToSet, N
<1> QED
  BY <1>7, <1>12, <1>13 DEF N, Good

---------------------------------------------------------------------------
(* Links and differences.                                                  *)

\* A node has the place in a chain at which it is found.
LEMMA PlaceIs ==
  ASSUME NEW c, DOMAIN c = 1 .. Len(c), Distinct(c), NEW i \in 1 .. Len(c)
  PROVE  Place(c, c[i]) = i
<1>1. \A j \in DOMAIN c : c[j] = c[i] => j = i
  BY DEF Distinct
<1> QED
  BY <1>1 DEF Place

\* Two heaps that differ in links alone, and in differences alone.
SameBut(h, g) ==
  /\ DOMAIN g = DOMAIN h
  /\ \A n \in DOMAIN h : g[n].nargs = h[n].nargs /\ g[n].func = h[n].func /\ g[n].when = h[n].when

\* What the fields of a node may hold.
NodeRecords ==
  [delta : Nat, next : Nat \union {Unset}, nargs : {Nil, Unset},
   func : DOMAIN Body \union {"none"}, when : Nat]

\* What the nodes of a heap are.
LEMMA HeapIs ==
  ASSUME NEW h \in Seq(NodeRecords)
  PROVE  /\ DOMAIN h = 1 .. Len(h) /\ Len(h) \in Nat
         /\ \A x \in DOMAIN h : /\ h[x] \in NodeRecords
                              /\ h[x].delta \in Nat /\ h[x].when \in Nat
                              /\ h[x].next \in Nat \union {Unset}
                              /\ h[x].nargs \in {Nil, Unset}
                              /\ h[x].func \in DOMAIN Body \union {"none"}
<1>1. DOMAIN h = 1 .. Len(h) /\ Len(h) \in Nat /\ \A x \in DOMAIN h : h[x] \in NodeRecords
  OBVIOUS
<1>2. \A r \in NodeRecords : /\ r.delta \in Nat /\ r.when \in Nat
                             /\ r.next \in Nat \union {Unset}
                             /\ r.nargs \in {Nil, Unset}
                             /\ r.func \in DOMAIN Body \union {"none"}
  BY DEF NodeRecords
<1> QED
  BY <1>1, <1>2

\* Linking makes a chain of nodes and leaves the other nodes alone.
LEMMA LinkedIs ==
  ASSUME NEW h \in Seq(NodeRecords), NEW c \in Seq(DOMAIN h), Distinct(c),
         NEW end \in Nat \union {Unset}, NEW g, g = Linked(h, c, end)
  PROVE  /\ g \in Seq(NodeRecords) /\ SameBut(h, g) /\ Len(g) = Len(h)
         /\ \A n \in DOMAIN h : g[n].delta = h[n].delta
         /\ \A n \in DOMAIN h : n \notin ToSet(c) => g[n] = h[n]
         /\ \A i \in 1 .. Len(c) - 1 : g[c[i]].next = c[i + 1]
         /\ \A i \in 1 .. Len(c) : g[c[i]].next \in ToSet(c) \union {end}
<1>1. /\ DOMAIN h = 1 .. Len(h) /\ Len(h) \in Nat
      /\ DOMAIN c = 1 .. Len(c) /\ Len(c) \in Nat /\ \A i \in 1 .. Len(c) : c[i] \in 1 .. Len(h)
      /\ \A n \in 1 .. Len(h) : h[n] \in NodeRecords
  OBVIOUS
<1>0. Len(c) \in Nat
  OBVIOUS
<1> DEFINE Link(i) == IF i = Len(c) THEN end ELSE c[i + 1]
<1>2. /\ DOMAIN g = 1 .. Len(h)
      /\ \A n \in 1 .. Len(h) : n \notin ToSet(c) => g[n] = h[n]
  BY <1>1 DEF Linked
<1>3. \A i \in 1 .. Len(c) : c[i] \in ToSet(c) /\ Place(c, c[i]) = i
  BY <1>1, PlaceIs DEF ToSet
<1>4. \A i \in 1 .. Len(c) : g[c[i]] = [h[c[i]] EXCEPT !.next = Link(i)]
  <2> TAKE i \in 1 .. Len(c)
  <2>1. c[i] \in DOMAIN h /\ c[i] \in ToSet(c) /\ Place(c, c[i]) = i
    BY <1>1, <1>3
  <2>2. g[c[i]] = [h[c[i]] EXCEPT !.next = Link(Place(c, c[i]))]
    BY <2>1 DEF Linked
  <2> QED
    BY <2>1, <2>2
<1>5. \A i \in 1 .. Len(c) : Link(i) \in ToSet(c) \union {end} /\ Link(i) \in Nat \union {Unset}
  <2> TAKE i \in 1 .. Len(c)
  <2>1. CASE i = Len(c)
    BY <2>1
  <2>2. CASE i # Len(c)
    <3>1. i + 1 \in 1 .. Len(c)
      BY <1>0, <2>2
    <3>2. c[i + 1] \in ToSet(c) /\ c[i + 1] \in Nat
      BY <1>1, <1>3, <3>1
    <3> QED
      BY <2>2, <3>2
  <2> QED
    BY <2>1, <2>2
<1>6. \A n \in 1 .. Len(h) : n \notin ToSet(c) \/ \E i \in 1 .. Len(c) : n = c[i]
  BY <1>1 DEF ToSet
<1>7. \A i \in 1 .. Len(c) - 1 : i \in 1 .. Len(c) /\ Link(i) = c[i + 1]
  <2> TAKE i \in 1 .. Len(c) - 1
  <2>1. i \in 1 .. Len(c) /\ i # Len(c)
    BY <1>0
  <2> QED
    BY <2>1
<1> HIDE DEF Link
<1>8. ASSUME NEW n \in 1 .. Len(h)
      PROVE  /\ g[n] \in NodeRecords
             /\ g[n].nargs = h[n].nargs /\ g[n].func = h[n].func /\ g[n].when = h[n].when
             /\ g[n].delta = h[n].delta
  <2>1. CASE n \notin ToSet(c)
    BY <1>1, <1>2, <2>1
  <2>2. ASSUME NEW i \in 1 .. Len(c), n = c[i]
        PROVE  /\ g[n] \in NodeRecords
               /\ g[n].nargs = h[n].nargs /\ g[n].func = h[n].func /\ g[n].when = h[n].when
               /\ g[n].delta = h[n].delta
    <3>1. g[n] = [h[n] EXCEPT !.next = Link(i)] /\ h[n] \in NodeRecords /\ Link(i) \in Nat \union {Unset}
      BY <1>1, <1>4, <1>5, <2>2
    <3> QED
      BY <3>1 DEF NodeRecords
  <2> QED
    BY <1>6, <2>1, <2>2
<1>9. g \in Seq(NodeRecords) /\ Len(g) = Len(h)
  <2>1. g = [n \in 1 .. Len(h) |-> g[n]]
    BY <1>1 DEF Linked
  <2>2. g \in [1 .. Len(h) -> NodeRecords]
    BY <1>8, <2>1
  <2> QED
    BY <1>1, <2>2
<1>10. \A i \in 1 .. Len(c) : g[c[i]].next = Link(i)
  <2> TAKE i \in 1 .. Len(c)
  <2>1. g[c[i]] = [h[c[i]] EXCEPT !.next = Link(i)] /\ h[c[i]] \in NodeRecords
    BY <1>1, <1>4
  <2> QED
    BY ONLY <2>1 DEF NodeRecords
<1> QED
  BY <1>1, <1>2, <1>5, <1>7, <1>8, <1>9, <1>10 DEF SameBut

\* Times that do not go back.
Timely(c, t) ==
  /\ \A i \in 1 .. Len(c) : t[i] \in Nat
  /\ \A i \in 1 .. Len(c) - 1 : t[i] <= t[i + 1]

\* The difference between a time and the one before it.
Since(t, i) == t[i] - (IF i = 1 THEN 0 ELSE t[i - 1])

\* Differences changes the deltas of a chain and leaves the links alone.
LEMMA DifferencesIs ==
  ASSUME NEW h \in Seq(NodeRecords), NEW c \in Seq(DOMAIN h), Distinct(c),
         NEW time, Timely(c, time), NEW g, g = Differences(h, c, time)
  PROVE  /\ g \in Seq(NodeRecords) /\ SameBut(h, g) /\ Len(g) = Len(h)
         /\ \A n \in DOMAIN h : g[n].next = h[n].next
         /\ \A n \in DOMAIN h : n \notin ToSet(c) => g[n] = h[n]
         /\ \A i \in 1 .. Len(c) : g[c[i]].delta = Since(time, i)
<1>1. /\ DOMAIN h = 1 .. Len(h) /\ Len(h) \in Nat
      /\ DOMAIN c = 1 .. Len(c) /\ Len(c) \in Nat /\ \A i \in 1 .. Len(c) : c[i] \in 1 .. Len(h)
      /\ \A n \in 1 .. Len(h) : h[n] \in NodeRecords
  OBVIOUS
<1>0. Len(c) \in Nat
  OBVIOUS
<1>2. /\ DOMAIN g = 1 .. Len(h)
      /\ \A n \in 1 .. Len(h) : n \notin ToSet(c) => g[n] = h[n]
  BY <1>1 DEF Differences
<1>3. \A i \in 1 .. Len(c) : c[i] \in ToSet(c) /\ Place(c, c[i]) = i
  BY <1>1, PlaceIs DEF ToSet
<1>4. \A i \in 1 .. Len(c) : g[c[i]] = [h[c[i]] EXCEPT !.delta = Since(time, i)]
  <2> TAKE i \in 1 .. Len(c)
  <2>1. c[i] \in DOMAIN h /\ c[i] \in ToSet(c) /\ Place(c, c[i]) = i
    BY <1>1, <1>3
  <2>2. g[c[i]] = [h[c[i]] EXCEPT !.delta = Since(time, Place(c, c[i]))]
    BY <2>1 DEF Differences, Since
  <2> QED
    BY <2>1, <2>2
<1>5. \A i \in 1 .. Len(c) : Since(time, i) \in Nat
  <2> TAKE i \in 1 .. Len(c)
  <2>1. CASE i = 1
    BY <2>1 DEF Since, Timely
  <2>2. CASE i # 1
    <3>1. i - 1 \in 1 .. Len(c) - 1 /\ i - 1 \in 1 .. Len(c) /\ i - 1 + 1 = i
      BY <1>0, <2>2
    <3>2. time[i - 1] <= time[i] /\ time[i - 1] \in Nat /\ time[i] \in Nat
      BY <3>1 DEF Timely
    <3> QED
      BY <2>2, <3>2 DEF Since
  <2> QED
    BY <2>1, <2>2
<1>6. \A n \in 1 .. Len(h) : n \notin ToSet(c) \/ \E i \in 1 .. Len(c) : n = c[i]
  BY <1>1 DEF ToSet
<1>8. ASSUME NEW n \in 1 .. Len(h)
      PROVE  /\ g[n] \in NodeRecords
             /\ g[n].nargs = h[n].nargs /\ g[n].func = h[n].func /\ g[n].when = h[n].when
             /\ g[n].next = h[n].next
  <2>1. CASE n \notin ToSet(c)
    BY <1>1, <1>2, <2>1
  <2>2. ASSUME NEW i \in 1 .. Len(c), n = c[i]
        PROVE  /\ g[n] \in NodeRecords
               /\ g[n].nargs = h[n].nargs /\ g[n].func = h[n].func /\ g[n].when = h[n].when
               /\ g[n].next = h[n].next
    <3>1. g[n] = [h[n] EXCEPT !.delta = Since(time, i)] /\ h[n] \in NodeRecords /\ Since(time, i) \in Nat
      BY <1>1, <1>4, <1>5, <2>2
    <3> QED
      BY <3>1 DEF NodeRecords
  <2> QED
    BY <1>6, <2>1, <2>2
<1>9. g \in Seq(NodeRecords) /\ Len(g) = Len(h)
  <2>1. g = [n \in 1 .. Len(h) |-> g[n]]
    BY <1>1 DEF Differences
  <2>2. g \in [1 .. Len(h) -> NodeRecords]
    BY <1>8, <2>1
  <2> QED
    BY <1>1, <2>2
<1>10. \A i \in 1 .. Len(c) : g[c[i]].delta = Since(time, i)
  <2> TAKE i \in 1 .. Len(c)
  <2>1. g[c[i]] = [h[c[i]] EXCEPT !.delta = Since(time, i)] /\ h[c[i]] \in NodeRecords
    BY <1>1, <1>4
  <2> QED
    BY ONLY <2>1 DEF NodeRecords
<1> QED
  BY <1>1, <1>2, <1>8, <1>9, <1>10 DEF SameBut

\* The times of a chain are the sums of its deltas.
LEMMA TimesAre ==
  ASSUME NEW h, NEW S, NEW c \in Seq(S), \A x \in S : h[x].delta \in Nat,
         NEW t, t = Times(h, c)
  PROVE  /\ Timely(c, t)
         /\ \A i \in 1 .. Len(c) : t[i] = (IF i = 1 THEN 0 ELSE t[i - 1]) + h[c[i]].delta
<1> DEFINE N == Len(c)
           Step(f, i) == IF i = 0 THEN 0 ELSE f[i - 1] + h[c[i]].delta
           g == CHOOSE f : f = [i \in 0 .. N |-> Step(f, i)]
           F == [k \in 1 .. N |-> [v \in Nat |-> v + h[c[k]].delta]]
<1>0. N \in Nat
  OBVIOUS
<1>1. \A i \in 1 .. N : h[c[i]].delta \in Nat
  OBVIOUS
<1>2. DOMAIN c = 1 .. N /\ Len(c) = N
  OBVIOUS
<1> HIDE DEF N
<1>3. F \in [1 .. N -> [Nat -> Nat]]
  BY <1>1
<1>4. \A k \in 1 .. N : \A v \in Nat : F[k][v] = v + h[c[k]].delta
  OBVIOUS
<1> HIDE DEF F
<1>5. PICK f : f \in [0 .. N -> Nat] /\ f[0] = 0 /\ \A k \in 1 .. N : f[k] = F[k][f[k - 1]]
  <2>1. \E f : IsRun(f, Nat, 0, N, F)
    BY <1>0, <1>3, RunExists
  <2> QED
    BY <2>1 DEF IsRun
<1>6. f = [i \in 0 .. N |-> Step(f, i)]
  <2>1. ASSUME NEW i \in 0 .. N PROVE f[i] = Step(f, i)
    <3>1. CASE i = 0
      BY <1>5, <3>1
    <3>2. CASE i # 0
      <4>1. i \in 1 .. N /\ i - 1 \in 0 .. N
        BY <1>0, <3>2
      <4>2. f[i] = F[i][f[i - 1]] /\ f[i - 1] \in Nat
        BY <1>5, <4>1
      <4> QED
        BY <1>4, <3>2, <4>1, <4>2
    <3> QED
      BY <3>1, <3>2
  <2> HIDE DEF Step
  <2> QED
    BY <1>5, <2>1
<1>7. t = [i \in DOMAIN c |-> g[i]]
  BY DEF Times, N
<1> HIDE DEF Step
<1>8. g = [i \in 0 .. N |-> Step(g, i)]
  BY <1>6, Zenon
<1> HIDE DEF g
<1> DEFINE T == {i \in 0 .. N : g[i] \in Nat}
<1>9. 0 \in T
  <2>1. 0 \in 0 .. N
    BY <1>0
  <2> QED
    BY <1>8, <2>1 DEF Step
<1>10. ASSUME NEW i \in 0 .. N - 1, i \in T PROVE i + 1 \in T
  <2>1. i + 1 \in 1 .. N /\ i + 1 \in 0 .. N /\ i + 1 # 0 /\ i + 1 - 1 = i
    BY <1>0
  <2>2. g[i + 1] = g[i] + h[c[i + 1]].delta /\ g[i] \in Nat
    <3>1. g[i + 1] = Step(g, i + 1) /\ g[i] \in Nat
      BY <1>8, <1>10, <2>1
    <3> QED
      BY <2>1, <3>1 DEF Step
  <2>3. h[c[i + 1]].delta \in Nat
    BY <1>1, <2>1
  <2> QED
    BY <2>1, <2>2, <2>3
<1>11. \A i \in 0 .. N : g[i] \in Nat
  <2> HIDE DEF T
  <2>1. 0 .. N \subseteq T
    BY <1>0, <1>9, <1>10, UpTo
  <2> QED
    BY <2>1 DEF T
<1>12. g[0] = 0
  <2>1. 0 \in 0 .. N
    BY <1>0
  <2> QED
    BY <1>8, <2>1 DEF Step
<1>13. ASSUME NEW i \in 1 .. N
       PROVE  t[i] = (IF i = 1 THEN 0 ELSE t[i - 1]) + h[c[i]].delta /\ t[i] \in Nat
  <2>1. i \in 0 .. N /\ i # 0 /\ i - 1 \in 0 .. N /\ (i # 1 => i - 1 \in 1 .. N)
    BY <1>0
  <2>2. g[i] = g[i - 1] + h[c[i]].delta
    <3>1. g[i] = Step(g, i)
      BY <1>8, <2>1
    <3> QED
      BY <2>1, <3>1 DEF Step
  <2>3. t[i] = g[i] /\ (i # 1 => t[i - 1] = g[i - 1])
    BY <1>2, <1>7, <2>1
  <2> QED
    BY <1>11, <1>12, <2>1, <2>2, <2>3
<1>14. ASSUME NEW i \in 1 .. N - 1 PROVE t[i] <= t[i + 1]
  <2>1. i + 1 \in 1 .. N /\ i \in 1 .. N /\ i + 1 # 1 /\ i + 1 - 1 = i
    BY <1>0
  <2>2. t[i + 1] = t[i] + h[c[i + 1]].delta
    BY <1>13, <2>1
  <2>3. t[i] \in Nat /\ h[c[i + 1]].delta \in Nat
    BY <1>1, <1>13, <2>1
  <2> QED
    BY <2>2, <2>3
<1> QED
  BY <1>2, <1>13, <1>14 DEF Timely

---------------------------------------------------------------------------
(* Merging.                                                                *)

\* What a merge puts out.
Taken == [node : Nat, time : Nat]

\* A node of a chain, with its time.
Entry(c, t, i) == [node |-> c[i], time |-> t[i]]

\* Two chains with their times, which have no node in common.
Mergeable(c1, t1, c2, t2) ==
  /\ c1 \in Seq(Nat) /\ c2 \in Seq(Nat)
  /\ Timely(c1, t1) /\ Timely(c2, t2)
  /\ Distinct(c1) /\ Distinct(c2)
  /\ \A i \in 1 .. Len(c1) : \A j \in 1 .. Len(c2) : c1[i] # c2[j]

\* What the loop has made after k rounds: every node it took, once, with its
\* time, in the order of the times; and no node it left is earlier.
Merging(m, k, c1, t1, c2, t2) ==
  /\ m \in [i : 0 .. Len(c1), j : 0 .. Len(c2), out : Seq(Taken)]
  /\ m.i + m.j = k /\ Len(m.out) = k
  /\ \A a \in 1 .. k : \/ \E x \in 1 .. m.i : m.out[a] = Entry(c1, t1, x)
                       \/ \E x \in 1 .. m.j : m.out[a] = Entry(c2, t2, x)
  /\ \A x \in 1 .. m.i : \E a \in 1 .. k : m.out[a].node = c1[x]
  /\ \A x \in 1 .. m.j : \E a \in 1 .. k : m.out[a].node = c2[x]
  /\ \A a, b \in 1 .. k : m.out[a].node = m.out[b].node => a = b
  /\ \A a \in 1 .. k - 1 : m.out[a].time <= m.out[a + 1].time
  /\ k > 0 /\ m.i < Len(c1) => m.out[k].time <= t1[m.i + 1]
  /\ k > 0 /\ m.j < Len(c2) => m.out[k].time <= t2[m.j + 1]

\* A round takes the first node of c1 that is left.
LEMMA RoundFirst ==
  ASSUME NEW c1, NEW t1, NEW c2, NEW t2, Mergeable(c1, t1, c2, t2), NEW k \in Nat,
         NEW m, Merging(m, k, c1, t1, c2, t2),
         m.i < Len(c1), m.j = Len(c2) \/ t1[m.i + 1] <= t2[m.j + 1]
  PROVE  Merging(Round(m, c1, t1, c2, t2), k + 1, c1, t1, c2, t2)
<1> DEFINE e == Entry(c1, t1, m.i + 1)
           w == Append(m.out, e)
           n == [i |-> m.i + 1, j |-> m.j, out |-> w]
<1>1. /\ m \in [i : 0 .. Len(c1), j : 0 .. Len(c2), out : Seq(Taken)]
      /\ m.i + m.j = k /\ Len(m.out) = k
  BY DEF Merging
<1>2. Len(c1) \in Nat /\ Len(c2) \in Nat
  BY DEF Mergeable
<1>3. /\ m.i \in Nat /\ m.j \in Nat /\ m.i + 1 \in 1 .. Len(c1) /\ m.j \in 0 .. Len(c2)
      /\ m.i + 1 \in 0 .. Len(c1) /\ m.out \in Seq(Taken)
  BY <1>1, <1>2
<1>4. Round(m, c1, t1, c2, t2) = n
  BY DEF Round, Entry
<1>5. c1[m.i + 1] \in Nat /\ t1[m.i + 1] \in Nat
  <2>1. \A x \in 1 .. Len(c1) : c1[x] \in Nat /\ t1[x] \in Nat
    BY DEF Mergeable, Timely
  <2> QED
    BY <1>3, <2>1
<1>6. e \in Taken /\ e.node = c1[m.i + 1] /\ e.time = t1[m.i + 1]
  BY <1>5 DEF Taken, Entry
<1> HIDE DEF e
<1>7. /\ w \in Seq(Taken) /\ Len(w) = k + 1 /\ w[k + 1] = e
      /\ \A a \in 1 .. k : w[a] = m.out[a]
  BY <1>1, <1>3, <1>6
<1> HIDE DEF w
<1>8. \A a \in 1 .. k + 1 : a \in 1 .. k \/ a = k + 1
  OBVIOUS
<1>9. \A a \in 1 .. k : w[a].node # e.node
  <2> TAKE a \in 1 .. k
  <2>1. ASSUME NEW x \in 1 .. m.i, m.out[a] = Entry(c1, t1, x) PROVE w[a].node # e.node
    <3>0. x \in 1 .. Len(c1) /\ x # m.i + 1
      BY <1>2, <1>3
    <3>1. w[a].node = c1[x] /\ x \in 1 .. Len(c1) /\ x # m.i + 1
      BY <1>7, <2>1, <3>0 DEF Entry
    <3> QED
      BY <1>3, <1>6, <3>1 DEF Mergeable, Distinct
  <2>2. ASSUME NEW x \in 1 .. m.j, m.out[a] = Entry(c2, t2, x) PROVE w[a].node # e.node
    <3>1. w[a].node = c2[x] /\ x \in 1 .. Len(c2)
      <4>1. x \in 1 .. Len(c2)
        BY <1>2, <1>3
      <4> QED
        BY <1>7, <2>2, <4>1 DEF Entry
    <3> QED
      BY <1>3, <1>6, <3>1 DEF Mergeable
  <2> QED
    BY <2>1, <2>2 DEF Merging
<1>10. ASSUME NEW a \in 1 .. k + 1, NEW b \in 1 .. k + 1, w[a].node = w[b].node PROVE a = b
  <2>1. CASE a \in 1 .. k /\ b \in 1 .. k
    <3>1. m.out[a].node = m.out[b].node
      BY <1>7, <1>10, <2>1
    <3> QED
      BY <2>1, <3>1 DEF Merging
  <2>2. CASE a = k + 1 \/ b = k + 1
    BY <1>7, <1>8, <1>9, <1>10, <2>2
  <2> QED
    BY <1>8, <2>1, <2>2
<1>11. ASSUME NEW a \in 1 .. k + 1
       PROVE  \/ \E x \in 1 .. m.i + 1 : w[a] = Entry(c1, t1, x)
              \/ \E x \in 1 .. m.j : w[a] = Entry(c2, t2, x)
  <2>1. CASE a = k + 1
    <3>1. m.i + 1 \in 1 .. m.i + 1
      BY <1>3
    <3> QED
      BY <1>7, <2>1, <3>1 DEF e
  <2>2. CASE a \in 1 .. k
    <3>1. \A x \in 1 .. m.i : x \in 1 .. m.i + 1
      BY <1>3
    <3>2. w[a] = m.out[a]
      BY <1>7, <2>2
    <3>3. \/ \E x \in 1 .. m.i : m.out[a] = Entry(c1, t1, x)
          \/ \E x \in 1 .. m.j : m.out[a] = Entry(c2, t2, x)
      BY <2>2 DEF Merging
    <3> QED
      BY <3>1, <3>2, <3>3
  <2> QED
    BY <1>8, <2>1, <2>2
<1>12. ASSUME NEW x \in 1 .. m.i + 1 PROVE \E a \in 1 .. k + 1 : w[a].node = c1[x]
  <2>1. CASE x = m.i + 1
    <3>1. k + 1 \in 1 .. k + 1
      OBVIOUS
    <3> QED
      BY <1>6, <1>7, <2>1, <3>1
  <2>2. CASE x # m.i + 1
    <3>1. x \in 1 .. m.i
      BY <1>3, <2>2
    <3>2. PICK a \in 1 .. k : m.out[a].node = c1[x]
      BY <3>1 DEF Merging
    <3>3. a \in 1 .. k + 1 /\ w[a] = m.out[a]
      BY <1>7, <3>2
    <3> QED
      BY <3>2, <3>3
  <2> QED
    BY <2>1, <2>2
<1>13. ASSUME NEW x \in 1 .. m.j PROVE \E a \in 1 .. k + 1 : w[a].node = c2[x]
  <2>1. PICK a \in 1 .. k : m.out[a].node = c2[x]
    BY DEF Merging
  <2>2. a \in 1 .. k + 1 /\ w[a] = m.out[a]
    BY <1>7, <2>1
  <2> QED
    BY <2>1, <2>2
<1>14. ASSUME NEW a \in 1 .. k PROVE w[a].time <= w[a + 1].time
  <2>1. a \in 1 .. k /\ (a = k \/ (a \in 1 .. k - 1 /\ a + 1 \in 1 .. k))
    OBVIOUS
  <2>2. CASE a = k
    <3>1. m.out[k].time <= t1[m.i + 1]
      BY <2>1, <2>2 DEF Merging
    <3> QED
      BY <1>6, <1>7, <2>1, <2>2, <3>1
  <2>3. CASE a \in 1 .. k - 1 /\ a + 1 \in 1 .. k
    <3>1. m.out[a].time <= m.out[a + 1].time
      BY <2>3 DEF Merging
    <3> QED
      BY <1>7, <2>1, <2>3, <3>1
  <2> QED
    BY <2>1, <2>2, <2>3
<1>15. m.i + 1 < Len(c1) => e.time <= t1[m.i + 1 + 1]
  <2> HAVE m.i + 1 < Len(c1)
  <2>1. m.i + 1 \in 1 .. Len(c1) - 1
    BY <1>2, <1>3
  <2> QED
    BY <1>6, <2>1 DEF Mergeable, Timely
<1>16. m.j < Len(c2) => e.time <= t2[m.j + 1]
  BY <1>2, <1>3, <1>6
<1>17. m.i + 1 + m.j = k + 1 /\ k + 1 - 1 = k
  BY <1>1, <1>3
<1>18. /\ n \in [i : 0 .. Len(c1), j : 0 .. Len(c2), out : Seq(Taken)]
       /\ n.i = m.i + 1 /\ n.j = m.j /\ n.out = w
  BY <1>3, <1>7
<1> HIDE DEF n
<1>19. Merging(n, k + 1, c1, t1, c2, t2)
  BY <1>7, <1>10, <1>11, <1>12, <1>13, <1>14, <1>15, <1>16, <1>17, <1>18 DEF Merging
<1> QED
  BY <1>4, <1>19

\* The same round, when the chains trade places.
Swapped(m) == [i |-> m.j, j |-> m.i, out |-> m.out]

\* The two chains can change places.
LEMMA MergingSwapped ==
  ASSUME NEW c1, NEW t1, NEW c2, NEW t2, NEW k, NEW m, Merging(m, k, c1, t1, c2, t2)
  PROVE  Merging(Swapped(m), k, c2, t2, c1, t1) /\ Swapped(Swapped(m)) = m
<1>1. /\ m \in [i : 0 .. Len(c1), j : 0 .. Len(c2), out : Seq(Taken)]
      /\ m.i + m.j = k /\ Len(m.out) = k /\ m.i \in Int /\ m.j \in Int
  BY DEF Merging
<1>2. /\ Swapped(m) \in [i : 0 .. Len(c2), j : 0 .. Len(c1), out : Seq(Taken)]
      /\ Swapped(m).i = m.j /\ Swapped(m).j = m.i /\ Swapped(m).out = m.out
      /\ Swapped(Swapped(m)) = m /\ m.j + m.i = k
  BY <1>1 DEF Swapped
<1> QED
  <2> DEFINE z == Swapped(m)
  <2>1. /\ z \in [i : 0 .. Len(c2), j : 0 .. Len(c1), out : Seq(Taken)]
        /\ z.i = m.j /\ z.j = m.i /\ z.out = m.out /\ Swapped(z) = m
        /\ z.i + z.j = k /\ Len(z.out) = k
    BY <1>1, <1>2
  <2> HIDE DEF z
  <2>2. Merging(z, k, c2, t2, c1, t1)
    <3>1. /\ \A a \in 1 .. k : \/ \E x \in 1 .. m.i : m.out[a] = Entry(c1, t1, x)
                               \/ \E x \in 1 .. m.j : m.out[a] = Entry(c2, t2, x)
          /\ \A x \in 1 .. m.i : \E a \in 1 .. k : m.out[a].node = c1[x]
          /\ \A x \in 1 .. m.j : \E a \in 1 .. k : m.out[a].node = c2[x]
      BY DEF Merging
    <3>2. /\ \A a, b \in 1 .. k : m.out[a].node = m.out[b].node => a = b
          /\ \A a \in 1 .. k - 1 : m.out[a].time <= m.out[a + 1].time
          /\ k > 0 /\ m.i < Len(c1) => m.out[k].time <= t1[m.i + 1]
          /\ k > 0 /\ m.j < Len(c2) => m.out[k].time <= t2[m.j + 1]
      BY DEF Merging
    <3> QED
      BY ONLY <2>1, <3>1, <3>2 DEF Merging
  <2> QED
    BY <2>1, <2>2 DEF z

\* A round of the loop, whichever node it takes.
LEMMA RoundKeeps ==
  ASSUME NEW c1, NEW t1, NEW c2, NEW t2, Mergeable(c1, t1, c2, t2), NEW k \in Nat,
         NEW m, Merging(m, k, c1, t1, c2, t2), k < Len(c1) + Len(c2)
  PROVE  Merging(Round(m, c1, t1, c2, t2), k + 1, c1, t1, c2, t2)
<1>1. /\ m \in [i : 0 .. Len(c1), j : 0 .. Len(c2), out : Seq(Taken)]
      /\ m.i + m.j = k /\ m.i \in 0 .. Len(c1) /\ m.j \in 0 .. Len(c2)
  BY DEF Merging
<1>2. Len(c1) \in Nat /\ Len(c2) \in Nat
  BY DEF Mergeable
<1>3. CASE m.i < Len(c1) /\ (m.j = Len(c2) \/ t1[m.i + 1] <= t2[m.j + 1])
  BY <1>3, RoundFirst
<1>4. CASE ~(m.i < Len(c1) /\ (m.j = Len(c2) \/ t1[m.i + 1] <= t2[m.j + 1]))
  <2> DEFINE s == Swapped(m)
  <2>1. Merging(s, k, c2, t2, c1, t1) /\ s.i = m.j /\ s.j = m.i /\ s.out = m.out
    BY MergingSwapped DEF Swapped
  <2>2. Mergeable(c2, t2, c1, t1)
    BY DEF Mergeable
  <2>3. m.j < Len(c2)
    BY <1>1, <1>2, <1>4
  <2>4. m.i = Len(c1) \/ t2[m.j + 1] <= t1[m.i + 1]
    <3>1. ASSUME m.i # Len(c1) PROVE t2[m.j + 1] <= t1[m.i + 1]
      <4>1. m.i + 1 \in 1 .. Len(c1) /\ m.j + 1 \in 1 .. Len(c2) /\ m.i < Len(c1)
        BY <1>1, <1>2, <2>3, <3>1
      <4>2. (\A x \in 1 .. Len(c1) : t1[x] \in Nat) /\ (\A x \in 1 .. Len(c2) : t2[x] \in Nat)
        BY DEF Mergeable, Timely
      <4>3. t1[m.i + 1] \in Nat /\ t2[m.j + 1] \in Nat
        BY <4>1, <4>2
      <4> QED
        BY <1>4, <4>1, <4>3
    <3> QED
      BY <3>1
  <2> HIDE DEF s
  <2>5. Merging(Round(s, c2, t2, c1, t1), k + 1, c2, t2, c1, t1)
    BY <2>1, <2>2, <2>3, <2>4, RoundFirst
  <2>6. Round(s, c2, t2, c1, t1)
          = [i |-> m.j + 1, j |-> m.i, out |-> Append(m.out, [node |-> c2[m.j + 1], time |-> t2[m.j + 1]])]
    BY <2>1, <2>3, <2>4 DEF Round
  <2>7. Swapped(Round(s, c2, t2, c1, t1)) = Round(m, c1, t1, c2, t2)
    BY <1>4, <2>6 DEF Round, Swapped
  <2> QED
    BY <2>5, <2>7, MergingSwapped
<1> QED
  BY <1>3, <1>4

\* The merged chain has the nodes of both, once, in the order of their times.
LEMMA MergedIs ==
  ASSUME NEW c1, NEW t1, NEW c2, NEW t2, Mergeable(c1, t1, c2, t2),
         NEW m, m = Merged(c1, t1, c2, t2), NEW L, L = Len(c1) + Len(c2)
  PROVE  \E s : /\ Merging(s, L, c1, t1, c2, t2)
                /\ s.i = Len(c1) /\ s.j = Len(c2) /\ s.out = m
<1> DEFINE N == Len(c1) + Len(c2)
           first == [i |-> 0, j |-> 0, out |-> <<>>]
           Step(f, k) == IF k = 0 THEN first ELSE Round(f[k - 1], c1, t1, c2, t2)
           g == CHOOSE f : f = [k \in 0 .. N |-> Step(f, k)]
           V == [i : 0 .. Len(c1), j : 0 .. Len(c2), out : Seq(Taken)]
           Good(k, v) == Merging(v, k, c1, t1, c2, t2)
           F == [k \in 1 .. N |-> [v \in V |-> IF Good(k - 1, v) THEN Round(v, c1, t1, c2, t2) ELSE first]]
<1>0. Len(c1) \in Nat /\ Len(c2) \in Nat
  BY DEF Mergeable
<1>1. N \in Nat
  BY <1>0
<1>2. first \in V /\ Good(0, first)
  <2>1. /\ first \in V /\ first.i = 0 /\ first.j = 0 /\ first.out = <<>> /\ Len(<<>>) = 0
        /\ 0 + 0 = 0 /\ ~(0 > 0)
    BY <1>0
  <2> HIDE DEF first
  <2> QED
    BY <2>1 DEF Merging
<1>3. ASSUME NEW k \in 1 .. N, NEW v, Good(k - 1, v)
      PROVE  Good(k, Round(v, c1, t1, c2, t2))
  <2>1. k - 1 \in Nat /\ k - 1 < N /\ k - 1 + 1 = k
    BY <1>1
  <2>2. Merging(Round(v, c1, t1, c2, t2), k - 1 + 1, c1, t1, c2, t2)
    BY <1>3, <2>1, RoundKeeps
  <2> QED
    BY <2>1, <2>2
<1>4. \A k, v : Good(k, v) => v \in V
  BY DEF Merging
<1> HIDE DEF N, first, Good
<1>5. F \in [1 .. N -> [V -> V]]
  <2>1. \A k \in 1 .. N : \A v \in V :
          (IF Good(k - 1, v) THEN Round(v, c1, t1, c2, t2) ELSE first) \in V
    BY <1>2, <1>3, <1>4
  <2> HIDE DEF V
  <2> QED
    BY <2>1
<1>6. \A k \in 1 .. N : \A v \in V : Good(k - 1, v) => F[k][v] = Round(v, c1, t1, c2, t2)
  OBVIOUS
<1> HIDE DEF F, V
<1>7. PICK f : IsRun(f, V, first, N, F)
  BY <1>1, <1>2, <1>5, RunExists
<1> DEFINE T == {k \in 0 .. N : Good(k, f[k])}
<1>8. 0 .. N \subseteq T
  <2>1. 0 \in T
    BY <1>1, <1>2, <1>7 DEF IsRun
  <2>2. ASSUME NEW k \in 0 .. N - 1, k \in T PROVE k + 1 \in T
    <3>1. k + 1 \in 1 .. N /\ k + 1 \in 0 .. N /\ k + 1 - 1 = k /\ Good(k, f[k])
      BY <1>1, <2>2
    <3>2. f[k + 1] = F[k + 1][f[k]]
      BY <1>7, <3>1 DEF IsRun
    <3>3. f[k + 1] = Round(f[k], c1, t1, c2, t2)
      BY <1>4, <1>6, <3>1, <3>2
    <3>4. Good(k + 1, f[k + 1])
      BY <1>3, <3>1, <3>3
    <3> QED
      BY <3>1, <3>4
  <2> HIDE DEF T
  <2> QED
    BY <1>1, <2>1, <2>2, UpTo
<1>9. f = [k \in 0 .. N |-> Step(f, k)]
  <2>1. ASSUME NEW k \in 0 .. N PROVE f[k] = Step(f, k)
    <3>1. CASE k = 0
      BY <1>7, <3>1 DEF IsRun
    <3>2. CASE k # 0
      <4>1. k \in 1 .. N /\ k - 1 \in 0 .. N
        BY <1>1, <3>2
      <4>2. f[k] = F[k][f[k - 1]] /\ Good(k - 1, f[k - 1])
        BY <1>7, <1>8, <4>1 DEF IsRun
      <4>3. f[k] = Round(f[k - 1], c1, t1, c2, t2)
        BY <1>4, <1>6, <4>1, <4>2
      <4> QED
        BY <3>2, <4>3
    <3> QED
      BY <3>1, <3>2
  <2>2. f = [k \in 0 .. N |-> f[k]]
    BY <1>7 DEF IsRun
  <2> HIDE DEF Step
  <2> QED
    BY <2>1, <2>2
<1>10. m = g[N].out
  BY DEF Merged, N, first
<1> HIDE DEF Step, T
<1>11. g = [k \in 0 .. N |-> Step(g, k)]
  BY <1>9, Zenon
<1> HIDE DEF g
<1> DEFINE E == {k \in 0 .. N : g[k] = f[k]}
<1>12. 0 .. N \subseteq E
  <2>1. 0 \in E
    <3>1. 0 \in 0 .. N
      BY <1>1
    <3>2. g[0] = first /\ f[0] = first
      BY <1>9, <1>11, <3>1 DEF Step
    <3> QED
      BY <3>1, <3>2
  <2>2. ASSUME NEW k \in 0 .. N - 1, k \in E PROVE k + 1 \in E
    <3>1. k + 1 \in 0 .. N /\ k + 1 - 1 = k /\ k + 1 # 0 /\ g[k] = f[k]
      BY <1>1, <2>2
    <3>2. g[k + 1] = Step(g, k + 1) /\ f[k + 1] = Step(f, k + 1)
      BY <1>9, <1>11, <3>1
    <3>3. Step(g, k + 1) = Step(f, k + 1)
      BY <3>1 DEF Step
    <3> QED
      BY <3>1, <3>2, <3>3
  <2> HIDE DEF E
  <2> QED
    BY <1>1, <2>1, <2>2, UpTo
<1>13. g[N] = f[N] /\ Good(N, f[N])
  <2>1. N \in 0 .. N
    BY <1>1
  <2> QED
    BY <1>8, <1>12, <2>1 DEF E, T
<1>14. Merging(g[N], L, c1, t1, c2, t2)
  BY <1>13 DEF Good, N
<1>15. g[N].i = Len(c1) /\ g[N].j = Len(c2)
  <2>1. g[N].i \in 0 .. Len(c1) /\ g[N].j \in 0 .. Len(c2) /\ g[N].i + g[N].j = L
    BY <1>14 DEF Merging
  <2> QED
    BY <1>0, <2>1
<1> QED
  BY <1>10, <1>14, <1>15

---------------------------------------------------------------------------
(* What the deltas of a chain say of the times its events are to happen.   *)

\* The deltas of a chain count from base to the time each event is meant for.
Clocked(h, c, base) ==
  \A i \in 1 .. Len(c) :
    h[c[i]].when = (IF i = 1 THEN base ELSE h[c[i - 1]].when) + h[c[i]].delta

\* The times of a chain that counts from base, read back.
LEMMA ClockedTimes ==
  ASSUME NEW h \in Seq(NodeRecords), NEW c \in Seq(DOMAIN h), NEW base \in Nat, Clocked(h, c, base),
         NEW t, t = Times(h, c)
  PROVE  \A i \in 1 .. Len(c) : h[c[i]].when = base + t[i]
<1> DEFINE N == Len(c)
           T == {i \in 0 .. N : i # 0 => h[c[i]].when = base + t[i]}
<1>0. N \in Nat /\ \A i \in 1 .. N : c[i] \in DOMAIN h
  OBVIOUS
<1>1. \A x \in DOMAIN h : h[x].delta \in Nat /\ h[x].when \in Nat
  BY HeapIs
<1>2. /\ \A i \in 1 .. N : t[i] \in Nat
      /\ \A i \in 1 .. N : t[i] = (IF i = 1 THEN 0 ELSE t[i - 1]) + h[c[i]].delta
  <2>1. \A x \in DOMAIN h : h[x].delta \in Nat
    BY <1>1
  <2>2. /\ Timely(c, t)
        /\ \A i \in 1 .. N : t[i] = (IF i = 1 THEN 0 ELSE t[i - 1]) + h[c[i]].delta
    BY <2>1, TimesAre
  <2> QED
    BY <2>2 DEF Timely
<1> HIDE DEF N
<1>3. 0 \in T
  BY <1>0
<1>4. ASSUME NEW n \in 0 .. N - 1, n \in T PROVE n + 1 \in T
  <2>1. n + 1 \in 1 .. N /\ n + 1 \in 0 .. N /\ n + 1 - 1 = n /\ (n # 0 => n \in 1 .. N /\ n + 1 # 1)
    BY <1>0
  <2>2. h[c[n + 1]].when = (IF n + 1 = 1 THEN base ELSE h[c[n]].when) + h[c[n + 1]].delta
    BY <2>1 DEF Clocked, N
  <2>3. t[n + 1] = (IF n + 1 = 1 THEN 0 ELSE t[n]) + h[c[n + 1]].delta
    BY <1>2, <2>1
  <2>4. h[c[n + 1]].delta \in Nat /\ t[n + 1] \in Nat
    BY <1>0, <1>1, <1>2, <2>1
  <2>5. CASE n = 0
    <3>1. h[c[n + 1]].when = base + h[c[n + 1]].delta /\ t[n + 1] = 0 + h[c[n + 1]].delta
      BY <2>2, <2>3, <2>5
    <3>2. h[c[n + 1]].when = base + t[n + 1]
      BY <2>4, <3>1
    <3> QED
      BY <2>1, <3>2
  <2>6. CASE n # 0
    <3>1. h[c[n]].when = base + t[n] /\ t[n] \in Nat
      BY <1>2, <1>4, <2>1, <2>6
    <3>2. h[c[n + 1]].when = base + t[n + 1]
      <4>1. /\ h[c[n + 1]].when = h[c[n]].when + h[c[n + 1]].delta
            /\ t[n + 1] = t[n] + h[c[n + 1]].delta
        BY <2>1, <2>2, <2>3, <2>6
      <4> QED
        BY <2>4, <3>1, <4>1
    <3> QED
      BY <2>1, <3>2
  <2> QED
    BY <2>5, <2>6
<1> HIDE DEF T
<1>5. 0 .. N \subseteq T
  BY <1>0, <1>3, <1>4, UpTo
<1>6. \A i \in 1 .. N : i \in 0 .. N /\ i # 0
  BY <1>0
<1> QED
  BY <1>5, <1>6 DEF T, N

\* What g is when c got other deltas and was linked anew.
Relinks(h, c, time, end, g) ==
  /\ g \in Seq(NodeRecords) /\ Len(g) = Len(h) /\ SameBut(h, g)
  /\ \A i \in 1 .. Len(c) - 1 : g[c[i]].next = c[i + 1]
  /\ \A n \in DOMAIN h : g[n].next \in ToSet(c) \union {end, h[n].next}
  /\ \A i \in 1 .. Len(c) : g[c[i]].delta = Since(time, i)

\* A chain that got other deltas and was linked anew.
LEMMA Relinked ==
  ASSUME NEW h \in Seq(NodeRecords), NEW c \in Seq(DOMAIN h), Distinct(c),
         NEW time, Timely(c, time), NEW end \in Nat \union {Unset},
         NEW d, d = Differences(h, c, time), NEW g, g = Linked(d, c, end)
  PROVE  Relinks(h, c, time, end, g)
<1>11. /\ d \in Seq(NodeRecords) /\ SameBut(h, d) /\ Len(d) = Len(h)
       /\ \A n \in DOMAIN h : d[n].next = h[n].next
       /\ \A n \in DOMAIN h : n \notin ToSet(c) => d[n] = h[n]
       /\ \A i \in 1 .. Len(c) : d[c[i]].delta = Since(time, i)
  BY DifferencesIs
<1>12. DOMAIN d = DOMAIN h /\ c \in Seq(DOMAIN d)
  BY <1>11 DEF SameBut
<1>13. /\ g \in Seq(NodeRecords) /\ SameBut(d, g) /\ Len(g) = Len(d)
       /\ \A n \in DOMAIN d : g[n].delta = d[n].delta
       /\ \A n \in DOMAIN d : n \notin ToSet(c) => g[n] = d[n]
       /\ \A i \in 1 .. Len(c) - 1 : g[c[i]].next = c[i + 1]
       /\ \A i \in 1 .. Len(c) : g[c[i]].next \in ToSet(c) \union {end}
  <2>1. d \in Seq(NodeRecords)
    BY <1>11
  <2> QED
    BY <1>12, <2>1, LinkedIs
<1>14. SameBut(h, g)
  <2>1. DOMAIN g = DOMAIN h
    BY <1>12, <1>13 DEF SameBut
  <2>2. ASSUME NEW n \in DOMAIN h
        PROVE  g[n].nargs = h[n].nargs /\ g[n].func = h[n].func /\ g[n].when = h[n].when
    <3>1. d[n].nargs = h[n].nargs /\ d[n].func = h[n].func /\ d[n].when = h[n].when
      BY <1>11 DEF SameBut
    <3>2. g[n].nargs = d[n].nargs /\ g[n].func = d[n].func /\ g[n].when = d[n].when
      BY <1>12, <1>13 DEF SameBut
    <3> QED
      BY <3>1, <3>2
  <2> QED
    BY <2>1, <2>2 DEF SameBut
<1>15. ASSUME NEW n \in DOMAIN h PROVE g[n].next \in ToSet(c) \union {end, h[n].next}
  <2>1. CASE n \in ToSet(c)
    <3>1. PICK a \in 1 .. Len(c) : n = c[a]
      BY <2>1 DEF ToSet
    <3> QED
      BY <1>13, <3>1
  <2>2. CASE n \notin ToSet(c)
    <3>1. n \in DOMAIN d
      BY <1>12
    <3>2. g[n] = d[n]
      BY <1>13, <2>2, <3>1
    <3>3. d[n].next = h[n].next
      BY <1>11
    <3> QED
      BY <3>2, <3>3
  <2> QED
    BY <2>1, <2>2
<1>16. ASSUME NEW i \in 1 .. Len(c) PROVE g[c[i]].delta = Since(time, i)
  <2>1. c[i] \in DOMAIN d
    BY <1>12
  <2>2. g[c[i]].delta = d[c[i]].delta
    BY <1>13, <2>1
  <2> QED
    BY <1>11, <2>2
<1> QED
  BY <1>11, <1>13, <1>14, <1>15, <1>16 DEF Relinks

\* Deltas that are the differences of the times count from zero.
LEMMA CountedFrom ==
  ASSUME NEW g, NEW c, Len(c) \in Nat, NEW time, \A i \in 1 .. Len(c) : time[i] \in Nat,
         \A i \in 1 .. Len(c) : g[c[i]].when = time[i] /\ g[c[i]].delta = Since(time, i)
  PROVE  Clocked(g, c, 0)
<1> SUFFICES ASSUME NEW i \in 1 .. Len(c)
             PROVE  g[c[i]].when = (IF i = 1 THEN 0 ELSE g[c[i - 1]].when) + g[c[i]].delta
  BY DEF Clocked
<1>1. CASE i = 1
  <2>1. time[i] \in Nat /\ Since(time, i) = time[i] - 0
    BY <1>1 DEF Since
  <2>2. Since(time, i) = time[i]
    BY <2>1
  <2>3. g[c[i]].when = 0 + g[c[i]].delta
    BY <2>1, <2>2
  <2> QED
    BY <1>1, <2>3
<1>2. CASE i # 1
  <2>1. i - 1 \in 1 .. Len(c) /\ Since(time, i) = time[i] - time[i - 1]
    BY <1>2 DEF Since
  <2>2. time[i] \in Nat /\ time[i - 1] \in Nat
    BY <2>1
  <2>3. time[i] = time[i - 1] + Since(time, i)
    BY <2>1, <2>2
  <2>4. g[c[i]].when = g[c[i - 1]].when + g[c[i]].delta
    BY <2>1, <2>3
  <2> QED
    BY <1>2, <2>4
<1> QED
  BY <1>1, <1>2

\* The chains have no node in common.
Apart(c, d) == \A i \in 1 .. Len(c) : \A j \in 1 .. Len(d) : c[i] # d[j]

\* What the chain c with its times is when it was made of two.
MadeOf(h, c1, c2, c, time) ==
  /\ c \in Seq(DOMAIN h) /\ Len(c) = Len(c1) + Len(c2) /\ Distinct(c)
  /\ ToSet(c) = ToSet(c1) \union ToSet(c2)
  /\ Timely(c, time)
  /\ Clocked(h, c1, 0) /\ Clocked(h, c2, 0) => \A i \in 1 .. Len(c) : h[c[i]].when = time[i]

\* The chain that dvector_merge makes of two.
LEMMA MergedChain ==
  ASSUME NEW h \in Seq(NodeRecords), NEW c1 \in Seq(DOMAIN h), NEW c2 \in Seq(DOMAIN h),
         Distinct(c1), Distinct(c2), Apart(c1, c2),
         NEW m, m = Merged(c1, Times(h, c1), c2, Times(h, c2)),
         NEW c, c = [i \in DOMAIN m |-> m[i].node],
         NEW time, time = [i \in DOMAIN m |-> m[i].time]
  PROVE  MadeOf(h, c1, c2, c, time)
<1> DEFINE t1 == Times(h, c1)
           t2 == Times(h, c2)
           N == Len(c1) + Len(c2)
<1>0. /\ DOMAIN h = 1 .. Len(h) /\ Len(h) \in Nat
      /\ Len(c1) \in Nat /\ Len(c2) \in Nat /\ N \in Nat
      /\ DOMAIN c1 = 1 .. Len(c1) /\ DOMAIN c2 = 1 .. Len(c2)
      /\ \A i \in 1 .. Len(c1) : c1[i] \in DOMAIN h
      /\ \A i \in 1 .. Len(c2) : c2[i] \in DOMAIN h
  OBVIOUS
<1>1. Mergeable(c1, t1, c2, t2)
  <2>1. \A x \in DOMAIN h : h[x].delta \in Nat
    BY HeapIs
  <2>2. Timely(c1, t1) /\ Timely(c2, t2)
    BY <2>1, TimesAre
  <2>3. c1 \in Seq(Nat) /\ c2 \in Seq(Nat)
    BY <1>0
  <2> HIDE DEF t1, t2
  <2> QED
    BY <2>2, <2>3 DEF Mergeable, Apart
<1>c. /\ Clocked(h, c1, 0) => \A i \in 1 .. Len(c1) : h[c1[i]].when = 0 + t1[i]
      /\ Clocked(h, c2, 0) => \A i \in 1 .. Len(c2) : h[c2[i]].when = 0 + t2[i]
  BY ClockedTimes
<1>m. m = Merged(c1, t1, c2, t2)
  OBVIOUS
<1> HIDE DEF t1, t2
<1>n. N = Len(c1) + Len(c2)
  OBVIOUS
<1> HIDE DEF N
<1>2. PICK s : /\ Merging(s, N, c1, t1, c2, t2)
               /\ s.i = Len(c1) /\ s.j = Len(c2) /\ s.out = m
  BY <1>1, <1>m, <1>n, MergedIs
<1>3. m \in Seq(Taken) /\ Len(m) = N /\ DOMAIN m = 1 .. N
  <2>1. s.out \in Seq(Taken) /\ Len(s.out) = N
    BY <1>2 DEF Merging
  <2> QED
    BY <1>2, <2>1
<1>4. /\ \A a \in 1 .. N : \/ \E x \in 1 .. Len(c1) : m[a] = Entry(c1, t1, x)
                           \/ \E x \in 1 .. Len(c2) : m[a] = Entry(c2, t2, x)
      /\ \A x \in 1 .. Len(c1) : \E a \in 1 .. N : m[a].node = c1[x]
      /\ \A x \in 1 .. Len(c2) : \E a \in 1 .. N : m[a].node = c2[x]
      /\ \A a, b \in 1 .. N : m[a].node = m[b].node => a = b
      /\ \A a \in 1 .. N - 1 : m[a].time <= m[a + 1].time
  BY <1>2 DEF Merging
<1>e. ASSUME NEW a \in 1 .. N
      PROVE  \/ \E x \in 1 .. Len(c1) : m[a].node = c1[x] /\ m[a].time = t1[x]
             \/ \E x \in 1 .. Len(c2) : m[a].node = c2[x] /\ m[a].time = t2[x]
  <2>1. ASSUME NEW x \in 1 .. Len(c1), m[a] = Entry(c1, t1, x)
        PROVE  m[a].node = c1[x] /\ m[a].time = t1[x]
    BY <2>1 DEF Entry
  <2>2. ASSUME NEW x \in 1 .. Len(c2), m[a] = Entry(c2, t2, x)
        PROVE  m[a].node = c2[x] /\ m[a].time = t2[x]
    BY <2>2 DEF Entry
  <2>3. \/ \E x \in 1 .. Len(c1) : m[a] = Entry(c1, t1, x)
        \/ \E x \in 1 .. Len(c2) : m[a] = Entry(c2, t2, x)
    BY <1>4
  <2> QED
    BY <2>1, <2>2, <2>3
<1>5. \A a \in 1 .. N : m[a].node \in DOMAIN h /\ m[a].time \in Nat
  <2> TAKE a \in 1 .. N
  <2>1. m[a] \in Taken
    BY <1>3
  <2>2. m[a].node \in DOMAIN h
    BY <1>0, <1>e
  <2> QED
    BY <2>1, <2>2 DEF Taken
<1>6. /\ DOMAIN c = 1 .. N /\ \A a \in 1 .. N : c[a] = m[a].node
      /\ DOMAIN time = 1 .. N /\ \A a \in 1 .. N : time[a] = m[a].time
  BY <1>3
<1>7. c \in Seq(DOMAIN h) /\ Len(c) = N
  <2>1. c = [a \in 1 .. N |-> c[a]] /\ \A a \in 1 .. N : c[a] \in DOMAIN h
    BY <1>3, <1>5, <1>6
  <2>2. c \in [1 .. N -> DOMAIN h]
    BY <2>1
  <2> QED
    BY <1>0, <2>2 DEF N
<1>8. Distinct(c)
  BY <1>4, <1>6, <1>7 DEF Distinct
<1>9. Timely(c, time)
  <2>1. ASSUME NEW a \in 1 .. N - 1 PROVE time[a] <= time[a + 1]
    <3>1. a \in 1 .. N /\ a + 1 \in 1 .. N
      BY <1>0 DEF N
    <3> QED
      BY <1>4, <1>6, <3>1
  <2> QED
    BY <1>5, <1>6, <1>7, <2>1 DEF Timely
<1>10. ToSet(c) = ToSet(c1) \union ToSet(c2)
  <2>1. ASSUME NEW a \in 1 .. N PROVE c[a] \in ToSet(c1) \union ToSet(c2)
    <3>1. (\E x \in 1 .. Len(c1) : c[a] = c1[x]) \/ (\E x \in 1 .. Len(c2) : c[a] = c2[x])
      <4>1. c[a] = m[a].node
        BY <1>6
      <4> QED
        BY <1>e, <4>1
    <3> QED
      BY <1>0, <3>1 DEF ToSet
  <2>4. /\ ToSet(c) = {c[a] : a \in 1 .. N} /\ ToSet(c1) = {c1[x] : x \in 1 .. Len(c1)}
        /\ ToSet(c2) = {c2[x] : x \in 1 .. Len(c2)}
    BY <1>0, <1>6 DEF ToSet
  <2>2. ASSUME NEW x \in 1 .. Len(c1) PROVE c1[x] \in ToSet(c)
    <3>1. PICK a \in 1 .. N : m[a].node = c1[x]
      BY <1>4
    <3>2. c[a] = c1[x]
      BY <1>6, <3>1
    <3> QED
      BY <2>4, <3>1, <3>2
  <2>3. ASSUME NEW x \in 1 .. Len(c2) PROVE c2[x] \in ToSet(c)
    <3>1. PICK a \in 1 .. N : m[a].node = c2[x]
      BY <1>4
    <3>2. c[a] = c2[x]
      BY <1>6, <3>1
    <3> QED
      BY <2>4, <3>1, <3>2
  <2>5. \A n \in ToSet(c) : n \in ToSet(c1) \union ToSet(c2)
    BY <2>1, <2>4
  <2>6. \A n \in ToSet(c1) \union ToSet(c2) : n \in ToSet(c)
    BY <2>2, <2>3, <2>4
  <2> QED
    BY <2>5, <2>6
<1>16. ASSUME Clocked(h, c1, 0), Clocked(h, c2, 0) PROVE \A a \in 1 .. N : h[c[a]].when = time[a]
  <2>1. ASSUME NEW a \in 1 .. N PROVE h[c[a]].when = time[a]
    <3>1. CASE \E x \in 1 .. Len(c1) : m[a].node = c1[x] /\ m[a].time = t1[x]
      <4>1. PICK x \in 1 .. Len(c1) : m[a].node = c1[x] /\ m[a].time = t1[x]
        BY <3>1
      <4>2. c[a] = c1[x] /\ time[a] = t1[x] /\ t1[x] \in Nat
        BY <1>1, <1>6, <4>1 DEF Entry, Mergeable, Timely
      <4>3. h[c1[x]].when = 0 + t1[x]
        BY <1>16, <1>c, <4>1
      <4> QED
        BY <4>2, <4>3
    <3>2. CASE \E x \in 1 .. Len(c2) : m[a].node = c2[x] /\ m[a].time = t2[x]
      <4>1. PICK x \in 1 .. Len(c2) : m[a].node = c2[x] /\ m[a].time = t2[x]
        BY <3>2
      <4>2. c[a] = c2[x] /\ time[a] = t2[x] /\ t2[x] \in Nat
        BY <1>1, <1>6, <4>1 DEF Entry, Mergeable, Timely
      <4>3. h[c2[x]].when = 0 + t2[x]
        BY <1>16, <1>c, <4>1
      <4> QED
        BY <4>2, <4>3
    <3> QED
      BY <1>e, <3>1, <3>2
  <2> QED
    BY <2>1
<1> QED
  BY <1>7, <1>8, <1>9, <1>10, <1>16 DEF N, MadeOf

\* A chain that is linked anew counts from zero, when each time is meant.
LEMMA RelinkedClock ==
  ASSUME NEW h \in Seq(NodeRecords), NEW c \in Seq(DOMAIN h), Distinct(c),
         NEW time, Timely(c, time), NEW end \in Nat \union {Unset},
         NEW d, d = Differences(h, c, time), NEW g, g = Linked(d, c, end),
         \A i \in 1 .. Len(c) : h[c[i]].when = time[i]
  PROVE  Clocked(g, c, 0)
<1>1. /\ SameBut(h, g)
      /\ \A i \in 1 .. Len(c) : g[c[i]].delta = Since(time, i)
  BY Relinked DEF Relinks
<1>2. Len(c) \in Nat /\ (\A i \in 1 .. Len(c) : c[i] \in DOMAIN h) /\ \A i \in 1 .. Len(c) : time[i] \in Nat
  BY DEF Timely
<1>3. \A i \in 1 .. Len(c) : g[c[i]].when = time[i]
  BY <1>1, <1>2 DEF SameBut
<1> QED
  BY <1>1, <1>2, <1>3, CountedFrom

---------------------------------------------------------------------------
(* What scheme code works on.                                              *)

\* A chain has at most as many nodes as the heap.
LEMMA Short ==
  ASSUME NEW L \in Nat, NEW c \in Seq(1 .. L), Distinct(c)
  PROVE  Len(c) <= L
<1>1. DOMAIN c = 1 .. Len(c) /\ c \in [1 .. Len(c) -> 1 .. L]
  OBVIOUS
<1>2. \A i, j \in 1 .. Len(c) : c[i] = c[j] => i = j
  BY DEF Distinct
<1>0. Len(c) \in Nat
  OBVIOUS
<1>3. c \in Injection(1 .. Len(c), 1 .. L)
  BY <1>1, <1>2 DEF Injection, IsInjective
<1>4. IsFiniteSet(1 .. L) /\ Cardinality(1 .. L) = L
  BY FS_Interval
<1>5. Cardinality(1 .. Len(c)) = Len(c)
  <2>1. \A k \in Nat : Cardinality(1 .. k) = k
    BY FS_Interval
  <2> QED
    BY <1>0, <2>1
<1>6. Cardinality(1 .. Len(c)) <= Cardinality(1 .. L)
  BY <1>3, <1>4, FS_Injection
<1> QED
  BY <1>4, <1>5, <1>6

\* A function on the numbers up to n is a sequence.
LEMMA SeqIs ==
  ASSUME NEW S, NEW n \in Nat, NEW f \in [1 .. n -> S]
  PROVE  f \in Seq(S) /\ Len(f) = n
OBVIOUS

\* What a sequence is at a place of it.
LEMMA SeqAt ==
  ASSUME NEW S, NEW c \in Seq(S)
  PROVE  /\ Len(c) \in Nat /\ DOMAIN c = 1 .. Len(c) /\ \A i \in 1 .. Len(c) : c[i] \in S
         /\ ToSet(c) = {c[i] : i \in 1 .. Len(c)} /\ (c = <<>> <=> Len(c) = 0)
BY DEF ToSet

\* A sequence over a set is one over a larger set.
LEMMA SeqWider ==
  ASSUME NEW S, NEW T, S \subseteq T, NEW c \in Seq(S)
  PROVE  c \in Seq(T)
OBVIOUS

\* A chain whose links stay.
LEMMA ChainedStays ==
  ASSUME NEW h, NEW g, NEW v, NEW w, NEW c, Chained(h, v, c), DOMAIN h \subseteq DOMAIN g,
         w.size = v.size, w.first = v.first,
         \A i \in 1 .. Len(c) - 1 : g[c[i]].next = h[c[i]].next
  PROVE  Chained(g, w, c)
<1>1. c \in Seq(DOMAIN g)
  BY DEF Chained
<1> QED
  BY <1>1 DEF Chained

\* What the fields of a vector may hold.
Vector ==
  [size : Nat, first : Nat, last : Nat, pos : Nat \union {Unset}, top : Nat \union {Unset}]

\* The same, among L nodes.
Within(L) ==
  [size : 0 .. L, first : 0 .. L, last : 0 .. L,
   pos : (0 .. L) \union {Unset}, top : (0 .. L) \union {Unset}]

\* The records that scheme code works on.
States ==
  [heap : Seq(NodeRecords), events : Vector, tmp : Vector, noteblock : BOOLEAN,
   delay : Nat, asked : SUBSET Nat, crashed : BOOLEAN]

\* What is left to read is the end of the chain, unless top is gone.
ToRead(v, c) ==
  v.pos \in Nat /\ v.pos > 0 /\ v.top # Unset =>
    v.pos <= Len(c) /\ v.top = c[Len(c) - v.pos + 1]

\* The vectors hold e and t, which have no node in common.
Held(s, e, t) ==
  /\ s \in States
  /\ s.events \in Within(Len(s.heap)) /\ s.tmp \in Within(Len(s.heap))
  /\ s.asked \subseteq DOMAIN s.heap
  /\ \A n \in DOMAIN s.heap : s.heap[n].next \in (0 .. Len(s.heap)) \union {Unset}
  /\ Chained(s.heap, s.events, e) /\ Distinct(e)
  /\ Chained(s.heap, s.tmp, t) /\ Distinct(t)
  /\ Apart(e, t)
  /\ s.tmp.pos = 0 /\ s.tmp.top = Nil
  /\ ToRead(s.events, e)

\* And the next event is appended where t ends.
Sound(s, e, t) ==
  /\ Held(s, e, t)
  /\ s.tmp.last = IF t = <<>> THEN Nil ELSE t[Len(t)]

\* With a new node, which is in no vector yet.
Extended(s, r) == [s EXCEPT !.heap = Append(@, r)]

\* What z is when the node n, with the fields of r, came to be.
Longer(s, e, u, r, n, z) ==
  /\ Sound(z, e, u)
  /\ z.events = s.events /\ z.noteblock = s.noteblock /\ z.delay = s.delay
  /\ z.asked = s.asked /\ z.crashed = s.crashed
  /\ Len(z.heap) = n
  /\ z.heap[n].when = r.when /\ z.heap[n].delta = r.delta /\ z.heap[n].func = r.func
  /\ \A x \in DOMAIN s.heap : /\ z.heap[x].when = s.heap[x].when /\ z.heap[x].delta = s.heap[x].delta
                              /\ z.heap[x].func = s.heap[x].func

\* A new node is appended to tmp.
LEMMA Appended ==
  ASSUME NEW s, NEW e, NEW t, Sound(s, e, t), NEW r \in NodeRecords, r.next \in {Nil, Unset},
         NEW n, n = Len(s.heap) + 1, NEW u, u = Append(t, n),
         NEW z, z = dvector_append_value(Extended(s, r), n)
  PROVE  Longer(s, e, u, r, n, z)
<1> DEFINE h == s.heap
           h1 == Append(h, r)
           y == Extended(s, r)
           l == s.tmp.last
           h2 == IF l = Nil THEN h1 ELSE [h1 EXCEPT ![l].next = n]
<1>1. /\ s \in States /\ h \in Seq(NodeRecords) /\ s.tmp \in Vector /\ l \in Nat
      /\ DOMAIN h = 1 .. Len(h) /\ Len(h) \in Nat /\ n \in Nat
  BY DEF Sound, Held, States, Vector
<1>2. h1 \in Seq(NodeRecords)
  BY <1>1
<1> HIDE DEF h1
<1>3. /\ y \in States /\ y.heap = h1 /\ y.events = s.events /\ y.tmp = s.tmp
      /\ y.noteblock = s.noteblock /\ y.delay = s.delay /\ y.asked = s.asked
      /\ y.crashed = s.crashed
  <2>1. y = [s EXCEPT !.heap = h1]
    BY DEF Extended, h1
  <2> HIDE DEF y
  <2> QED
    BY <1>1, <1>2, <2>1 DEF States
<1>4. z = dvector_append_value(y, n)
  OBVIOUS
<1> HIDE DEF y
<1>5. /\ z.heap = IF y.tmp.last = Nil THEN y.heap ELSE [y.heap EXCEPT ![y.tmp.last].next = n]
      /\ z.tmp = [first |-> IF y.tmp.last = Nil THEN n ELSE y.tmp.first, last |-> n,
                  size |-> y.tmp.size + 1, pos |-> y.tmp.pos, top |-> y.tmp.top]
      /\ z.events = y.events
      /\ z.noteblock = y.noteblock /\ z.delay = y.delay /\ z.asked = y.asked
      /\ z.crashed = y.crashed
      /\ z = [heap |-> z.heap, events |-> z.events, tmp |-> z.tmp, noteblock |-> z.noteblock,
              delay |-> z.delay, asked |-> z.asked, crashed |-> z.crashed]
  <2> DEFINE p == IF y.tmp.last = Nil THEN y.heap ELSE [y.heap EXCEPT ![y.tmp.last].next = n]
             q == [first |-> IF y.tmp.last = Nil THEN n ELSE y.tmp.first, last |-> n,
                   size |-> y.tmp.size + 1, pos |-> y.tmp.pos, top |-> y.tmp.top]
  <2>1. z = [y EXCEPT !.heap = p, !.tmp = q]
    BY <1>4 DEF dvector_append_value
  <2> HIDE DEF p, q
  <2>2. /\ z.heap = p /\ z.tmp = q /\ z.events = y.events
        /\ z.noteblock = y.noteblock /\ z.delay = y.delay /\ z.asked = y.asked
        /\ z.crashed = y.crashed
    BY <1>3, <2>1 DEF States
  <2>3. z = [heap |-> z.heap, events |-> z.events, tmp |-> z.tmp, noteblock |-> z.noteblock,
             delay |-> z.delay, asked |-> z.asked, crashed |-> z.crashed]
    BY <1>3, <2>1 DEF States
  <2> QED
    BY <2>2, <2>3 DEF p, q
<1>6. /\ z.tmp.size = s.tmp.size + 1 /\ z.tmp.first = (IF l = Nil THEN n ELSE s.tmp.first)
      /\ z.tmp.last = n /\ z.tmp.pos = s.tmp.pos /\ z.tmp.top = s.tmp.top
  BY <1>3, <1>5
<1> DEFINE g == z.heap
           L == Len(h)
<1>7. /\ g = (IF l = Nil THEN h1 ELSE [h1 EXCEPT ![l].next = n])
      /\ Len(h1) = n /\ DOMAIN h1 = 1 .. n /\ h1[n] = r /\ \A x \in 1 .. L : h1[x] = h[x]
  <2>1. /\ Len(h1) = n /\ DOMAIN h1 = 1 .. n /\ h1[n] = r
        /\ \A x \in 1 .. Len(h) : h1[x] = h[x]
    BY <1>1, AppendProperties DEF h1
  <2>2. g = (IF l = Nil THEN h1 ELSE [h1 EXCEPT ![l].next = n])
    BY <1>3, <1>5
  <2> QED
    BY <2>1, <2>2
<1>8. /\ e \in Seq(1 .. L) /\ t \in Seq(1 .. L) /\ Len(e) \in Nat /\ Len(t) \in Nat
      /\ Len(e) = s.events.size /\ Len(t) = s.tmp.size /\ Distinct(e) /\ Distinct(t) /\ Apart(e, t)
      /\ t # <<>> => t[1] = s.tmp.first
      /\ \A i \in 1 .. Len(e) - 1 : h[e[i]].next = e[i + 1]
      /\ \A i \in 1 .. Len(t) - 1 : h[t[i]].next = t[i + 1]
      /\ l = IF t = <<>> THEN Nil ELSE t[Len(t)]
  BY <1>1 DEF Sound, Held, Chained
<1>9. /\ L \in Nat /\ \A x \in 1 .. L : h[x].next \in (0 .. L) \union {Unset}
      /\ \A i \in 1 .. Len(e) : e[i] \in 1 .. L
      /\ \A i \in 1 .. Len(t) : t[i] \in 1 .. L
      /\ n = L + 1 /\ \A x \in 1 .. L : x \in 1 .. n /\ x # n
      /\ n \in 1 .. n /\ \A x \in 1 .. n : x \in 1 .. L \/ x = n
  <2>1. /\ L \in Nat /\ \A x \in 1 .. L : h[x].next \in (0 .. L) \union {Unset}
    BY <1>1 DEF Held, Sound
  <2>2. /\ \A i \in 1 .. Len(e) : e[i] \in 1 .. L
        /\ \A i \in 1 .. Len(t) : t[i] \in 1 .. L
    BY <1>8, SeqAt
  <2>3. n = L + 1
    OBVIOUS
  <2> HIDE DEF L
  <2>4. /\ \A x \in 1 .. L : x \in 1 .. n /\ x # n
        /\ n \in 1 .. n /\ \A x \in 1 .. n : x \in 1 .. L \/ x = n
    BY <2>1, <2>3
  <2> QED
    BY <2>1, <2>2, <2>3, <2>4
<1>10. /\ t # <<>> => l \in 1 .. L
       /\ l \in 0 .. L
       /\ l = Nil <=> t = <<>>
  <2>1. CASE t = <<>>
    BY <1>8, <1>9, <2>1 DEF Nil
  <2>2. CASE t # <<>>
    <3>1. Len(t) \in 1 .. Len(t)
      BY <1>8, <2>2
    <3> QED
      BY <1>8, <1>9, <2>2, <3>1 DEF Nil
  <2> QED
    BY <2>1, <2>2
<1>11. \A x \in 1 .. n : h1[x] \in NodeRecords
  BY <1>2, <1>7, HeapIs
<1> HIDE DEF h, L, g, l
<1>12. /\ g \in Seq(NodeRecords) /\ Len(g) = n /\ DOMAIN g = 1 .. n
       /\ \A x \in 1 .. n : /\ g[x].when = h1[x].when /\ g[x].delta = h1[x].delta
                           /\ g[x].func = h1[x].func
       /\ \A x \in 1 .. n : x # l => g[x] = h1[x]
       /\ l # Nil => g[l].next = n
  <2>1. CASE l = Nil
    BY <1>2, <1>7, <2>1
  <2>2. CASE l # Nil
    <3>1. l \in 1 .. L /\ l \in 1 .. n
      BY <1>9, <1>10, <2>2
    <3>2. g = [h1 EXCEPT ![l].next = n]
      BY <1>7, <2>2
    <3>3. DOMAIN g = 1 .. n /\ (\A x \in 1 .. n : x # l => g[x] = h1[x]) /\ g[l] = [h1[l] EXCEPT !.next = n]
      BY <1>7, <3>1, <3>2
    <3>4. /\ g[l] \in NodeRecords /\ g[l].next = n
          /\ g[l].when = h1[l].when /\ g[l].delta = h1[l].delta /\ g[l].func = h1[l].func
      <4>1. h1[l] \in NodeRecords
        BY <1>11, <3>1
      <4> QED
        BY <1>1, <3>3, <4>1 DEF NodeRecords
    <3>5. \A x \in 1 .. n : g[x] \in NodeRecords
      BY <1>11, <3>3, <3>4
    <3>6. g \in [1 .. n -> NodeRecords]
      <4>1. g = [x \in 1 .. n |-> g[x]]
        BY <1>7, <3>2
      <4> QED
        BY <3>5, <4>1
    <3>7. g \in Seq(NodeRecords) /\ Len(g) = n
      BY <1>1, <3>6, SeqIs
    <3> QED
      BY <3>3, <3>4, <3>7
  <2> QED
    BY <2>1, <2>2
<1>13. /\ n # l /\ g[n] = r
       /\ \A x \in 1 .. L : x # l => g[x] = h[x]
       /\ \A x \in 1 .. L : /\ g[x].when = h[x].when /\ g[x].delta = h[x].delta
                           /\ g[x].func = h[x].func
  <2>1. n # l
    BY <1>9, <1>10
  <2> QED
    BY <1>7, <1>9, <1>12, <2>1
<1>14. \A x \in 1 .. n : g[x].next \in (0 .. n) \union {Unset}
  <2> TAKE x \in 1 .. n
  <2>1. CASE x = l
    BY <1>9, <1>10, <1>12, <2>1 DEF Nil
  <2>2. CASE x # l /\ x = n
    BY <1>9, <1>13, <2>2 DEF Nil
  <2>3. CASE x # l /\ x # n
    <3>1. x \in 1 .. L /\ g[x] = h[x]
      BY <1>9, <1>13, <2>3
    <3>2. h[x].next \in (0 .. L) \union {Unset}
      BY <1>9, <3>1
    <3> QED
      BY <1>9, <3>1, <3>2
  <2> QED
    BY <2>1, <2>2, <2>3
<1>15. \A i \in 1 .. Len(e) : e[i] # l
  <2> TAKE i \in 1 .. Len(e)
  <2>1. CASE t = <<>>
    BY <1>9, <1>10, <2>1 DEF Nil
  <2>2. CASE t # <<>>
    <3>1. Len(t) \in 1 .. Len(t) /\ l = t[Len(t)]
      BY <1>8, <2>2
    <3> QED
      BY <1>8, <3>1 DEF Apart
  <2> QED
    BY <2>1, <2>2
<1>16. Chained(g, z.events, e)
  <2>1. \A i \in 1 .. Len(e) - 1 : g[e[i]].next = e[i + 1]
    <3> TAKE i \in 1 .. Len(e) - 1
    <3>1. i \in 1 .. Len(e)
      BY <1>8
    <3>2. g[e[i]] = h[e[i]]
      BY <1>9, <1>13, <1>15, <3>1
    <3> QED
      BY <1>8, <3>2
  <2>2. e \in Seq(1 .. n)
    <3>1. 1 .. L \subseteq 1 .. n
      BY <1>9
    <3> QED
      BY <1>8, <3>1, SeqWider
  <2>3. e # <<>> => e[1] = s.events.first
    BY DEF Sound, Held, Chained
  <2> QED
    BY <1>3, <1>5, <1>8, <1>12, <2>1, <2>2, <2>3 DEF Chained
<1>17. /\ u \in Seq(1 .. n) /\ Len(u) = Len(t) + 1 /\ u[Len(t) + 1] = n
       /\ \A i \in 1 .. Len(t) : u[i] = t[i]
  <2>1. t \in Seq(1 .. n)
    <3>1. 1 .. L \subseteq 1 .. n
      BY <1>9
    <3> QED
      BY <1>8, <3>1, SeqWider
  <2>2. n \in 1 .. n
    BY <1>9
  <2> QED
    BY <1>8, <2>1, <2>2, AppendProperties
<1>18. Chained(g, z.tmp, u)
  <2>1. u[1] = z.tmp.first
    <3>1. CASE t = <<>>
      <4>1. Len(t) = 0
        BY <3>1
      <4> QED
        BY <1>6, <1>10, <1>17, <3>1, <4>1
    <3>2. CASE t # <<>>
      <4>1. 1 \in 1 .. Len(t)
        BY <1>8, <3>2
      <4> QED
        BY <1>6, <1>8, <1>10, <1>17, <3>2, <4>1
    <3> QED
      BY <3>1, <3>2
  <2>2. ASSUME NEW i \in 1 .. Len(t) PROVE g[u[i]].next = u[i + 1]
    <3>1. CASE i = Len(t)
      <4>1. t # <<>>
        BY <1>8
      <4>2. l = t[i] /\ u[i] = l /\ u[i + 1] = n
        BY <1>8, <1>17, <3>1, <4>1
      <4> QED
        BY <1>10, <1>12, <4>1, <4>2
    <3>2. CASE i # Len(t)
      <4>1. i \in 1 .. Len(t) - 1 /\ i + 1 \in 1 .. Len(t) /\ Len(t) \in 1 .. Len(t) /\ t # <<>>
        BY <1>8, <3>2
      <4>2. t[i] # l
        BY <1>8, <3>2, <4>1 DEF Distinct
      <4>3. g[t[i]] = h[t[i]] /\ h[t[i]].next = t[i + 1]
        BY <1>8, <1>9, <1>13, <4>1, <4>2
      <4>4. u[i] = t[i] /\ u[i + 1] = t[i + 1]
        BY <1>17, <4>1
      <4> QED
        BY <4>3, <4>4
    <3> QED
      BY <3>1, <3>2
  <2>3. Len(u) - 1 = Len(t) /\ Len(u) = z.tmp.size
    BY <1>6, <1>8, <1>17
  <2> QED
    BY <1>12, <1>17, <2>1, <2>2, <2>3 DEF Chained
<1>19. Distinct(u) /\ Apart(e, u)
  <2>1. \A i \in 1 .. Len(t) + 1 : i \in 1 .. Len(t) \/ i = Len(t) + 1
    BY <1>8
  <2>2. \A i \in 1 .. Len(t) : u[i] # n
    BY <1>9, <1>17
  <2>3. \A i, j \in 1 .. Len(t) : u[i] = u[j] => i = j
    BY <1>8, <1>17 DEF Distinct
  <2>4. \A i \in 1 .. Len(e) : e[i] # n
    BY <1>9
  <2>5. Distinct(u)
    BY <1>17, <2>1, <2>2, <2>3 DEF Distinct
  <2>6. Apart(e, u)
    BY <1>8, <1>17, <2>1, <2>4 DEF Apart
  <2> QED
    BY <2>5, <2>6
<1>20. z \in States /\ z.events \in Within(n) /\ z.tmp \in Within(n)
  <2>1. Len(u) <= n
    BY <1>1, <1>17, <1>19, Short
  <2>2. s.tmp.first \in 0 .. L /\ s.events \in Within(L) /\ s.tmp.pos = 0 /\ s.tmp.top = 0
    BY DEF Sound, Held, Within, L, h, Nil
  <2>3. z.events \in Within(n)
    BY <1>3, <1>5, <1>9, <2>2 DEF Within
  <2>4. z.tmp \in Within(n)
    <3>1. z.tmp.size \in 0 .. n
      BY <1>6, <1>8, <1>17, <2>1
    <3>2. z.tmp.first \in 0 .. n
      BY <1>6, <1>9, <2>2
    <3>3. z.tmp = [first |-> z.tmp.first, last |-> n, size |-> z.tmp.size, pos |-> 0, top |-> 0]
      BY <1>3, <1>5, <2>2
    <3> QED
      BY <1>1, <3>1, <3>2, <3>3 DEF Within
  <2>5. z.tmp \in Vector
    BY <1>1, <2>4 DEF Within, Vector
  <2>6. /\ z.events \in Vector /\ z.noteblock \in BOOLEAN /\ z.delay \in Nat
        /\ z.asked \in SUBSET Nat /\ z.crashed \in BOOLEAN /\ z.heap \in Seq(NodeRecords)
    BY <1>1, <1>3, <1>5, <1>12 DEF States, g
  <2> QED
    BY <1>5, <2>3, <2>4, <2>5, <2>6 DEF States
<1>21. /\ z.asked \subseteq 1 .. n
       /\ z.tmp.pos = 0 /\ z.tmp.top = Nil
       /\ ToRead(z.events, e)
  <2>1. z.asked \subseteq 1 .. L
    BY <1>1, <1>3, <1>5 DEF Sound, Held, L, h
  <2>2. z.asked \subseteq 1 .. n
    BY <1>9, <2>1
  <2> QED
    BY <1>3, <1>5, <1>6, <2>2 DEF Sound, Held
<1>22. z.tmp.last = IF u = <<>> THEN Nil ELSE u[Len(u)]
  BY <1>6, <1>8, <1>17
<1>23. Sound(z, e, u)
  <2>1. Held(z, e, u)
    BY <1>8, <1>12, <1>14, <1>16, <1>18, <1>19, <1>20, <1>21, ZenonT(30) DEF Sound, Held, g
  <2> QED
    BY <1>22, <2>1 DEF Sound
<1> QED
  BY <1>1, <1>3, <1>5, <1>12, <1>13, <1>23 DEF g, L, h, Longer

\* What is held, as facts of its parts.
LEMMA HeldIs ==
  ASSUME NEW s, NEW e, NEW t, Held(s, e, t)
  PROVE  /\ s.heap \in Seq(NodeRecords) /\ DOMAIN s.heap = 1 .. Len(s.heap) /\ Len(s.heap) \in Nat
         /\ e \in Seq(DOMAIN s.heap) /\ t \in Seq(DOMAIN s.heap)
         /\ Len(e) = s.events.size /\ Len(t) = s.tmp.size
         /\ \A n \in DOMAIN s.heap : s.heap[n].next \in (0 .. Len(s.heap)) \union {Unset}
         /\ Chain(s.heap, s.events) = e /\ Chain(s.heap, s.tmp) = t
         /\ Distinct(e) /\ Distinct(t) /\ Apart(e, t)
<1>1. s.heap \in Seq(NodeRecords)
  BY DEF Held, States
<1>2. /\ Chained(s.heap, s.events, e) /\ Chained(s.heap, s.tmp, t)
      /\ Distinct(e) /\ Distinct(t) /\ Apart(e, t)
      /\ \A n \in DOMAIN s.heap : s.heap[n].next \in (0 .. Len(s.heap)) \union {Unset}
  BY DEF Held
<1>3. Chain(s.heap, s.events) = e /\ Chain(s.heap, s.tmp) = t
  BY <1>2, ChainIs
<1>4. e \in Seq(DOMAIN s.heap) /\ t \in Seq(DOMAIN s.heap) /\ Len(e) = s.events.size /\ Len(t) = s.tmp.size
  BY <1>2 DEF Chained
<1> QED
  BY <1>1, <1>2, <1>3, <1>4, HeapIs

\* Heaps in which the nodes of a chain are the same hold it too.
LEMMA ChainedApart ==
  ASSUME NEW h, NEW g, NEW v, NEW c, NEW u, Chained(h, v, c), DOMAIN g = DOMAIN h, Apart(c, u),
         u \in Seq(DOMAIN h), \A n \in DOMAIN h : n \notin ToSet(u) => g[n] = h[n]
  PROVE  /\ Chained(g, v, c) /\ \A i \in 1 .. Len(c) : g[c[i]] = h[c[i]]
         /\ \A base : Clocked(h, c, base) => Clocked(g, c, base)
<1>1. c \in Seq(DOMAIN h) /\ \A i \in 1 .. Len(c) - 1 : h[c[i]].next = c[i + 1]
  BY DEF Chained
<1>2. \A i \in 1 .. Len(c) : g[c[i]] = h[c[i]]
  <2> TAKE i \in 1 .. Len(c)
  <2>1. c[i] \in DOMAIN h
    BY <1>1, SeqAt
  <2>2. c[i] \notin ToSet(u)
    BY SeqAt DEF Apart
  <2> QED
    BY <2>1, <2>2
<1>3. Len(c) \in Nat
  BY <1>1, SeqAt
<1>4. \A i \in 1 .. Len(c) - 1 : g[c[i]].next = h[c[i]].next
  <2> TAKE i \in 1 .. Len(c) - 1
  <2>1. i \in 1 .. Len(c)
    BY <1>3
  <2> QED
    BY <1>2, <2>1
<1>5. Chained(g, v, c)
  BY <1>4, ChainedStays
<1>6. ASSUME NEW base, Clocked(h, c, base) PROVE Clocked(g, c, base)
  <2> SUFFICES ASSUME NEW i \in 1 .. Len(c)
               PROVE  g[c[i]].when = (IF i = 1 THEN base ELSE g[c[i - 1]].when) + g[c[i]].delta
    BY DEF Clocked
  <2>1. h[c[i]].when = (IF i = 1 THEN base ELSE h[c[i - 1]].when) + h[c[i]].delta
    BY <1>6 DEF Clocked
  <2>2. i # 1 => i - 1 \in 1 .. Len(c)
    BY <1>3
  <2>3. CASE i = 1
    BY <1>2, <2>1, <2>3
  <2>4. CASE i # 1
    <3>1. g[c[i - 1]] = h[c[i - 1]] /\ g[c[i]] = h[c[i]]
      BY <1>2, <2>2, <2>4
    <3> QED
      BY <2>1, <2>4, <3>1
  <2> QED
    BY <2>3, <2>4
<1> QED
  BY <1>2, <1>5, <1>6

\* The nodes of tmp are sorted by their times, unless the chain has no end.
LEMMA SortSound ==
  ASSUME NEW s, NEW e, NEW t, Held(s, e, t), NEW z, z = dvector_time_sort(s)
  PROVE  \/ z = s /\ t = <<>>
         \/ z = [s EXCEPT !.crashed = TRUE]
         \/ \E u : /\ t # <<>> /\ Held(z, e, u) /\ ToSet(u) = ToSet(t) /\ Len(u) = Len(t)
                   /\ Increasing(z.heap, u)
                   /\ Len(z.heap) = Len(s.heap) /\ SameBut(s.heap, z.heap)
                   /\ \A n \in DOMAIN s.heap : n \notin ToSet(t) => z.heap[n] = s.heap[n]
                   /\ \A n \in DOMAIN s.heap : z.heap[n].delta = s.heap[n].delta
                   /\ z.events = s.events /\ z.noteblock = s.noteblock /\ z.delay = s.delay
                   /\ z.asked = s.asked /\ z.crashed = s.crashed
<1> DEFINE h == s.heap
           u == Sorted(h, t)
           g == Linked(h, u, Nil)
           L == Len(h)
<1>1. /\ h \in Seq(NodeRecords) /\ DOMAIN h = 1 .. L /\ L \in Nat
      /\ e \in Seq(DOMAIN h) /\ t \in Seq(DOMAIN h)
      /\ Len(e) = s.events.size /\ Len(t) = s.tmp.size
      /\ \A n \in DOMAIN h : h[n].next \in (0 .. L) \union {Unset}
      /\ Chain(h, s.tmp) = t
      /\ Distinct(e) /\ Distinct(t) /\ Apart(e, t)
  BY HeldIs
<1>2. z = IF t = <<>> THEN s
          ELSE IF h[Last(t)].next = Unset THEN [s EXCEPT !.crashed = TRUE]
          ELSE [s EXCEPT !.heap = g, !.tmp.first = u[1]]
  BY <1>1, Zenon DEF dvector_time_sort
<1>3. CASE t = <<>>
  BY <1>2, <1>3
<1>4. CASE t # <<>> /\ h[Last(t)].next = Unset
  BY <1>2, <1>4
<1>5. CASE t # <<>> /\ h[Last(t)].next # Unset
  <2>1. u \in Seq(DOMAIN h) /\ Len(u) = Len(t) /\ ToSet(u) = ToSet(t) /\ Distinct(u) /\ Increasing(h, u)
    <3>1. \A x \in DOMAIN h : h[x].delta \in Nat
      BY <1>1, HeapIs
    <3>2. u = Sorted(h, t)
      OBVIOUS
    <3>3. t \in Seq(DOMAIN h) /\ Distinct(t)
      BY <1>1
    <3> HIDE DEF u, h, g
    <3> QED
      BY <3>1, <3>2, <3>3, SortedIs
  <2> HIDE DEF u
  <2>2. /\ g \in Seq(NodeRecords) /\ SameBut(h, g) /\ Len(g) = Len(h)
        /\ \A n \in DOMAIN h : g[n].delta = h[n].delta
        /\ \A n \in DOMAIN h : n \notin ToSet(u) => g[n] = h[n]
        /\ \A i \in 1 .. Len(u) - 1 : g[u[i]].next = u[i + 1]
        /\ \A i \in 1 .. Len(u) : g[u[i]].next \in ToSet(u) \union {Nil}
    <3>1. g = Linked(h, u, Nil) /\ Nil \in Nat \union {Unset}
      BY DEF Nil
    <3>2. h \in Seq(NodeRecords) /\ u \in Seq(DOMAIN h) /\ Distinct(u)
      BY <1>1, <2>1
    <3> HIDE DEF h, g
    <3> QED
      BY <3>1, <3>2, LinkedIs
  <2> DEFINE f == u[1]
             w == [size |-> s.tmp.size, first |-> f, last |-> s.tmp.last, pos |-> s.tmp.pos, top |-> s.tmp.top]
  <2>3. /\ s \in States /\ s.tmp \in Vector /\ s.tmp \in Within(L) /\ s.events \in Within(L)
        /\ s.events \in Vector
        /\ s.asked \subseteq 1 .. L /\ s.tmp.pos = 0 /\ s.tmp.top = Nil /\ ToRead(s.events, e)
        /\ Chained(h, s.events, e)
    BY <1>1 DEF Held, States
  <2> HIDE DEF g, f, h
  <2>4. z = [s EXCEPT !.heap = g, !.tmp.first = f]
    BY <1>2, <1>5 DEF f
  <2>5. [s.tmp EXCEPT !.first = f] = w
    BY <2>3 DEF Vector
  <2> HIDE DEF w
  <2>6. z = [s EXCEPT !.heap = g, !.tmp = w]
    BY <2>3, <2>4, <2>5 DEF States
  <2>7. /\ z.heap = g /\ z.tmp = w /\ z.events = s.events /\ z.noteblock = s.noteblock
        /\ z.delay = s.delay /\ z.asked = s.asked /\ z.crashed = s.crashed
        /\ z = [heap |-> g, events |-> s.events, tmp |-> w, noteblock |-> s.noteblock,
                delay |-> s.delay, asked |-> s.asked, crashed |-> s.crashed]
    BY <2>3, <2>6 DEF States
  <2>8. f \in 1 .. L
    BY <1>1, <1>5, <2>1 DEF f
  <2>9. w \in Within(L) /\ w \in Vector
    BY <1>1, <2>3, <2>8 DEF w, Within, Vector
  <2>10. z \in States
    BY <2>2, <2>3, <2>7, <2>9 DEF States
  <2>11. DOMAIN g = DOMAIN h
    BY <2>2 DEF SameBut
  <2>12. \A n \in DOMAIN g : g[n].next \in (0 .. L) \union {Unset}
    <3> TAKE n \in DOMAIN g
    <3>1. CASE n \notin ToSet(u)
      BY <1>1, <2>2, <2>11, <3>1
    <3>2. CASE n \in ToSet(u)
      <4>1. PICK i \in 1 .. Len(u) : n = u[i]
        BY <2>1, <3>2, SeqAt
      <4>2. g[n].next \in ToSet(u) \union {Nil}
        BY <2>2, <4>1
      <4>3. ToSet(u) \subseteq 1 .. L
        <5>1. u \in Seq(1 .. L)
          BY <1>1, <2>1
        <5> QED
          BY <5>1, SeqAt
      <4> QED
        BY <1>1, <4>2, <4>3 DEF Nil
    <3> QED
      BY <3>1, <3>2
  <2>13. Apart(e, u)
    <3>1. \A i \in 1 .. Len(e) : e[i] \notin ToSet(t)
      <4>1. ToSet(t) = {t[i] : i \in 1 .. Len(t)}
        BY <1>1, SeqAt
      <4> QED
        BY <1>1, <4>1 DEF Apart
    <3>2. \A j \in 1 .. Len(u) : u[j] \in ToSet(u)
      BY <2>1, SeqAt
    <3> QED
      BY <2>1, <3>1, <3>2 DEF Apart
  <2>14. Chained(g, s.events, e)
    BY <2>1, <2>2, <2>3, <2>11, <2>13, ChainedApart
  <2>15. Chained(g, w, u)
    <3>1. u \in Seq(DOMAIN g) /\ Len(u) = w.size /\ u[1] = w.first
      BY <1>1, <2>1, <2>11 DEF w, f
    <3> QED
      BY <2>2, <3>1 DEF Chained
  <2>16. w.pos = 0 /\ w.top = Nil
    BY <2>3 DEF w
  <2>17. Held(z, e, u)
    BY <1>1, <2>1, <2>2, <2>3, <2>7, <2>9, <2>10, <2>11, <2>12, <2>13, <2>14, <2>15, <2>16 DEF Held
  <2>18. Increasing(g, u)
    <3>1. \A i \in 1 .. Len(u) : u[i] \in DOMAIN h
      BY <2>1, SeqAt
    <3> QED
      BY <2>1, <2>2, <3>1 DEF Increasing
  <2> QED
    BY <1>5, <2>1, <2>2, <2>7, <2>17, <2>18 DEF h
<1> QED
  BY <1>3, <1>4, <1>5

\* With another heap, other vectors, and more that is to happen.
Replaced(s, g, v, w, a) == [s EXCEPT !.heap = g, !.events = v, !.tmp = w, !.asked = a]

\* What z is when s got another heap and other events, and tmp was emptied.
Renewed(s, g, c, a, z) ==
  /\ Sound(z, c, <<>>) /\ z.heap = g /\ z.noteblock = s.noteblock /\ z.delay = s.delay
  /\ z.asked = a /\ z.crashed = s.crashed

\* Another heap and another events, and tmp emptied.
LEMMA Exchanged ==
  ASSUME NEW s, NEW e, NEW t, Held(s, e, t),
         NEW g \in Seq(NodeRecords), Len(g) = Len(s.heap),
         \A n \in DOMAIN g : g[n].next \in (0 .. Len(g)) \union {Unset},
         NEW v \in Within(Len(g)), NEW c, Chained(g, v, c), Distinct(c), ToRead(v, c),
         NEW w, w = Emptied(s.tmp), NEW a, a = s.asked \union ToSet(t),
         NEW z, z = Replaced(s, g, v, w, a)
  PROVE  Renewed(s, g, c, a, z)
<1> DEFINE L == Len(s.heap)
<1>1. /\ s \in States /\ s.tmp \in Vector /\ s.tmp.pos = 0 /\ s.tmp.top = Nil /\ s.asked \subseteq DOMAIN s.heap
      /\ DOMAIN s.heap = 1 .. L /\ L \in Nat /\ DOMAIN g = 1 .. L
      /\ t \in Seq(DOMAIN s.heap)
  <2>1. /\ s \in States /\ s.tmp \in Vector /\ s.tmp.pos = 0 /\ s.tmp.top = Nil
        /\ s.asked \subseteq DOMAIN s.heap
    BY DEF Held, States
  <2>2. DOMAIN s.heap = 1 .. L /\ L \in Nat /\ t \in Seq(DOMAIN s.heap)
    BY HeldIs
  <2>3. DOMAIN g = 1 .. L
    BY HeapIs
  <2> QED
    BY <2>1, <2>2, <2>3
<1>2. w = [size |-> 0, first |-> 0, last |-> 0, pos |-> 0, top |-> 0]
  BY <1>1 DEF Emptied, Vector, Nil
<1>3. /\ z.heap = g /\ z.events = v /\ z.tmp = w /\ z.noteblock = s.noteblock
      /\ z.delay = s.delay /\ z.asked = a /\ z.crashed = s.crashed
      /\ z = [heap |-> g, events |-> v, tmp |-> w, noteblock |-> s.noteblock,
              delay |-> s.delay, asked |-> a, crashed |-> s.crashed]
  BY <1>1 DEF States, Replaced
<1>4. a \subseteq 1 .. L
  <2>1. ToSet(t) \subseteq DOMAIN s.heap
    BY <1>1, SeqAt
  <2> QED
    BY <1>1, <2>1
<1>5. w \in Vector /\ w \in Within(L) /\ w.pos = 0 /\ w.top = Nil /\ w.size = 0 /\ w.last = Nil
  BY <1>1, <1>2 DEF Vector, Within, Nil
<1>6. v \in Vector
  BY <1>1 DEF Vector, Within
<1>7. /\ s.noteblock \in BOOLEAN /\ s.delay \in Nat /\ s.crashed \in BOOLEAN
  BY <1>1 DEF States
<1>8. z \in States
  <2>1. a \subseteq Nat
    BY <1>1, <1>4
  <2> QED
    BY <1>3, <1>5, <1>6, <1>7, <2>1 DEF States
<1>9. Chained(g, w, <<>>)
  BY <1>5 DEF Chained
<1>10. Distinct(<<>>) /\ Apart(c, <<>>)
  BY DEF Distinct, Apart
<1>11. Held(z, c, <<>>)
  BY <1>1, <1>3, <1>4, <1>5, <1>8, <1>9, <1>10 DEF Held
<1> QED
  BY <1>3, <1>5, <1>11 DEF Sound, Renewed

\* What the heap g and the vector v are when c is held by v from then on.
Anew(h, c, time, g, v) ==
  /\ g \in Seq(NodeRecords) /\ Len(g) = Len(h) /\ SameBut(h, g)
  /\ \A n \in DOMAIN g : g[n].next \in (0 .. Len(g)) \union {Unset}
  /\ v \in Within(Len(g)) /\ Chained(g, v, c) /\ ToRead(v, c)
  /\ (\A i \in 1 .. Len(c) : h[c[i]].when = time[i]) => Clocked(g, c, 0)

\* A chain with other times, linked anew in the heap and made a vector.
LEMMA LinkedAnew ==
  ASSUME NEW h \in Seq(NodeRecords), NEW c \in Seq(DOMAIN h), Distinct(c), c # <<>>,
         \A n \in DOMAIN h : h[n].next \in (0 .. Len(h)) \union {Unset},
         NEW time, Timely(c, time), NEW end, end = h[Last(c)].next,
         NEW d, d = Differences(h, c, time), NEW g, g = Linked(d, c, end),
         NEW v \in [size : {Len(c)}, first : {c[1]}, last : {Last(c)}, pos : {Unset}, top : {Unset}]
  PROVE  Anew(h, c, time, g, v)
<1> DEFINE L == Len(h)
<1>0. DOMAIN h = 1 .. L /\ L \in Nat
  BY HeapIs
<1>2. Len(c) \in Nat /\ Len(c) # 0 /\ c \in Seq(1 .. L) /\ \A i \in 1 .. Len(c) : c[i] \in 1 .. L
  BY <1>0, SeqAt
<1>3. 1 \in 1 .. Len(c) /\ Len(c) \in 1 .. Len(c) /\ Last(c) = c[Len(c)]
  BY <1>2 DEF Last
<1>4. c[1] \in 1 .. L /\ Last(c) \in 1 .. L
  BY <1>2, <1>3
<1>5. end \in (0 .. L) \union {Unset}
  BY <1>0, <1>4
<1>6. end \in Nat \union {Unset}
  BY <1>0, <1>5
<1>7. /\ g \in Seq(NodeRecords) /\ Len(g) = Len(h) /\ SameBut(h, g)
      /\ \A i \in 1 .. Len(c) - 1 : g[c[i]].next = c[i + 1]
      /\ \A n \in DOMAIN h : g[n].next \in ToSet(c) \union {end, h[n].next}
  <2>1. Relinks(h, c, time, end, g)
    BY <1>6, Relinked
  <2> QED
    BY <2>1 DEF Relinks
<1>8. DOMAIN g = 1 .. L /\ Len(g) = L
  BY <1>0, <1>7 DEF SameBut
<1>9. ToSet(c) \subseteq 1 .. L
  BY <1>2, SeqAt
<1>10. \A n \in DOMAIN g : g[n].next \in (0 .. L) \union {Unset}
  <2> TAKE n \in DOMAIN g
  <2>1. n \in DOMAIN h
    BY <1>0, <1>8
  <2>2. g[n].next \in ToSet(c) \union {end, h[n].next} /\ h[n].next \in (0 .. L) \union {Unset}
    BY <1>7, <2>1
  <2>3. ToSet(c) \subseteq 0 .. L
    BY <1>0, <1>9
  <2> QED
    BY <1>5, <2>2, <2>3
<1>11. v \in Within(L)
  <2>1. Len(c) <= L
    BY <1>0, <1>2, Short
  <2> QED
    BY <1>0, <1>2, <1>4, <2>1 DEF Within, Unset
<1>12. Chained(g, v, c)
  <2>1. c \in Seq(DOMAIN g)
    BY <1>2, <1>8
  <2> QED
    BY <1>7, <2>1 DEF Chained
<1>13. ToRead(v, c)
  BY DEF ToRead, Unset
<1>14. ASSUME \A i \in 1 .. Len(c) : h[c[i]].when = time[i] PROVE Clocked(g, c, 0)
  BY <1>6, <1>14, RelinkedClock
<1> QED
  BY <1>7, <1>8, <1>10, <1>11, <1>12, <1>13, <1>14 DEF Anew

\* The result of dvector_merge, from the chains of the longer and the shorter one.
MergedInto(s, c1, c2) ==
  LET m == Merged(c1, Times(s.heap, c1), c2, Times(s.heap, c2))
      c == [i \in DOMAIN m |-> m[i].node]
  IN  [s EXCEPT
         !.heap = Linked(Differences(@, c, [i \in DOMAIN m |-> m[i].time]),
                         c, s.heap[Last(c)].next),
         !.events = [size |-> Len(c), first |-> c[1], last |-> Last(c),
                     pos |-> Unset, top |-> Unset]]

\* Which of the two is longer decides the order.
LEMMA MergeIs ==
  ASSUME NEW s, NEW e, NEW t, Chain(s.heap, s.events) = e, Chain(s.heap, s.tmp) = t,
         s.events.size \in Nat, s.tmp.size \in Nat, s.tmp.size # 0
  PROVE  \/ s.events.size = 0 /\ dvector_merge(s) = [s EXCEPT !.events = s.tmp]
         \/ s.events.size # 0 /\ dvector_merge(s) = MergedInto(s, t, e)
         \/ s.events.size # 0 /\ dvector_merge(s) = MergedInto(s, e, t)
<1> DEFINE swap == s.events.size < s.tmp.size
           v1 == IF swap THEN s.tmp ELSE s.events
           v2 == IF swap THEN s.events ELSE s.tmp
<1>1. dvector_merge(s)
        = IF v2.size = 0 THEN [s EXCEPT !.events = v1]
          ELSE MergedInto(s, Chain(s.heap, v1), Chain(s.heap, v2))
  BY DEF dvector_merge, MergedInto
<1>2. CASE swap
  <2>1. v1 = s.tmp /\ v2 = s.events
    BY <1>2
  <2> HIDE DEF v1, v2
  <2> QED
    BY <1>1, <2>1
<1>3. CASE ~swap
  <2>1. v1 = s.events /\ v2 = s.tmp /\ s.events.size # 0
    BY <1>3
  <2> HIDE DEF v1, v2
  <2> QED
    BY <1>1, <2>1
<1> QED
  BY <1>2, <1>3

\* What both users of dvector_merge do keeps the vectors sound.
LEMMA MergeSound ==
  ASSUME NEW s, NEW e, NEW t, Held(s, e, t), t = <<>> => s.tmp.last = Nil, NEW z, z = Merge(s)
  PROVE  \E c : /\ Sound(z, c, <<>>) /\ ToSet(c) = ToSet(e) \union ToSet(t)
                /\ Len(z.heap) = Len(s.heap) /\ SameBut(s.heap, z.heap)
                /\ z.noteblock = s.noteblock /\ z.delay = s.delay /\ z.crashed = s.crashed
                /\ z.asked = s.asked \union ToSet(t)
                /\ t = <<>> => z = s /\ c = e
                /\ Clocked(s.heap, e, 0) /\ Clocked(s.heap, t, 0) => Clocked(z.heap, c, 0)
<1> DEFINE h == s.heap
           L == Len(h)
           w == Emptied(s.tmp)
           a == s.asked \union ToSet(t)
<1>1. /\ h \in Seq(NodeRecords) /\ DOMAIN h = 1 .. L /\ L \in Nat
      /\ e \in Seq(DOMAIN h) /\ t \in Seq(DOMAIN h)
      /\ Len(e) = s.events.size /\ Len(t) = s.tmp.size
      /\ \A n \in DOMAIN h : h[n].next \in (0 .. L) \union {Unset}
      /\ Chain(h, s.events) = e /\ Chain(h, s.tmp) = t
      /\ Distinct(e) /\ Distinct(t) /\ Apart(e, t)
  BY HeldIs
<1>2. /\ Len(e) \in Nat /\ Len(t) \in Nat /\ (e = <<>> <=> Len(e) = 0) /\ (t = <<>> <=> Len(t) = 0)
  BY <1>1, SeqAt
<1>3. s \in States /\ SameBut(h, h)
  BY DEF Held, SameBut
<1>4. CASE t = <<>>
  <2>1. z = s
    BY <1>1, <1>2, <1>4 DEF Merge
  <2>2. Sound(z, e, <<>>)
    BY <1>4, <2>1 DEF Sound
  <2>3. ToSet(t) = {}
    BY <1>4 DEF ToSet
  <2> QED
    BY <1>3, <1>4, <2>1, <2>2, <2>3
<1>5. CASE t # <<>>
  <2> DEFINE y == dvector_merge(s)
  <2>1. z = [y EXCEPT !.tmp = Emptied(@), !.asked = @ \union ToSet(t)]
    BY <1>1, <1>2, <1>5 DEF Merge
  <2>2. ASSUME NEW g, NEW v, y = [s EXCEPT !.heap = g, !.events = v]
        PROVE  z = Replaced(s, g, v, w, a)
    <3> HIDE DEF y
    <3>1. y.tmp = s.tmp /\ y.asked = s.asked
      BY <1>3, <2>2 DEF States
    <3>2. z = [y EXCEPT !.tmp = w, !.asked = a]
      BY <2>1, <3>1
    <3> HIDE DEF w, a
    <3> QED
      BY <1>3, <2>2, <3>2 DEF States, Replaced
  <2> HIDE DEF y
  <2>3. CASE e = <<>>
    <3>1. y = [s EXCEPT !.events = s.tmp]
      BY <1>1, <1>2, <1>5, <2>3, MergeIs DEF y
    <3>2. y = [s EXCEPT !.heap = h, !.events = s.tmp]
      BY <1>3, <3>1 DEF States
    <3>3. z = Replaced(s, h, s.tmp, w, a)
      BY <2>2, <3>2
    <3>4. /\ s.tmp \in Within(L) /\ Chained(h, s.tmp, t) /\ ToRead(s.tmp, t)
      BY DEF Held, ToRead
    <3> HIDE DEF w, a, h
    <3>5. /\ Sound(z, t, <<>>) /\ z.heap = h /\ z.noteblock = s.noteblock /\ z.delay = s.delay
          /\ z.asked = a /\ z.crashed = s.crashed
      <4>1. /\ h \in Seq(NodeRecords) /\ Len(h) = Len(s.heap)
            /\ \A n \in DOMAIN h : h[n].next \in (0 .. Len(h)) \union {Unset}
            /\ s.tmp \in Within(Len(h)) /\ Distinct(t)
            /\ w = Emptied(s.tmp) /\ a = s.asked \union ToSet(t)
        BY <1>1, <3>4 DEF w, a, h
      <4>2. Renewed(s, h, t, a, z)
        BY <3>3, <3>4, <4>1, Exchanged
      <4> QED
        BY <4>2 DEF Renewed
    <3>6. ToSet(e) = {}
      BY <2>3 DEF ToSet
    <3> QED
      BY <1>3, <1>5, <3>5, <3>6 DEF h, a
  <2>4. CASE e # <<>>
    <3>a. \E c1, c2 : ((c1 = t /\ c2 = e) \/ (c1 = e /\ c2 = t)) /\ y = MergedInto(s, c1, c2)
      <4>1. /\ Chain(s.heap, s.events) = e /\ Chain(s.heap, s.tmp) = t
            /\ s.events.size \in Nat /\ s.tmp.size \in Nat /\ s.tmp.size # 0 /\ s.events.size # 0
        BY <1>1, <1>2, <1>5, <2>4
      <4>2. dvector_merge(s) = MergedInto(s, t, e) \/ dvector_merge(s) = MergedInto(s, e, t)
        BY <4>1, MergeIs
      <4>3. y = MergedInto(s, t, e) \/ y = MergedInto(s, e, t)
        BY <4>2 DEF y
      <4>4. CASE y = MergedInto(s, t, e)
        BY <4>4
      <4>5. CASE y = MergedInto(s, e, t)
        BY <4>5
      <4> QED
        BY <4>3, <4>4, <4>5
    <3>b. PICK c1, c2 : ((c1 = t /\ c2 = e) \/ (c1 = e /\ c2 = t)) /\ y = MergedInto(s, c1, c2)
      BY <3>a
    <3> DEFINE m == Merged(c1, Times(h, c1), c2, Times(h, c2))
               c == [i \in DOMAIN m |-> m[i].node]
               time == [i \in DOMAIN m |-> m[i].time]
               end == h[Last(c)].next
               d == Differences(h, c, time)
               g == Linked(d, c, end)
               v == [size |-> Len(c), first |-> c[1], last |-> Last(c), pos |-> Unset, top |-> Unset]
    <3>1. y = [s EXCEPT !.heap = g, !.events = v]
      BY <3>b DEF MergedInto
    <3>2. /\ m = Merged(c1, Times(h, c1), c2, Times(h, c2))
          /\ c = [i \in DOMAIN m |-> m[i].node] /\ time = [i \in DOMAIN m |-> m[i].time]
          /\ end = h[Last(c)].next /\ d = Differences(h, c, time) /\ g = Linked(d, c, end)
          /\ v = [size |-> Len(c), first |-> c[1], last |-> Last(c), pos |-> Unset, top |-> Unset]
      OBVIOUS
    <3>3. /\ c1 \in Seq(DOMAIN h) /\ c2 \in Seq(DOMAIN h) /\ Distinct(c1) /\ Distinct(c2)
          /\ Apart(c1, c2) /\ Len(c1) \in Nat /\ Len(c2) \in Nat /\ Len(c1) # 0
          /\ ToSet(c1) \union ToSet(c2) = ToSet(e) \union ToSet(t)
          /\ Clocked(h, e, 0) /\ Clocked(h, t, 0) => Clocked(h, c1, 0) /\ Clocked(h, c2, 0)
      <4>1. CASE c1 = t /\ c2 = e
        BY <1>1, <1>2, <1>5, <4>1 DEF Apart
      <4>2. CASE c1 = e /\ c2 = t
        BY <1>1, <1>2, <2>4, <4>2 DEF Apart
      <4> QED
        BY <3>b, <4>1, <4>2
    <3> HIDE DEF h, L, w, a, m, c, time, end, d, g, v
    <3>4. /\ c \in Seq(DOMAIN h) /\ Len(c) = Len(c1) + Len(c2) /\ Distinct(c)
          /\ ToSet(c) = ToSet(c1) \union ToSet(c2)
          /\ Timely(c, time)
          /\ Clocked(h, c1, 0) /\ Clocked(h, c2, 0) => \A i \in 1 .. Len(c) : h[c[i]].when = time[i]
      <4>1. h \in Seq(NodeRecords)
        BY <1>1
      <4>2. m = Merged(c1, Times(h, c1), c2, Times(h, c2))
        BY <3>2
      <4>3. c = [i \in DOMAIN m |-> m[i].node] /\ time = [i \in DOMAIN m |-> m[i].time]
        BY <3>2
      <4>4. c1 \in Seq(DOMAIN h) /\ c2 \in Seq(DOMAIN h) /\ Distinct(c1) /\ Distinct(c2) /\ Apart(c1, c2)
        BY <3>3
      <4>5. MadeOf(h, c1, c2, c, time)
        BY <4>1, <4>2, <4>3, <4>4, MergedChain
      <4> QED
        BY <4>5 DEF MadeOf
    <3>5. v \in [size : {Len(c)}, first : {c[1]}, last : {Last(c)}, pos : {Unset}, top : {Unset}]
      BY <3>2
    <3>6. c # <<>>
      BY <3>3, <3>4, SeqAt
    <3>7. /\ g \in Seq(NodeRecords) /\ Len(g) = Len(h) /\ SameBut(h, g)
          /\ \A n \in DOMAIN g : g[n].next \in (0 .. Len(g)) \union {Unset}
          /\ v \in Within(Len(g)) /\ Chained(g, v, c) /\ ToRead(v, c)
          /\ (\A i \in 1 .. Len(c) : h[c[i]].when = time[i]) => Clocked(g, c, 0)
      <4>1. h \in Seq(NodeRecords) /\ \A n \in DOMAIN h : h[n].next \in (0 .. Len(h)) \union {Unset}
        BY <1>1 DEF L
      <4>2. c \in Seq(DOMAIN h) /\ Distinct(c) /\ Timely(c, time)
        BY <3>4
      <4>3. end = h[Last(c)].next /\ d = Differences(h, c, time) /\ g = Linked(d, c, end)
        BY <3>2
      <4>4. Anew(h, c, time, g, v)
        BY <3>5, <3>6, <4>1, <4>2, <4>3, LinkedAnew
      <4> QED
        BY <4>4 DEF Anew
    <3>8. z = Replaced(s, g, v, w, a)
      BY <2>2, <3>1
    <3>9. /\ Sound(z, c, <<>>) /\ z.heap = g /\ z.noteblock = s.noteblock /\ z.delay = s.delay
          /\ z.asked = a /\ z.crashed = s.crashed
      <4>1. Len(g) = Len(s.heap) /\ Distinct(c) /\ w = Emptied(s.tmp) /\ a = s.asked \union ToSet(t)
        BY <3>4, <3>7 DEF h, w, a
      <4>2. Renewed(s, g, c, a, z)
        BY <3>7, <3>8, <4>1, Exchanged
      <4> QED
        BY <4>2 DEF Renewed
    <3> QED
      BY <1>5, <3>3, <3>4, <3>7, <3>9 DEF h, a
  <2> QED
    BY <2>3, <2>4
<1> QED
  BY <1>4, <1>5

\* What the end of a noteblock does between sorting and merging.
Deltas(s) == [s EXCEPT !.heap = dvector_time_to_delta(@, s.tmp), !.noteblock = FALSE]

\* What z is when the times of tmp have become differences.
Counted(s, e, t, z) ==
  /\ Held(z, e, t)
  /\ Len(z.heap) = Len(s.heap) /\ SameBut(s.heap, z.heap)
  /\ z.events = s.events /\ z.tmp = s.tmp /\ z.noteblock = FALSE /\ z.delay = s.delay
  /\ z.asked = s.asked /\ z.crashed = s.crashed
  /\ Clocked(s.heap, e, 0) => Clocked(z.heap, e, 0)
  /\ (\A i \in 1 .. Len(t) : s.heap[t[i]].when = s.heap[t[i]].delta) => Clocked(z.heap, t, 0)

\* The times of tmp, which is sorted, become differences.
LEMMA DeltaSound ==
  ASSUME NEW s, NEW e, NEW t, Held(s, e, t), Increasing(s.heap, t),
         NEW z, z = Deltas(s)
  PROVE  Counted(s, e, t, z)
<1> DEFINE h == s.heap
           L == Len(h)
           time == [i \in DOMAIN t |-> h[t[i]].delta]
           g == Differences(h, t, time)
<1>1. /\ h \in Seq(NodeRecords) /\ DOMAIN h = 1 .. L /\ L \in Nat
      /\ e \in Seq(DOMAIN h) /\ t \in Seq(DOMAIN h)
      /\ \A n \in DOMAIN h : h[n].next \in (0 .. L) \union {Unset}
      /\ Chain(h, s.tmp) = t
      /\ Distinct(e) /\ Distinct(t) /\ Apart(e, t)
  BY HeldIs
<1>2. z = [s EXCEPT !.heap = g, !.noteblock = FALSE]
  BY <1>1 DEF dvector_time_to_delta, Deltas
<1>3. /\ s \in States /\ s.events \in Within(L) /\ s.tmp \in Within(L) /\ s.asked \subseteq 1 .. L
      /\ s.tmp.pos = 0 /\ s.tmp.top = Nil /\ ToRead(s.events, e)
      /\ Chained(h, s.events, e) /\ Chained(h, s.tmp, t)
  BY <1>1 DEF Held
<1>4. /\ Len(t) \in Nat /\ DOMAIN t = 1 .. Len(t) /\ \A i \in 1 .. Len(t) : t[i] \in DOMAIN h
  BY <1>1, SeqAt
<1>5. \A i \in 1 .. Len(t) : time[i] = h[t[i]].delta /\ time[i] \in Nat
  BY <1>1, <1>4, HeapIs
<1> HIDE DEF time
<1>6. Timely(t, time)
  <2>1. \A i \in 1 .. Len(t) - 1 : time[i] <= time[i + 1]
    <3> TAKE i \in 1 .. Len(t) - 1
    <3>1. i \in 1 .. Len(t) /\ i + 1 \in 1 .. Len(t) /\ i <= i + 1
      BY <1>4
    <3> QED
      BY <1>5, <3>1 DEF Increasing
  <2> QED
    BY <1>5, <2>1 DEF Timely
<1>7. /\ g \in Seq(NodeRecords) /\ SameBut(h, g) /\ Len(g) = Len(h)
      /\ \A n \in DOMAIN h : g[n].next = h[n].next
      /\ \A n \in DOMAIN h : n \notin ToSet(t) => g[n] = h[n]
      /\ \A i \in 1 .. Len(t) : g[t[i]].delta = Since(time, i)
  <2>1. g = Differences(h, t, time) /\ h \in Seq(NodeRecords) /\ t \in Seq(DOMAIN h) /\ Distinct(t)
    BY <1>1
  <2> HIDE DEF g, h
  <2> QED
    BY <1>6, <2>1, DifferencesIs
<1> HIDE DEF g, h
<1>8. DOMAIN g = DOMAIN h /\ DOMAIN g = 1 .. L
  BY <1>1, <1>7 DEF SameBut
<1>9. /\ z.heap = g /\ z.events = s.events /\ z.tmp = s.tmp /\ z.noteblock = FALSE
      /\ z.delay = s.delay /\ z.asked = s.asked /\ z.crashed = s.crashed
      /\ z = [heap |-> g, events |-> s.events, tmp |-> s.tmp, noteblock |-> FALSE,
              delay |-> s.delay, asked |-> s.asked, crashed |-> s.crashed]
  BY <1>2, <1>3 DEF States
<1>10. z \in States
  BY <1>3, <1>7, <1>9 DEF States
<1>11. Chained(g, s.events, e) /\ (Clocked(h, e, 0) => Clocked(g, e, 0))
  <2>1. Chained(h, s.events, e) /\ DOMAIN g = DOMAIN h /\ Apart(e, t) /\ t \in Seq(DOMAIN h)
    BY <1>1, <1>3, <1>8
  <2>2. \A n \in DOMAIN h : n \notin ToSet(t) => g[n] = h[n]
    BY <1>7
  <2> QED
    BY <2>1, <2>2, ChainedApart, ZenonT(30)
<1>12. Chained(g, s.tmp, t)
  <2>1. \A i \in 1 .. Len(t) - 1 : g[t[i]].next = h[t[i]].next
    <3> TAKE i \in 1 .. Len(t) - 1
    <3>1. i \in 1 .. Len(t)
      BY <1>4
    <3> QED
      BY <1>4, <1>7, <3>1
  <2> QED
    BY <1>3, <1>8, <2>1, ChainedStays
<1>13. Held(z, e, t)
  BY <1>1, <1>3, <1>7, <1>8, <1>9, <1>10, <1>11, <1>12 DEF Held
<1>14. ASSUME \A i \in 1 .. Len(t) : h[t[i]].when = h[t[i]].delta PROVE Clocked(g, t, 0)
  <2>1. \A i \in 1 .. Len(t) : g[t[i]].when = time[i] /\ g[t[i]].delta = Since(time, i)
    BY <1>4, <1>5, <1>7, <1>14 DEF SameBut
  <2> QED
    BY <1>4, <1>5, <2>1, CountedFrom
<1> QED
  BY <1>7, <1>9, <1>11, <1>13, <1>14 DEF h, Counted

\* What the end of a noteblock leaves.
Ended(s, e, t, z, c, u) ==
  /\ Sound(z, c, u)
  /\ Len(z.heap) = Len(s.heap) /\ SameBut(s.heap, z.heap) /\ z.delay = s.delay
  /\ \/ z.crashed /\ z.asked = s.asked
     \/ ~s.noteblock /\ z = s
     \/ /\ u = <<>> /\ ToSet(c) = ToSet(e) \union ToSet(t)
        /\ z.asked = s.asked \union ToSet(t) /\ ~z.noteblock /\ ~z.crashed
        /\ Clocked(s.heap, e, 0) /\ (\A i \in 1 .. Len(t) : s.heap[t[i]].when = s.heap[t[i]].delta)
             => Clocked(z.heap, c, 0)

\* The end of a noteblock keeps the vectors sound.
LEMMA EndSound ==
  ASSUME NEW s, NEW e, NEW t, Sound(s, e, t), ~s.crashed, NEW z, z = scm_noteblock_end(s)
  PROVE  \E c, u : Ended(s, e, t, z, c, u)
<1> DEFINE y == dvector_time_sort(s)
           x == Deltas(y)
<1>1. z = IF ~s.noteblock THEN s ELSE IF y.crashed THEN y ELSE Merge(x)
  BY DEF scm_noteblock_end, Deltas
<1>2. Held(s, e, t) /\ s \in States /\ SameBut(s.heap, s.heap)
  BY DEF Sound, Held, SameBut
<1>3. y = dvector_time_sort(s)
  OBVIOUS
<1>x. x = Deltas(y)
  OBVIOUS
<1> HIDE DEF x, y
<1>4. CASE ~s.noteblock
  <2>1. z = s
    BY <1>1, <1>4
  <2>2. Ended(s, e, t, z, e, t)
    BY <1>2, <1>4, <2>1 DEF Ended
  <2> QED
    BY <2>2
<1>5. CASE y = [s EXCEPT !.crashed = TRUE] /\ s.noteblock
  <2>1. y.crashed /\ z = y
    BY <1>1, <1>2, <1>5 DEF States
  <2>2. /\ y.heap = s.heap /\ y.events = s.events /\ y.tmp = s.tmp /\ y.asked = s.asked
        /\ y.delay = s.delay /\ y \in States
    BY <1>2, <1>5 DEF States
  <2>3. Sound(y, e, t)
    BY <2>2 DEF Sound, Held
  <2>4. Ended(s, e, t, z, e, t)
    BY <1>2, <2>1, <2>2, <2>3 DEF Ended
  <2> QED
    BY <2>4
<1> DEFINE Plain == \A i \in 1 .. Len(t) : s.heap[t[i]].when = s.heap[t[i]].delta
           Fits(v) ==
             /\ Held(y, e, v) /\ Increasing(y.heap, v) /\ ToSet(v) = ToSet(t)
             /\ v = <<>> => y.tmp.last = Nil
             /\ Len(y.heap) = Len(s.heap) /\ SameBut(s.heap, y.heap)
             /\ y.asked = s.asked /\ y.delay = s.delay /\ y.crashed = s.crashed
             /\ Clocked(s.heap, e, 0) => Clocked(y.heap, e, 0)
             /\ Plain => \A i \in 1 .. Len(v) : y.heap[v[i]].when = y.heap[v[i]].delta
<1>6. ASSUME NEW v, Fits(v), s.noteblock PROVE \E c, u : Ended(s, e, t, z, c, u)
  <2>1. z = Merge(x)
    BY <1>1, <1>6
  <2>2. /\ Held(x, e, v)
        /\ Len(x.heap) = Len(y.heap) /\ SameBut(y.heap, x.heap)
        /\ x.events = y.events /\ x.tmp = y.tmp /\ x.noteblock = FALSE /\ x.delay = y.delay
        /\ x.asked = y.asked /\ x.crashed = y.crashed
        /\ Clocked(y.heap, e, 0) => Clocked(x.heap, e, 0)
        /\ (\A i \in 1 .. Len(v) : y.heap[v[i]].when = y.heap[v[i]].delta) => Clocked(x.heap, v, 0)
    <3>1. Counted(y, e, v, x)
      BY <1>6, <1>x, DeltaSound
    <3> QED
      BY <3>1 DEF Counted
  <2>3. v = <<>> => x.tmp.last = Nil
    BY <1>6, <2>2
  <2>4. PICK c : /\ Sound(z, c, <<>>) /\ ToSet(c) = ToSet(e) \union ToSet(v)
                 /\ Len(z.heap) = Len(x.heap) /\ SameBut(x.heap, z.heap)
                 /\ z.noteblock = x.noteblock /\ z.delay = x.delay /\ z.crashed = x.crashed
                 /\ z.asked = x.asked \union ToSet(v)
                 /\ Clocked(x.heap, e, 0) /\ Clocked(x.heap, v, 0) => Clocked(z.heap, c, 0)
    BY <2>1, <2>2, <2>3, MergeSound
  <2>5. SameBut(s.heap, z.heap)
    BY <1>6, <2>2, <2>4 DEF SameBut
  <2>6. Clocked(s.heap, e, 0) /\ Plain => Clocked(z.heap, c, 0)
    BY <1>6, <2>2, <2>4
  <2>7. Ended(s, e, t, z, c, <<>>)
    BY <1>6, <2>2, <2>4, <2>5, <2>6 DEF Ended
  <2> QED
    BY <2>7
<1>7. CASE y = s /\ t = <<>> /\ s.noteblock
  <2>1. Increasing(y.heap, t) /\ y.tmp.last = Nil
    BY <1>7 DEF Increasing, Sound
  <2>2. Fits(t)
    BY <1>2, <1>7, <2>1
  <2> QED
    BY <1>6, <1>7, <2>2
<1>8. ASSUME NEW u, t # <<>>, Held(y, e, u), ToSet(u) = ToSet(t), Len(u) = Len(t),
             Increasing(y.heap, u),
             Len(y.heap) = Len(s.heap), SameBut(s.heap, y.heap),
             \A n \in DOMAIN s.heap : n \notin ToSet(t) => y.heap[n] = s.heap[n],
             \A n \in DOMAIN s.heap : y.heap[n].delta = s.heap[n].delta,
             y.events = s.events, y.noteblock = s.noteblock, y.delay = s.delay,
             y.asked = s.asked, y.crashed = s.crashed, s.noteblock
      PROVE  \E c, w : Ended(s, e, t, z, c, w)
  <2>1. /\ e \in Seq(DOMAIN s.heap) /\ t \in Seq(DOMAIN s.heap) /\ Apart(e, t)
        /\ Chained(s.heap, s.events, e) /\ u \in Seq(DOMAIN y.heap) /\ DOMAIN y.heap = DOMAIN s.heap
    <3>1. e \in Seq(DOMAIN s.heap) /\ t \in Seq(DOMAIN s.heap) /\ Apart(e, t)
      BY <1>2, HeldIs
    <3>2. u \in Seq(DOMAIN y.heap)
      BY <1>8, HeldIs
    <3> QED
      BY <1>2, <1>8, <3>1, <3>2 DEF Held, SameBut
  <2>2. u # <<>>
    <3>1. Len(t) # 0
      BY <1>8, <2>1, SeqAt
    <3> QED
      BY <1>8, <3>1
  <2>3. Clocked(s.heap, e, 0) => Clocked(y.heap, e, 0)
    BY <1>8, <2>1, ChainedApart
  <2>4. ASSUME Plain, NEW i \in 1 .. Len(u) PROVE y.heap[u[i]].when = y.heap[u[i]].delta
    <3>1. u[i] \in ToSet(t)
      BY <1>8, <2>1, SeqAt
    <3>2. PICK j \in 1 .. Len(t) : u[i] = t[j]
      BY <2>1, <3>1, SeqAt
    <3>3. t[j] \in DOMAIN s.heap
      BY <2>1, <3>2, SeqAt
    <3> QED
      BY <1>8, <2>4, <3>2, <3>3 DEF SameBut
  <2>5. Fits(u)
    BY <1>8, <2>2, <2>3, <2>4
  <2> QED
    BY <1>6, <1>8, <2>5
<1>9. \/ y = s /\ t = <<>>
      \/ y = [s EXCEPT !.crashed = TRUE]
      \/ \E u : /\ t # <<>> /\ Held(y, e, u) /\ ToSet(u) = ToSet(t) /\ Len(u) = Len(t)
                /\ Increasing(y.heap, u)
                /\ Len(y.heap) = Len(s.heap) /\ SameBut(s.heap, y.heap)
                /\ \A n \in DOMAIN s.heap : n \notin ToSet(t) => y.heap[n] = s.heap[n]
                /\ \A n \in DOMAIN s.heap : y.heap[n].delta = s.heap[n].delta
                /\ y.events = s.events /\ y.noteblock = s.noteblock /\ y.delay = s.delay
                /\ y.asked = s.asked /\ y.crashed = s.crashed
  BY <1>2, <1>3, SortSound
<1> HIDE DEF Fits, Plain
<1> QED
  BY <1>4, <1>5, <1>7, <1>8, <1>9

---------------------------------------------------------------------------
(* The calls of scheme code.                                               *)

\* What z is when an event was created, which is to happen at start.
Created(s, e, t, start, func, z) ==
  LET n == Len(s.heap) + 1
  IN  /\ Sound(z, e, Append(t, n))
      /\ z.events = s.events /\ z.noteblock = s.noteblock /\ z.delay = s.delay
      /\ z.asked = s.asked /\ z.crashed = s.crashed
      /\ Len(z.heap) = n /\ z.heap[n].when = clock + start /\ z.heap[n].delta = start
      /\ z.heap[n].func = func
      /\ \A x \in DOMAIN s.heap : /\ z.heap[x].when = s.heap[x].when
                                  /\ z.heap[x].delta = s.heap[x].delta
                                  /\ z.heap[x].func = s.heap[x].func

\* The next note of scheme code, or its next metanote.
LEMMA CreateSound ==
  ASSUME NEW s, NEW e, NEW t, Sound(s, e, t), NEW start \in Nat, NEW garbage \in {Nil, Unset},
         NEW func \in DOMAIN Body \union {"none"}, clock \in Nat,
         NEW z, z = Create(s, start, func, garbage)
  PROVE  Created(s, e, t, start, func, z)
<1> DEFINE r == [delta |-> start, next |-> garbage, nargs |-> garbage, func |-> func,
                 when |-> clock + start]
           n == Len(s.heap) + 1
           u == Append(t, n)
<1>1. /\ r \in NodeRecords /\ r.next \in {Nil, Unset}
      /\ r.when = clock + start /\ r.delta = start /\ r.func = func
  BY DEF NodeRecords, Nil
<1>2. z = dvector_append_value(Extended(s, r), n)
  BY DEF Create, Extended
<1>3. n = Len(s.heap) + 1 /\ u = Append(t, n)
  OBVIOUS
<1> HIDE DEF r, n, u
<1>4. Longer(s, e, u, r, n, z)
  BY <1>1, <1>2, <1>3, Appended
<1> QED
  BY <1>1, <1>3, <1>4 DEF Longer, Created

\* A vector that was emptied.
LEMMA EmptiedIs ==
  ASSUME NEW v \in Vector
  PROVE  Emptied(v) = [size |-> 0, first |-> Nil, last |-> Nil, pos |-> v.pos, top |-> v.top]
<1>1. ASSUME NEW y, y = Emptied(v)
      PROVE  /\ y.size = 0 /\ y.first = Nil /\ y.last = Nil /\ y.pos = v.pos /\ y.top = v.top
             /\ y = [size |-> y.size, first |-> y.first, last |-> y.last, pos |-> y.pos, top |-> y.top]
  <2>1. y.size = 0 /\ y.first = Nil /\ y.last = Nil /\ y.pos = v.pos /\ y.top = v.top
    BY <1>1 DEF Emptied, Vector
  <2>2. y = [size |-> y.size, first |-> y.first, last |-> y.last, pos |-> y.pos, top |-> y.top]
    BY <1>1 DEF Emptied, Vector
  <2> QED
    BY <2>1, <2>2
<1>2. ASSUME NEW y, y = Emptied(v)
      PROVE  y = [size |-> 0, first |-> Nil, last |-> Nil, pos |-> v.pos, top |-> v.top]
  BY <1>1, <1>2
<1> QED
  BY <1>2

\* The begin of a noteblock empties tmp.
LEMMA BeginSound ==
  ASSUME NEW s, NEW e, NEW t, Sound(s, e, t), NEW z, z = scm_noteblock_begin(s)
  PROVE  /\ Sound(z, e, <<>>) /\ z.noteblock
         /\ z.heap = s.heap /\ z.events = s.events /\ z.delay = s.delay
         /\ z.asked = s.asked /\ z.crashed = s.crashed
<1> DEFINE w == Emptied(s.tmp)
<1>1. s \in States /\ s.tmp \in Vector /\ s.tmp.pos = 0 /\ s.tmp.top = Nil /\ Held(s, e, t)
  BY DEF Sound, Held, States
<1>2. w = [size |-> 0, first |-> 0, last |-> 0, pos |-> 0, top |-> 0]
  BY <1>1, EmptiedIs DEF Nil
<1>3. /\ z.heap = s.heap /\ z.events = s.events /\ z.tmp = w /\ z.noteblock = TRUE
      /\ z.delay = s.delay /\ z.asked = s.asked /\ z.crashed = s.crashed
      /\ z = [heap |-> s.heap, events |-> s.events, tmp |-> w, noteblock |-> TRUE,
              delay |-> s.delay, asked |-> s.asked, crashed |-> s.crashed]
  BY <1>1 DEF scm_noteblock_begin, States
<1> HIDE DEF w
<1>4. Len(s.heap) \in Nat
  BY <1>1, HeldIs
<1>5. w \in Vector /\ w \in Within(Len(s.heap)) /\ w.pos = 0 /\ w.top = Nil /\ w.size = 0 /\ w.last = Nil
  BY <1>2, <1>4 DEF Vector, Within, Nil
<1>6. z \in States
  BY <1>1, <1>3, <1>5 DEF States
<1>7. Chained(s.heap, w, <<>>) /\ Distinct(<<>>) /\ Apart(e, <<>>)
  BY <1>5 DEF Chained, Distinct, Apart
<1>8. Held(z, e, <<>>)
  BY <1>1, <1>3, <1>5, <1>6, <1>7 DEF Held
<1> QED
  BY <1>3, <1>5, <1>8 DEF Sound

\* What has been collected in events is thrown away.
LEMMA ClearSound ==
  ASSUME NEW s, NEW e, NEW t, Sound(s, e, t), NEW z, z = scm_clear_events(s)
  PROVE  /\ Sound(z, <<>>, t)
         /\ z.heap = s.heap /\ z.tmp = s.tmp /\ z.noteblock = s.noteblock /\ z.delay = s.delay
         /\ z.asked = {} /\ (e = <<>> => ~z.crashed)
<1> DEFINE b == \E n \in ToSet(Chain(s.heap, s.events)) : s.heap[n].nargs = Unset
           v == [Emptied(s.events) EXCEPT !.top = Unset]
<1>1. /\ s \in States /\ s.events \in Vector /\ Held(s, e, t) /\ s.events \in Within(Len(s.heap))
      /\ Chain(s.heap, s.events) = e /\ t \in Seq(DOMAIN s.heap)
  BY HeldIs DEF Sound, Held, States
<1>2. v = [size |-> 0, first |-> 0, last |-> 0, pos |-> s.events.pos, top |-> Unset]
  BY <1>1, EmptiedIs DEF Nil
<1> HIDE DEF v
<1>3. b \in BOOLEAN /\ (e = <<>> => ~b)
  BY <1>1 DEF ToSet
<1>4. z = [[s EXCEPT !.crashed = b] EXCEPT !.events = v, !.asked = {}]
  <2>1. [s EXCEPT !.crashed = b].events = s.events
    BY <1>1 DEF States
  <2> QED
    BY <2>1 DEF scm_clear_events, dvector_free, v
<1> HIDE DEF b
<1>5. /\ z.heap = s.heap /\ z.events = v /\ z.tmp = s.tmp /\ z.noteblock = s.noteblock
      /\ z.delay = s.delay /\ z.asked = {} /\ z.crashed = b
      /\ z = [heap |-> s.heap, events |-> v, tmp |-> s.tmp, noteblock |-> s.noteblock,
              delay |-> s.delay, asked |-> {}, crashed |-> b]
  BY <1>1, <1>4 DEF States
<1>6. Len(s.heap) \in Nat
  BY <1>1, HeldIs
<1>7. v \in Vector /\ v \in Within(Len(s.heap)) /\ v.size = 0 /\ v.top = Unset
  BY <1>1, <1>2, <1>6 DEF Vector, Within, Unset
<1>8. z \in States
  BY <1>1, <1>3, <1>5, <1>7 DEF States
<1>9. /\ Chained(s.heap, v, <<>>) /\ Distinct(<<>>) /\ Apart(<<>>, t) /\ ToRead(v, <<>>)
  BY <1>7 DEF Chained, Distinct, Apart, ToRead
<1>10. Held(z, <<>>, t)
  BY <1>1, <1>5, <1>7, <1>8, <1>9 DEF Held
<1> QED
  BY <1>3, <1>5, <1>10 DEF Sound

\* A delay changes nothing else.
LEMMA DelaySound ==
  ASSUME NEW s, NEW e, NEW t, Sound(s, e, t), NEW d \in Nat, NEW z, z = [s EXCEPT !.delay = d]
  PROVE  /\ Sound(z, e, t) /\ z.delay = d
         /\ z.heap = s.heap /\ z.events = s.events /\ z.tmp = s.tmp /\ z.noteblock = s.noteblock
         /\ z.asked = s.asked /\ z.crashed = s.crashed
<1>1. s \in States
  BY DEF Sound, Held
<1>2. /\ z.heap = s.heap /\ z.events = s.events /\ z.tmp = s.tmp /\ z.noteblock = s.noteblock
      /\ z.delay = d /\ z.asked = s.asked /\ z.crashed = s.crashed /\ z \in States
  BY <1>1 DEF States
<1> QED
  BY <1>2 DEF Sound, Held

\* What every call keeps: the vectors hold something, and no node goes away.
Keeps(s, z) ==
  /\ \E e, t : Sound(z, e, t)
  /\ DOMAIN s.heap \subseteq DOMAIN z.heap

\* A call of scheme code keeps the vectors sound.
LEMMA CallSound ==
  ASSUME NEW s, NEW e, NEW t, Sound(s, e, t), ~s.crashed, NEW call \in Calls, NEW garbage \in {Nil, Unset},
         clock \in Nat, NEW z, z = Call(s, call, garbage)
  PROVE  Keeps(s, z)
<1>1. s.delay \in Nat /\ s.heap \in Seq(NodeRecords) /\ s \in States
  BY DEF Sound, Held, States
<1>2. DOMAIN s.heap = 1 .. Len(s.heap) /\ Len(s.heap) \in Nat
  BY <1>1, HeapIs
<1>3. /\ call.op \in {"note", "metanote", "begin", "end", "clear", "delay", "add"}
      /\ call.op \in {"note", "metanote", "delay", "add"} => call.at \in Nat
      /\ call.op = "metanote" => call.func \in DOMAIN Body
  BY DEF Calls
<1>4. ASSUME NEW start, NEW func, Created(s, e, t, start, func, z) PROVE Keeps(s, z)
  <2> DEFINE n == Len(s.heap) + 1
             u == Append(t, n)
  <2>0. Sound(z, e, u) /\ Len(z.heap) = n
    BY <1>4 DEF Created
  <2> HIDE DEF u
  <2>1. z.heap \in Seq(NodeRecords)
    BY <2>0 DEF Sound, Held, States
  <2>2. DOMAIN z.heap = 1 .. n
    BY <2>0, <2>1, HeapIs
  <2>3. DOMAIN s.heap \subseteq DOMAIN z.heap
    BY <1>2, <2>2
  <2> QED
    BY <2>0, <2>3 DEF Keeps
<1>5. CASE call.op = "note"
  <2> DEFINE a == call.at + s.delay
             f == "none"
  <2>1. z = Create(s, a, f, Nil) /\ f \in DOMAIN Body \union {"none"} /\ Nil \in {Nil, Unset}
    BY <1>5 DEF Call, scm_note
  <2>2. a \in Nat
    BY <1>1, <1>3, <1>5
  <2> HIDE DEF a, f
  <2>3. Created(s, e, t, a, f, z)
    BY <2>1, <2>2, CreateSound
  <2> QED
    BY <1>4, <2>3
<1>6. CASE call.op = "metanote"
  <2> DEFINE a == call.at
             f == call.func
  <2>1. z = Create(s, a, f, garbage)
    BY <1>6 DEF Call, scm_metanote
  <2>2. a \in Nat /\ f \in DOMAIN Body \union {"none"}
    BY <1>3, <1>6
  <2> HIDE DEF a, f
  <2>3. Created(s, e, t, a, f, z)
    BY <2>1, <2>2, CreateSound
  <2> QED
    BY <1>4, <2>3
<1>7. CASE call.op = "begin"
  <2>1. z = scm_noteblock_begin(s)
    BY <1>7 DEF Call
  <2> QED
    BY <2>1, BeginSound DEF Keeps
<1>8. CASE call.op = "end"
  <2>1. z = scm_noteblock_end(s)
    BY <1>8 DEF Call
  <2>2. PICK c, u : Ended(s, e, t, z, c, u)
    BY <2>1, EndSound
  <2> QED
    BY <2>2 DEF Ended, Keeps, SameBut
<1>9. CASE call.op = "clear"
  <2>1. z = scm_clear_events(s)
    BY <1>9 DEF Call
  <2> QED
    BY <2>1, ClearSound DEF Keeps
<1>10. CASE call.op = "delay"
  <2>1. z = [s EXCEPT !.delay = call.at] /\ call.at \in Nat
    BY <1>3, <1>10 DEF Call
  <2> QED
    BY <2>1, DelaySound DEF Keeps
<1>11. CASE call.op = "add"
  <2>1. z = [s EXCEPT !.delay = s.delay + call.at] /\ s.delay + call.at \in Nat
    BY <1>1, <1>3, <1>11 DEF Call
  <2> DEFINE d == s.delay + call.at
  <2> HIDE DEF d
  <2>2. z = [s EXCEPT !.delay = d] /\ d \in Nat
    BY <2>1 DEF d
  <2> QED
    BY <2>2, DelaySound DEF Keeps
<1> QED
  BY <1>3, <1>5, <1>6, <1>7, <1>8, <1>9, <1>10, <1>11

---------------------------------------------------------------------------
(* Functions of scheme code, and the steps.                                *)

\* The calls that a function makes.
Called(func) == IF func = "none" THEN {} ELSE ToSet(Body[func])

\* What a function's calls keep to, its whole run keeps to.
LEMMA RunStays ==
  ASSUME NEW V, NEW s \in V, NEW func \in DOMAIN Body \union {"none"}, NEW garbage,
         \A v \in V : \A c \in Called(func) : ~v.crashed => Call(v, c, garbage) \in V,
         NEW z, z = Run(s, func, garbage)
  PROVE  z \in V
<1> DEFINE calls == IF func = "none" THEN <<>> ELSE Body[func]
           N == Len(calls)
           Step(f, i) == IF i = 0 THEN s
                         ELSE IF f[i - 1].crashed THEN f[i - 1]
                         ELSE Call(f[i - 1], calls[i], garbage)
           g == CHOOSE f : f = [i \in 0 .. N |-> Step(f, i)]
           F == [k \in 1 .. N |-> [v \in V |-> IF v.crashed THEN v ELSE Call(v, calls[k], garbage)]]
<1>1. calls \in Seq(Calls) /\ Called(func) = ToSet(calls)
  <2>1. CASE func = "none"
    BY <2>1 DEF Called, ToSet
  <2>2. CASE func # "none"
    BY <2>2, EventsAssumption DEF Called
  <2> QED
    BY <2>1, <2>2
<1>2. z = g[N]
  BY DEF Run
<1> HIDE DEF calls
<1>3. N \in Nat /\ \A k \in 1 .. N : calls[k] \in Called(func)
  BY <1>1, SeqAt
<1> HIDE DEF N
<1>4. F \in [1 .. N -> [V -> V]]
  <2>1. \A k \in 1 .. N : \A v \in V : (IF v.crashed THEN v ELSE Call(v, calls[k], garbage)) \in V
    <3> TAKE k \in 1 .. N
    <3> TAKE v \in V
    <3>1. CASE v.crashed
      BY <3>1
    <3>2. CASE ~v.crashed
      <4>1. Call(v, calls[k], garbage) \in V
        BY <1>3, <3>2
      <4> QED
        BY <3>2, <4>1
    <3> QED
      BY <3>1, <3>2
  <2> QED
    BY <2>1
<1>5. PICK f : IsRun(f, V, s, N, F)
  BY <1>3, <1>4, RunExists
<1>6. f \in [0 .. N -> V] /\ f[0] = s
  BY <1>5 DEF IsRun
<1>6a. \A k \in 1 .. N : f[k] = IF f[k - 1].crashed THEN f[k - 1] ELSE Call(f[k - 1], calls[k], garbage)
  <2> TAKE k \in 1 .. N
  <2>1. k - 1 \in 0 .. N
    BY <1>3
  <2>2. f[k - 1] \in V
    BY <1>6, <2>1
  <2> QED
    BY <1>5, <2>2 DEF IsRun
<1> HIDE DEF F
<1>7. f = [i \in 0 .. N |-> Step(f, i)]
  <2>1. \A i \in 0 .. N : i # 0 => i \in 1 .. N
    BY <1>3
  <2>2. \A i \in 0 .. N : f[i] = Step(f, i)
    BY <1>6, <1>6a, <2>1
  <2> HIDE DEF Step
  <2> QED
    BY <1>6, <2>2
<1> HIDE DEF Step
<1>8. g = [i \in 0 .. N |-> Step(g, i)]
  BY <1>7, Zenon
<1> HIDE DEF g
<1> DEFINE T == {k \in 0 .. N : g[k] \in V}
<1>9. 0 \in T
  BY <1>3, <1>8 DEF Step
<1>10. ASSUME NEW k \in 0 .. N - 1, k \in T PROVE k + 1 \in T
  <2>1. k + 1 \in 1 .. N /\ k + 1 \in 0 .. N /\ k + 1 # 0 /\ k + 1 - 1 = k /\ g[k] \in V
    BY <1>3, <1>10
  <2>2. g[k + 1] = IF g[k].crashed THEN g[k] ELSE Call(g[k], calls[k + 1], garbage)
    <3>1. g[k + 1] = Step(g, k + 1)
      BY <1>8, <2>1
    <3> QED
      BY <2>1, <3>1 DEF Step
  <2>3. calls[k + 1] \in Called(func)
    BY <1>3, <2>1
  <2>4. g[k + 1] \in V
    <3>1. CASE g[k].crashed
      BY <2>1, <2>2, <3>1
    <3>2. CASE ~g[k].crashed
      BY <2>1, <2>2, <2>3, <3>2
    <3> QED
      BY <3>1, <3>2
  <2> QED
    BY <2>1, <2>4
<1>11. N \in T
  <2> HIDE DEF T
  <2> QED
    BY <1>3, <1>9, <1>10, UpTo
<1> QED
  BY <1>2, <1>11

\* Another place to read on from.
LEMMA Reread ==
  ASSUME NEW s, NEW e, NEW t, Sound(s, e, t),
         NEW p \in (0 .. Len(s.heap)) \union {Unset}, NEW q \in (0 .. Len(s.heap)) \union {Unset},
         NEW v, v = [size |-> s.events.size, first |-> s.events.first, last |-> s.events.last,
                     pos |-> p, top |-> q],
         ToRead(v, e), NEW z, z = [s EXCEPT !.events = v]
  PROVE  /\ Sound(z, e, t) /\ z.events = v
         /\ z.heap = s.heap /\ z.tmp = s.tmp /\ z.noteblock = s.noteblock
         /\ z.delay = s.delay /\ z.asked = s.asked /\ z.crashed = s.crashed
<1> DEFINE L == Len(s.heap)
<1>1. s \in States /\ s.events \in Within(L) /\ L \in Nat /\ Chained(s.heap, s.events, e)
  <2>1. L \in Nat
    BY HeldIs DEF Sound
  <2> QED
    BY <2>1 DEF Sound, Held
<1>2. v \in Within(L)
  BY <1>1 DEF Within
<1>3. v \in Vector
  BY <1>1, <1>2 DEF Within, Vector
<1>4. /\ z.heap = s.heap /\ z.events = v /\ z.tmp = s.tmp /\ z.noteblock = s.noteblock
      /\ z.delay = s.delay /\ z.asked = s.asked /\ z.crashed = s.crashed /\ z \in States
  BY <1>1, <1>3 DEF States
<1>5. Chained(s.heap, v, e)
  BY <1>1 DEF Chained
<1> HIDE DEF L
<1> QED
  BY <1>2, <1>4, <1>5 DEF Sound, Held, L

\* With the node n one tick nearer.
Nearer(s, n) == [s EXCEPT !.heap = [s.heap EXCEPT ![n].delta = @ - 1]]

\* What z is when the node n of s came nearer.
Neared(s, e, t, n, z) ==
  /\ Sound(z, e, t) /\ SameBut(s.heap, z.heap) /\ Len(z.heap) = Len(s.heap)
  /\ z.heap[n].delta = s.heap[n].delta - 1
  /\ \A x \in DOMAIN z.heap : x # n => z.heap[x] = s.heap[x]
  /\ z.events = s.events /\ z.tmp = s.tmp /\ z.noteblock = s.noteblock
  /\ z.delay = s.delay /\ z.asked = s.asked /\ z.crashed = s.crashed

\* A node comes nearer.
LEMMA NearerSound ==
  ASSUME NEW s, NEW e, NEW t, Sound(s, e, t), NEW n \in DOMAIN s.heap, s.heap[n].delta # 0,
         NEW z, z = Nearer(s, n)
  PROVE  Neared(s, e, t, n, z)
<1> DEFINE h == s.heap
           g == [s.heap EXCEPT ![n].delta = @ - 1]
           L == Len(h)
           r == [h[n] EXCEPT !.delta = h[n].delta - 1]
<1>1. /\ s \in States /\ h \in Seq(NodeRecords) /\ DOMAIN h = 1 .. L /\ L \in Nat
      /\ \A x \in DOMAIN h : h[x].next \in (0 .. L) \union {Unset}
      /\ Chained(h, s.events, e) /\ Chained(h, s.tmp, t)
  <2>1. h \in Seq(NodeRecords) /\ DOMAIN h = 1 .. L /\ L \in Nat
    BY HeldIs DEF Sound
  <2> QED
    BY <2>1 DEF Sound, Held
<1>2. \A x \in DOMAIN h : h[x] \in NodeRecords
  BY <1>1, HeapIs
<1>3. /\ r \in NodeRecords /\ r.delta = h[n].delta - 1 /\ r.next = h[n].next /\ r.nargs = h[n].nargs
      /\ r.func = h[n].func /\ r.when = h[n].when
  <2>1. h[n] \in NodeRecords /\ h[n].delta # 0
    BY <1>2
  <2>2. h[n].delta - 1 \in Nat
    BY <2>1 DEF NodeRecords
  <2> QED
    BY <2>1, <2>2 DEF NodeRecords
<1>4. g = [h EXCEPT ![n] = r]
  OBVIOUS
<1>a. z = [s EXCEPT !.heap = g]
  BY DEF Nearer
<1> HIDE DEF g
<1> HIDE DEF r
<1>5. /\ g \in [1 .. L -> NodeRecords] /\ DOMAIN g = 1 .. L /\ g[n] = r
      /\ \A x \in DOMAIN g : x # n => g[x] = h[x]
  BY <1>1, <1>2, <1>3, <1>4
<1>6. g \in Seq(NodeRecords) /\ Len(g) = L
  BY <1>1, <1>5, SeqIs
<1>7. \A x \in DOMAIN h : /\ g[x].next = h[x].next /\ g[x].nargs = h[x].nargs
                          /\ g[x].func = h[x].func /\ g[x].when = h[x].when
  BY <1>1, <1>3, <1>5
<1>8. SameBut(h, g)
  BY <1>1, <1>5, <1>7 DEF SameBut
<1>9. /\ z.heap = g /\ z.events = s.events /\ z.tmp = s.tmp /\ z.noteblock = s.noteblock
      /\ z.delay = s.delay /\ z.asked = s.asked /\ z.crashed = s.crashed /\ z \in States
  BY <1>1, <1>6, <1>a DEF States
<1>10. \A i \in 1 .. Len(e) : e[i] \in DOMAIN h
  BY <1>1, SeqAt DEF Chained
<1>11. \A i \in 1 .. Len(t) : t[i] \in DOMAIN h
  BY <1>1, SeqAt DEF Chained
<1>12. Chained(g, s.events, e) /\ Chained(g, s.tmp, t)
  <2>1. Len(e) \in Nat /\ Len(t) \in Nat
    BY <1>1, SeqAt DEF Chained
  <2>2. \A i \in 1 .. Len(e) - 1 : g[e[i]].next = h[e[i]].next
    BY <1>7, <1>10, <2>1
  <2>3. \A i \in 1 .. Len(t) - 1 : g[t[i]].next = h[t[i]].next
    BY <1>7, <1>11, <2>1
  <2>4. DOMAIN h \subseteq DOMAIN g
    BY <1>1, <1>5
  <2> HIDE DEF h
  <2> QED
    BY <1>1, <2>2, <2>3, <2>4, ChainedStays
<1>13. \A x \in DOMAIN g : g[x].next \in (0 .. L) \union {Unset}
  BY <1>1, <1>5, <1>7
<1>14. Sound(z, e, t)
  <2>1. /\ s.events \in Within(L) /\ s.tmp \in Within(L) /\ s.asked \subseteq DOMAIN h
        /\ Distinct(e) /\ Distinct(t) /\ Apart(e, t)
        /\ s.tmp.pos = 0 /\ s.tmp.top = Nil /\ ToRead(s.events, e)
        /\ s.tmp.last = IF t = <<>> THEN Nil ELSE t[Len(t)]
    BY DEF Sound, Held
  <2> HIDE DEF h, L
  <2> QED
    BY <1>1, <1>5, <1>6, <1>9, <1>12, <1>13, <2>1 DEF Sound, Held
<1> QED
  BY <1>3, <1>5, <1>6, <1>8, <1>9, <1>14 DEF Neared

\* The record of the variables after a step that what z says describes.
LEMMA Became ==
  ASSUME NEW z, NEW next, NEW e, NEW t, Becomes(z, next), Sound(z, e, t)
  PROVE  /\ Sound(State', e, t) /\ heap' = z.heap
         /\ phase' = IF z.crashed THEN "crashed" ELSE next
<1>1. z \in States
  BY DEF Sound, Held
<1>2. State' = [heap |-> z.heap, events |-> z.events, tmp |-> z.tmp, noteblock |-> z.noteblock,
                delay |-> z.delay, asked |-> z.asked, crashed |-> FALSE]
  BY DEF Becomes, State
<1> DEFINE y == State'
<1>3. /\ y.heap = z.heap /\ y.events = z.events /\ y.tmp = z.tmp
      /\ y.asked = z.asked /\ y \in States
  BY <1>1, <1>2 DEF States
<1> HIDE DEF y
<1>4. Sound(y, e, t)
  BY <1>3 DEF Sound, Held
<1> QED
  BY <1>4 DEF Becomes, y

\* What always holds.
Strong ==
  /\ style \in Styles
  /\ phase \in {"load", "init", "idle", "tick", "cleaned", "crashed"}
  /\ clock \in 0 .. MaxTicks /\ (phase = "tick" => clock < MaxTicks)
  /\ played \in Seq(DOMAIN heap)
  /\ \E e, t : Sound(State, e, t)

\* A function that is called keeps the vectors sound.
LEMMA RunSound ==
  ASSUME NEW s, NEW e, NEW t, Sound(s, e, t), NEW func \in DOMAIN Body \union {"none"},
         NEW garbage \in {Nil, Unset}, clock \in Nat, NEW z, z = Run(s, func, garbage)
  PROVE  Keeps(s, z)
<1> DEFINE V == {v \in States : Keeps(s, v)}
<1>1. s \in V
  BY DEF Keeps, Sound, Held
<1>2. Called(func) \subseteq Calls
  <2>1. CASE func = "none"
    BY <2>1 DEF Called
  <2>2. CASE func # "none"
    <3>1. Body[func] \in Seq(Calls)
      BY <2>2, EventsAssumption
    <3>2. \A i \in 1 .. Len(Body[func]) : Body[func][i] \in Calls
      BY <3>1, SeqAt
    <3>3. ToSet(Body[func]) = {Body[func][i] : i \in 1 .. Len(Body[func])}
      BY <3>1, SeqAt
    <3> QED
      BY <2>2, <3>2, <3>3 DEF Called
  <2> QED
    BY <2>1, <2>2
<1>3. ASSUME NEW v \in V, NEW c \in Called(func), ~v.crashed
      PROVE  Call(v, c, garbage) \in V
  <2> DEFINE w == Call(v, c, garbage)
  <2>1. PICK a, b : Sound(v, a, b)
    BY DEF Keeps
  <2>2. Keeps(v, w)
    <3>1. c \in Calls /\ w = Call(v, c, garbage)
      BY <1>2
    <3> HIDE DEF w
    <3> QED
      BY <1>3, <2>1, <3>1, CallSound
  <2> HIDE DEF w
  <2>3. w \in States
    BY <2>2 DEF Keeps, Sound, Held
  <2>4. Keeps(s, w)
    <3>1. DOMAIN s.heap \subseteq DOMAIN v.heap
      BY DEF Keeps
    <3> QED
      BY <2>2, <3>1 DEF Keeps
  <2> QED
    BY <2>3, <2>4 DEF w
<1> HIDE DEF V
<1>4. z \in V
  BY <1>1, <1>3, RunStays
<1> QED
  BY <1>4 DEF V

\* The merge after it, too.
LEMMA RunMergeSound ==
  ASSUME NEW s, NEW e, NEW t, Sound(s, e, t), NEW func \in DOMAIN Body \union {"none"},
         NEW garbage \in {Nil, Unset}, clock \in Nat, NEW z, z = Merge(Run(s, func, garbage))
  PROVE  Keeps(s, z)
<1> DEFINE y == Run(s, func, garbage)
<1>1. y = Run(s, func, garbage) /\ z = Merge(y)
  OBVIOUS
<1> HIDE DEF y
<1>2. Keeps(s, y)
  BY <1>1, RunSound
<1>3. PICK a, b : Sound(y, a, b)
  BY <1>2 DEF Keeps
<1>4. Held(y, a, b) /\ (b = <<>> => y.tmp.last = Nil)
  BY <1>3 DEF Sound
<1>5. PICK c : Sound(z, c, <<>>) /\ SameBut(y.heap, z.heap)
  BY <1>1, <1>4, MergeSound
<1> QED
  BY <1>2, <1>5 DEF Keeps, SameBut

\* A style's parts.
LEMMA StyleIs ==
  ASSUME style \in Styles
  PROVE  /\ style.bracketed \in BOOLEAN /\ style.calls \subseteq Calls
         /\ style.oninit \in DOMAIN Body \union {"none"}
         /\ style.garbage \subseteq {Nil, Unset}
BY EventsAssumption

\* A step after which the vectors hold something, and no node is gone.
LEMMA StrongStep ==
  ASSUME Strong, NEW z, Keeps(State, z), NEW next, Becomes(z, next),
         next \in {"load", "init", "idle", "tick", "cleaned", "crashed"},
         next = "tick" => clock < MaxTicks,
         style' = style, clock' = clock, played' \in Seq(DOMAIN heap)
  PROVE  Strong'
<1>1. PICK e, t : Sound(z, e, t)
  BY DEF Keeps
<1>2. Sound(State', e, t) /\ heap' = z.heap /\ phase' = IF z.crashed THEN "crashed" ELSE next
  BY <1>1, Became
<1>3. \E a, b : Sound(State', a, b)
  BY <1>2
<1>4. played' \in Seq(DOMAIN heap')
  <2>1. DOMAIN heap \subseteq DOMAIN heap'
    BY <1>2 DEF Keeps, State
  <2> QED
    BY <2>1, SeqWider
<1>5. /\ phase' \in {"load", "init", "idle", "tick", "cleaned", "crashed"}
      /\ phase' = "tick" => clock' < MaxTicks
  BY <1>2
<1> DEFINE Q == \E a, b : Sound(State, a, b)
<1>6. Q'
  BY <1>3
<1> HIDE DEF Q
<1>7. (style \in Styles)' /\ (clock \in 0 .. MaxTicks)'
  BY DEF Strong
<1> QED
  BY <1>4, <1>5, <1>6, <1>7 DEF Strong, Q

\* What the state is at first.
LEMMA StrongInit == Init => Strong
<1> SUFFICES ASSUME Init PROVE Strong
  OBVIOUS
<1> DEFINE z == State
<1>1. /\ z.heap = <<>> /\ z.events = Zeroed /\ z.tmp = Zeroed /\ z.noteblock = FALSE
      /\ z.delay = 0 /\ z.asked = {} /\ z.crashed = FALSE
      /\ z = [heap |-> z.heap, events |-> z.events, tmp |-> z.tmp, noteblock |-> z.noteblock,
              delay |-> z.delay, asked |-> z.asked, crashed |-> z.crashed]
  BY DEF Init, State
<1> HIDE DEF z
<1>2. Zeroed \in Vector /\ Zeroed \in Within(0) /\ Zeroed.size = 0 /\ Zeroed.pos = 0 /\ Zeroed.top = Nil
      /\ Zeroed.last = Nil
  BY DEF Zeroed, Vector, Within, Nil
<1>3. z \in States
  <2>1. /\ z.heap \in Seq(NodeRecords) /\ z.events \in Vector /\ z.tmp \in Vector
        /\ z.noteblock \in BOOLEAN /\ z.delay \in Nat /\ z.asked \in SUBSET Nat
        /\ z.crashed \in BOOLEAN
    <3>1. <<>> \in Seq(NodeRecords)
      OBVIOUS
    <3>2. z.heap \in Seq(NodeRecords)
      BY <1>1, <3>1
    <3>3. z.events \in Vector /\ z.tmp \in Vector
      BY <1>1, <1>2
    <3>4. z.noteblock \in BOOLEAN /\ z.crashed \in BOOLEAN
      BY <1>1
    <3>5. z.delay \in Nat
      BY <1>1
    <3>6. z.asked \in SUBSET Nat
      BY <1>1
    <3> QED
      BY <3>2, <3>3, <3>4, <3>5, <3>6
  <2> QED
    BY <1>1, <2>1 DEF States
<1>4. Len(z.heap) = 0 /\ DOMAIN z.heap = {} /\ z.heap \in Seq(DOMAIN z.heap)
  BY <1>1
<1>5. Chained(z.heap, z.events, <<>>) /\ Chained(z.heap, z.tmp, <<>>)
  BY <1>1, <1>2 DEF Chained
<1>6. Distinct(<<>>) /\ Apart(<<>>, <<>>)
  BY DEF Distinct, Apart
<1>7. ToRead(z.events, <<>>)
  BY <1>1, <1>2 DEF ToRead
<1>8. Sound(z, <<>>, <<>>)
  BY <1>1, <1>2, <1>3, <1>4, <1>5, <1>6, <1>7 DEF Sound, Held
<1>9. \E e, t : Sound(State, e, t)
  BY <1>8 DEF z
<1>10. /\ style \in Styles /\ phase = "load" /\ clock \in 0 .. MaxTicks /\ played \in Seq(DOMAIN heap)
  BY EventsAssumption DEF Init
<1> QED
  BY <1>9, <1>10 DEF Strong

\* The state in which the node n has been read.
Read(s, n) == [s EXCEPT !.events.pos = @ - 1, !.events.top = s.heap[n].next]

\* What z is when the node n of s has been read.
Popped(s, e, t, n, z) ==
  /\ Sound(z, e, t) /\ n \in DOMAIN s.heap
  /\ s.events.pos \in 1 .. Len(e) /\ n = e[Len(e) - s.events.pos + 1]
  /\ z.events.pos = s.events.pos - 1 /\ z.events.top = s.heap[n].next
  /\ z.heap = s.heap /\ z.tmp = s.tmp /\ z.noteblock = s.noteblock
  /\ z.delay = s.delay /\ z.asked = s.asked /\ z.crashed = s.crashed

\* A vector with another place to read on from.
LEMMA RereadIs ==
  ASSUME NEW v \in Vector, NEW p, NEW q
  PROVE  [v EXCEPT !.pos = p, !.top = q]
           = [size |-> v.size, first |-> v.first, last |-> v.last, pos |-> p, top |-> q]
<1>1. ASSUME NEW y, y = [v EXCEPT !.pos = p, !.top = q]
      PROVE  /\ y.size = v.size /\ y.first = v.first /\ y.last = v.last /\ y.pos = p /\ y.top = q
             /\ y = [size |-> y.size, first |-> y.first, last |-> y.last, pos |-> y.pos, top |-> y.top]
  <2>1. y.size = v.size /\ y.first = v.first /\ y.last = v.last /\ y.pos = p /\ y.top = q
    BY <1>1 DEF Vector
  <2>2. y = [size |-> y.size, first |-> y.first, last |-> y.last, pos |-> y.pos, top |-> y.top]
    BY <1>1 DEF Vector
  <2> QED
    BY <2>1, <2>2
<1>2. ASSUME NEW y, y = [v EXCEPT !.pos = p, !.top = q]
      PROVE  y = [size |-> v.size, first |-> v.first, last |-> v.last, pos |-> p, top |-> q]
  BY <1>1, <1>2
<1> QED
  BY <1>2

\* dvector_pop takes a node, and goes on behind it.
LEMMA ReadSound ==
  ASSUME NEW s, NEW e, NEW t, Sound(s, e, t), s.events.pos > 0, s.events.top # Unset,
         NEW n, n = s.events.top, NEW z, z = Read(s, n)
  PROVE  Popped(s, e, t, n, z)
<1> DEFINE L == Len(s.heap)
           m == Len(e)
           o == s.events.pos
           k == m - o + 1
           p == o - 1
           q == s.heap[n].next
           v == [size |-> s.events.size, first |-> s.events.first, last |-> s.events.last,
                 pos |-> p, top |-> q]
<1>1. /\ s \in States /\ s.events \in Within(L) /\ s.events \in Vector
      /\ ToRead(s.events, e) /\ Chained(s.heap, s.events, e)
      /\ \A x \in DOMAIN s.heap : s.heap[x].next \in (0 .. L) \union {Unset}
  BY DEF Sound, Held, States
<1>2. DOMAIN s.heap = 1 .. L /\ L \in Nat /\ e \in Seq(DOMAIN s.heap) /\ Len(e) \in Nat
  BY HeldIs, SeqAt DEF Sound
<1>3. /\ s.events.pos \in 0 .. L
      /\ s.events.pos \in 1 .. L /\ s.events.pos <= Len(e) /\ n = e[k]
  BY <1>1, <1>2 DEF Within, ToRead, Unset
<1>a. m \in Nat /\ o \in 1 .. m /\ L \in Nat /\ o \in 1 .. L
  BY <1>2, <1>3
<1> HIDE DEF m, o, L
<1>4. o \in 1 .. m /\ k \in 1 .. m /\ p \in 0 .. L
  BY <1>a
<1>5. n \in DOMAIN s.heap
  <2>1. k \in 1 .. Len(e)
    BY <1>4 DEF m
  <2> HIDE DEF k
  <2>2. e[k] \in DOMAIN s.heap
    BY <1>2, <2>1, SeqAt
  <2> QED
    BY <1>3, <2>2
<1>6. q \in (0 .. L) \union {Unset}
  BY <1>1, <1>5
<1>7. p > 0 => k \in 1 .. m - 1 /\ p <= m /\ m - p + 1 = k + 1
  BY <1>a
<1>8. p > 0 => q = e[k + 1]
  <2> HIDE DEF k
  <2> QED
    BY <1>1, <1>3, <1>7 DEF Chained, m
<1>9. z = [s EXCEPT !.events = v]
  <2>1. z = [s EXCEPT !.events.pos = p, !.events.top = q]
    BY DEF Read, o
  <2> HIDE DEF p, q
  <2>2. [s.events EXCEPT !.pos = p, !.top = q] = v
    BY <1>1, RereadIs
  <2> HIDE DEF v
  <2> QED
    BY <1>1, <2>1, <2>2 DEF States
<1> HIDE DEF p, q, k
<1>10. ToRead(v, e)
  <2>1. v.pos = p /\ v.top = q
    OBVIOUS
  <2> HIDE DEF v
  <2> QED
    BY <1>7, <1>8, <2>1 DEF ToRead, m
<1>11. v.pos = p /\ v.top = q
  OBVIOUS
<1>12. v = [size |-> s.events.size, first |-> s.events.first, last |-> s.events.last,
            pos |-> p, top |-> q]
  OBVIOUS
<1>13. p \in (0 .. Len(s.heap)) \union {Unset} /\ q \in (0 .. Len(s.heap)) \union {Unset}
  BY <1>4, <1>6 DEF L
<1> HIDE DEF v
<1>b. Sound(s, e, t)
  OBVIOUS
<1>14. /\ Sound(z, e, t) /\ z.events = v
       /\ z.heap = s.heap /\ z.tmp = s.tmp /\ z.noteblock = s.noteblock
       /\ z.delay = s.delay /\ z.asked = s.asked /\ z.crashed = s.crashed
  BY ONLY <1>b, <1>9, <1>10, <1>12, <1>13, Reread, SMTT(20)
<1>15. z.events.pos = s.events.pos - 1 /\ z.events.top = s.heap[n].next
  BY <1>11, <1>14 DEF p, q, o
<1>16. n = e[Len(e) - s.events.pos + 1]
  BY <1>3 DEF k, m, o
<1>17. s.events.pos \in 1 .. Len(e)
  BY <1>4 DEF m, o
<1> QED
  BY <1>5, <1>14, <1>15, <1>16, <1>17 DEF Popped

\* What the step of an event is, as one of the record.
LEMMA EventIs ==
  ASSUME Event, NEW e, NEW t, Sound(State, e, t)
  PROVE  /\ phase = "tick" /\ UNCHANGED <<style, clock>>
         /\ \/ phase' = "crashed" /\ UNCHANGED <<data, played>> /\ events.top = Unset
            \/ \E n \in DOMAIN heap : \E s, z : \E garbage \in style.garbage :
                 /\ heap[n].delta = 0 /\ Popped(State, e, t, n, s) /\ heap[n] \in NodeRecords
                 /\ z = Merge(Run(s, heap[n].func, garbage)) /\ Becomes(z, "tick")
                 /\ played' = Append(played, n)
<1> DEFINE n == events.top
           s == [State EXCEPT !.events.pos = @ - 1, !.events.top = heap[n].next]
<1>1. phase = "tick" /\ UNCHANGED <<style, clock>> /\ events.pos > 0
  BY DEF Event
<1>2. \/ phase' = "crashed" /\ UNCHANGED <<data, played>> /\ events.top = Unset
      \/ /\ events.top # Unset /\ heap[n].delta = 0
         /\ \E z \in {Merge(Run(s, heap[n].func, garbage)) : garbage \in style.garbage} :
              Becomes(z, "tick")
         /\ played' = Append(played, n)
  BY DEF Event
<1>3. ASSUME events.top # Unset PROVE n \in DOMAIN heap /\ Popped(State, e, t, n, s)
  <2> DEFINE r == State
  <2>1. r.events = events /\ r.heap = heap
    BY DEF State
  <2>2. s = Read(r, n)
    BY <2>1 DEF Read
  <2> HIDE DEF s, r
  <2>3. n = r.events.top /\ r.events.pos > 0 /\ r.events.top # Unset
    BY <1>1, <1>3, <2>1
  <2> HIDE DEF n
  <2>4. Popped(r, e, t, n, s)
    BY <2>2, <2>3, ReadSound DEF r
  <2> QED
    BY <2>1, <2>4 DEF Popped, r
<1>4. heap \in Seq(NodeRecords)
  BY DEF Sound, Held, States, State
<1>5. \A x \in DOMAIN heap : heap[x] \in NodeRecords
  BY <1>4, HeapIs
<1> HIDE DEF s, n
<1>6. CASE phase' = "crashed" /\ UNCHANGED <<data, played>> /\ events.top = Unset
  BY <1>1, <1>6
<1>7. CASE /\ events.top # Unset /\ heap[n].delta = 0
           /\ \E z \in {Merge(Run(s, heap[n].func, garbage)) : garbage \in style.garbage} :
                Becomes(z, "tick")
           /\ played' = Append(played, n)
  <2>1. PICK garbage \in style.garbage : Becomes(Merge(Run(s, heap[n].func, garbage)), "tick")
    BY <1>7
  <2> DEFINE z == Merge(Run(s, heap[n].func, garbage))
  <2>2. z = Merge(Run(s, heap[n].func, garbage)) /\ Becomes(z, "tick")
    BY <2>1
  <2> HIDE DEF z
  <2>3. n \in DOMAIN heap /\ Popped(State, e, t, n, s) /\ heap[n] \in NodeRecords /\ heap[n].delta = 0
    BY <1>3, <1>5, <1>7
  <2> QED
    BY <1>1, <1>7, <2>2, <2>3
<1> QED
  BY <1>2, <1>6, <1>7

\* A step that leaves the style be, and what scheme code works on sound.
LEMMA StrongOf ==
  ASSUME Strong, style' = style, clock' \in 0 .. MaxTicks, NEW e, NEW t, Sound(State', e, t),
         phase' \in {"load", "init", "idle", "tick", "cleaned", "crashed"},
         phase' = "tick" => clock' < MaxTicks,
         played' \in Seq(DOMAIN heap')
  PROVE  Strong'
<1> DEFINE Q == \E a, b : Sound(State, a, b)
<1>1. \E a, b : Sound(State', a, b)
  OBVIOUS
<1>2. Q'
  BY <1>1
<1> HIDE DEF Q
<1>3. (style \in Styles)' /\ (clock \in 0 .. MaxTicks)'
  BY DEF Strong
<1> QED
  BY <1>2, <1>3 DEF Strong, Q

\* dvector_rewind.
Rewound(s) == [s EXCEPT !.events.top = s.events.first, !.events.pos = s.events.size]

\* From the first node on, everything is to be read.
LEMMA RewindSound ==
  ASSUME NEW s, NEW e, NEW t, Sound(s, e, t), NEW z, z = Rewound(s)
  PROVE  /\ Sound(z, e, t) /\ z.events.pos = Len(e) /\ z.events.top = s.events.first
         /\ z.heap = s.heap /\ z.tmp = s.tmp /\ z.noteblock = s.noteblock
         /\ z.delay = s.delay /\ z.asked = s.asked /\ z.crashed = s.crashed
<1> DEFINE L == Len(s.heap)
           p == s.events.size
           q == s.events.first
           v == [size |-> s.events.size, first |-> s.events.first, last |-> s.events.last,
                 pos |-> p, top |-> q]
           y == [s.events EXCEPT !.pos = p, !.top = q]
<1>1. s \in States /\ s.events \in Within(L) /\ s.events \in Vector /\ Chained(s.heap, s.events, e)
  BY DEF Sound, Held, States
<1>2. p \in 0 .. L /\ q \in 0 .. L /\ p = Len(e) /\ (e # <<>> => q = e[1])
  BY <1>1 DEF Within, Chained
<1>3. p \in (0 .. Len(s.heap)) \union {Unset} /\ q \in (0 .. Len(s.heap)) \union {Unset}
  BY <1>2
<1>4. Len(e) \in Nat /\ (e = <<>> <=> Len(e) = 0)
  BY <1>1, SeqAt DEF Chained
<1>5. y = v
  BY <1>1, RereadIs
<1>6. z = [s EXCEPT !.events = v]
  <2>1. z = [s EXCEPT !.events = [s.events EXCEPT !.top = q, !.pos = p]]
    BY <1>1 DEF Rewound, States
  <2>2. [s.events EXCEPT !.top = q, !.pos = p] = y
    BY <1>1 DEF Vector
  <2> QED
    BY <1>5, <2>1, <2>2
<1> HIDE DEF p, q, L, y
<1>a. v = [size |-> s.events.size, first |-> s.events.first, last |-> s.events.last, pos |-> p, top |-> q]
  OBVIOUS
<1>7. v.pos = p /\ v.top = q
  OBVIOUS
<1> HIDE DEF v
<1>8. ToRead(v, e)
  <2> SUFFICES ASSUME p > 0 PROVE p <= Len(e) /\ q = e[Len(e) - p + 1]
    BY <1>7 DEF ToRead
  <2>1. Len(e) - p + 1 = 1 /\ e # <<>>
    BY <1>2, <1>4
  <2> QED
    BY <1>2, <1>4, <2>1
<1>9. Sound(s, e, t)
  OBVIOUS
<1>b. p \in (0 .. Len(s.heap)) \union {Unset}
  BY <1>3
<1>c. q \in (0 .. Len(s.heap)) \union {Unset}
  BY <1>3
<1>d. Sound(z, e, t)
  BY ONLY <1>b, <1>c, <1>6, <1>a, <1>8, <1>9, Reread
<1>f. s \in States
  BY <1>1
<1>10. /\ z.events = v
       /\ z.heap = s.heap /\ z.tmp = s.tmp /\ z.noteblock = s.noteblock
       /\ z.delay = s.delay /\ z.asked = s.asked /\ z.crashed = s.crashed
  BY ONLY <1>f, <1>6 DEF States
<1> QED
  BY <1>2, <1>7, <1>10, <1>d DEF q

\* Uninitialised, when what pos holds is zero.
LEMMA UnsetSound ==
  ASSUME NEW s, NEW e, NEW t, Sound(s, e, t), NEW z, z = [s EXCEPT !.events.pos = 0]
  PROVE  Sound(z, e, t) /\ z.heap = s.heap
<1> DEFINE L == Len(s.heap)
           p == 0
           q == s.events.top
           v == [size |-> s.events.size, first |-> s.events.first, last |-> s.events.last,
                 pos |-> p, top |-> q]
           y == [s.events EXCEPT !.pos = p, !.top = q]
<1>1. s \in States /\ s.events \in Within(L) /\ s.events \in Vector /\ L \in Nat
  BY HeldIs DEF Sound, Held, States
<1>2. q \in (0 .. L) \union {Unset} /\ p \in (0 .. L) \union {Unset}
  BY <1>1 DEF Within
<1>3. y = v
  BY <1>1, RereadIs
<1>4. z = [s EXCEPT !.events = v]
  <2>1. z = [s EXCEPT !.events = [s.events EXCEPT !.pos = p]]
    BY <1>1 DEF States
  <2>2. [s.events EXCEPT !.pos = p] = y
    BY <1>1 DEF Vector
  <2> QED
    BY <1>3, <2>1, <2>2
<1>5. ToRead(v, e)
  BY DEF ToRead
<1> HIDE DEF p, q, y
<1>6. v = [size |-> s.events.size, first |-> s.events.first, last |-> s.events.last, pos |-> p, top |-> q]
  OBVIOUS
<1>7. p \in (0 .. Len(s.heap)) \union {Unset} /\ q \in (0 .. Len(s.heap)) \union {Unset}
  BY <1>2
<1>8. Sound(s, e, t)
  OBVIOUS
<1> HIDE DEF v, L
<1> QED
  BY ONLY <1>4, <1>5, <1>6, <1>7, <1>8, Reread

\* The record with another heap.
LEMMA WithHeap ==
  ASSUME NEW s \in States, NEW g, NEW z, z = [s EXCEPT !.heap = g]
  PROVE  z = [heap |-> g, events |-> s.events, tmp |-> s.tmp, noteblock |-> s.noteblock,
               delay |-> s.delay, asked |-> s.asked, crashed |-> s.crashed]
<1>1. /\ z.heap = g /\ z.events = s.events /\ z.tmp = s.tmp /\ z.noteblock = s.noteblock
      /\ z.delay = s.delay /\ z.asked = s.asked /\ z.crashed = s.crashed
  BY DEF States
<1>2. z = [heap |-> z.heap, events |-> z.events, tmp |-> z.tmp, noteblock |-> z.noteblock,
           delay |-> z.delay, asked |-> z.asked, crashed |-> z.crashed]
  BY DEF States
<1> QED
  BY <1>1, <1>2

\* The record with other events.
LEMMA WithEvents ==
  ASSUME NEW s \in States, NEW v, NEW z, z = [s EXCEPT !.events = v]
  PROVE  z = [heap |-> s.heap, events |-> v, tmp |-> s.tmp, noteblock |-> s.noteblock,
               delay |-> s.delay, asked |-> s.asked, crashed |-> s.crashed]
<1>1. /\ z.heap = s.heap /\ z.events = v /\ z.tmp = s.tmp /\ z.noteblock = s.noteblock
      /\ z.delay = s.delay /\ z.asked = s.asked /\ z.crashed = s.crashed
  BY DEF States
<1>2. z = [heap |-> z.heap, events |-> z.events, tmp |-> z.tmp, noteblock |-> z.noteblock,
           delay |-> z.delay, asked |-> z.asked, crashed |-> z.crashed]
  BY DEF States
<1> QED
  BY <1>1, <1>2

\* The end of the load, as a step of the record.
LEMMA LoadedIs ==
  ASSUME Loaded, State \in States
  PROVE  State' = Rewound(State)
<1> DEFINE s == State
           z == Rewound(s)
           v == [events EXCEPT !.top = events.first, !.pos = events.size]
<1>1. State' = [heap |-> heap, events |-> v, tmp |-> tmp, noteblock |-> noteblock,
                delay |-> delay, asked |-> asked, crashed |-> FALSE]
  BY DEF Loaded, State
<1>2. /\ s.heap = heap /\ s.events = events /\ s.tmp = tmp /\ s.noteblock = noteblock
      /\ s.delay = delay /\ s.asked = asked /\ s.crashed = FALSE
  BY DEF State
<1>3. z = Rewound(s) /\ s \in States
  OBVIOUS
<1> HIDE DEF s, z
<1>4. z = [s EXCEPT !.events = [s.events EXCEPT !.top = s.events.first, !.pos = s.events.size]]
  BY <1>3 DEF Rewound, States
<1>5. z = [s EXCEPT !.events = v]
  BY <1>2, <1>4
<1> HIDE DEF v
<1>6. z = [heap |-> s.heap, events |-> v, tmp |-> s.tmp, noteblock |-> s.noteblock,
           delay |-> s.delay, asked |-> s.asked, crashed |-> s.crashed]
  BY <1>3, <1>5, WithEvents
<1> QED
  BY <1>1, <1>2, <1>6 DEF s, z

\* The next event comes nearer, as a step of the record.
LEMMA LaterIs ==
  ASSUME UNCHANGED <<events, tmp, noteblock, delay, asked>>, State \in States,
         heap' = [heap EXCEPT ![events.top].delta = @ - 1]
  PROVE  State' = Nearer(State, events.top)
<1> DEFINE s == State
           n == events.top
           z == Nearer(s, n)
           g == [s.heap EXCEPT ![n].delta = @ - 1]
<1>1. State' = [heap |-> g, events |-> events, tmp |-> tmp, noteblock |-> noteblock,
                delay |-> delay, asked |-> asked, crashed |-> FALSE]
  BY DEF State
<1>2. /\ s.heap = heap /\ s.events = events /\ s.tmp = tmp /\ s.noteblock = noteblock
      /\ s.delay = delay /\ s.asked = asked /\ s.crashed = FALSE
  BY DEF State
<1>3. s \in States /\ z = [s EXCEPT !.heap = g]
  BY DEF Nearer
<1> HIDE DEF s, z, g
<1>4. z = [heap |-> g, events |-> s.events, tmp |-> s.tmp, noteblock |-> s.noteblock,
           delay |-> s.delay, asked |-> s.asked, crashed |-> s.crashed]
  BY <1>3, WithHeap
<1> QED
  BY <1>1, <1>2, <1>4 DEF s, z

\* Every step keeps the vectors sound.
LEMMA StrongNext == Strong /\ [Next]_vars => Strong'
<1> SUFFICES ASSUME Strong, [Next]_vars PROVE Strong'
  OBVIOUS
<1>1. PICK e, t : Sound(State, e, t)
  BY DEF Strong
<1>2. /\ style \in Styles /\ clock \in 0 .. MaxTicks /\ clock \in Nat /\ MaxTicks \in Nat
      /\ phase \in {"load", "init", "idle", "tick", "cleaned", "crashed"}
      /\ phase = "tick" => clock < MaxTicks
      /\ played \in Seq(DOMAIN heap)
  BY EventsAssumption DEF Strong
<1>3. /\ style.calls \subseteq Calls /\ style.oninit \in DOMAIN Body \union {"none"}
      /\ style.garbage \subseteq {Nil, Unset}
  BY <1>2, StyleIs
<1>4. State.events = events /\ State.heap = heap /\ State.crashed = FALSE
  BY DEF State
<1>5. CASE Load
  <2>1. PICK c \in style.calls, garbage \in style.garbage : Becomes(Call(State, c, garbage), "load")
    BY <1>5 DEF Load
  <2> DEFINE s == State
             z == Call(s, c, garbage)
  <2>2. c \in Calls /\ garbage \in {Nil, Unset}
    BY <1>3
  <2>3. z = Call(s, c, garbage) /\ Sound(s, e, t) /\ ~s.crashed /\ Becomes(z, "load")
    BY <1>1, <1>4, <2>1
  <2> HIDE DEF z, s
  <2>4. Keeps(s, z)
    BY <1>2, <2>2, <2>3, CallSound
  <2>5. style' = style /\ clock' = clock /\ played' = played
    BY <1>5 DEF Load
  <2> QED
    BY <1>2, <2>3, <2>4, <2>5, StrongStep DEF s
<1>6. CASE Loaded
  <2> DEFINE s == State
             z == Rewound(s)
  <2>1. State' = z
    <3>1. s \in States
      BY <1>1 DEF Sound, Held
    <3> QED
      BY <1>6, <3>1, LoadedIs
  <2>2. z = Rewound(s) /\ Sound(s, e, t)
    BY <1>1
  <2> HIDE DEF z, s
  <2>3. Sound(State', e, t)
    BY <2>1, <2>2, RewindSound
  <2>4. style' = style /\ clock' = clock /\ played' = played /\ phase' = "init" /\ heap' = heap
    BY <1>6 DEF Loaded
  <2> QED
    BY <1>2, <2>3, <2>4, StrongOf
<1>7. CASE ps_init
  <2>1. PICK garbage \in style.garbage : Becomes(Run(State, style.oninit, garbage), "idle")
    BY <1>7 DEF ps_init
  <2> DEFINE s == State
             f == style.oninit
             z == Run(s, f, garbage)
  <2>2. /\ f \in DOMAIN Body \union {"none"} /\ garbage \in {Nil, Unset}
        /\ z = Run(s, f, garbage) /\ Sound(s, e, t) /\ Becomes(z, "idle")
    BY <1>1, <1>3, <2>1
  <2> HIDE DEF z, s, f
  <2>3. Keeps(s, z)
    BY <1>2, <2>2, RunSound
  <2>4. style' = style /\ clock' = clock /\ played' = played
    BY <1>7 DEF ps_init
  <2> QED
    BY <1>2, <2>2, <2>3, <2>4, StrongStep DEF s
<1>8. CASE Event
  <2>1. /\ style' = style /\ clock' = clock
        /\ \/ phase' = "crashed" /\ UNCHANGED <<data, played>>
           \/ \E n \in DOMAIN heap : \E s, z : \E garbage \in style.garbage :
                 /\ Popped(State, e, t, n, s) /\ heap[n] \in NodeRecords
                 /\ z = Merge(Run(s, heap[n].func, garbage)) /\ Becomes(z, "tick")
                 /\ played' = Append(played, n)
    BY <1>1, <1>8, EventIs
  <2>a. clock < MaxTicks
    BY <1>2, <1>8 DEF Event
  <2>2. CASE phase' = "crashed" /\ UNCHANGED <<data, played>>
    <3>1. State' = State /\ heap' = heap
      BY <2>2 DEF State, data
    <3>2. Sound(State', e, t)
      BY <1>1, <3>1
    <3> QED
      BY <1>2, <2>1, <2>2, <3>1, <3>2, StrongOf
  <2>3. CASE \E n \in DOMAIN heap : \E s, z : \E garbage \in style.garbage :
                 /\ Popped(State, e, t, n, s) /\ heap[n] \in NodeRecords
                 /\ z = Merge(Run(s, heap[n].func, garbage)) /\ Becomes(z, "tick")
                 /\ played' = Append(played, n)
    <3>0. PICK n \in DOMAIN heap : \E s, z : \E garbage \in style.garbage :
                 /\ Popped(State, e, t, n, s) /\ heap[n] \in NodeRecords
                 /\ z = Merge(Run(s, heap[n].func, garbage)) /\ Becomes(z, "tick")
                 /\ played' = Append(played, n)
      BY <2>3
    <3>a. PICK s, z : \E garbage \in style.garbage :
                 /\ Popped(State, e, t, n, s) /\ heap[n] \in NodeRecords
                 /\ z = Merge(Run(s, heap[n].func, garbage)) /\ Becomes(z, "tick")
                 /\ played' = Append(played, n)
      BY <3>0
    <3>1. PICK garbage \in style.garbage :
                 /\ Popped(State, e, t, n, s) /\ heap[n] \in NodeRecords
                 /\ z = Merge(Run(s, heap[n].func, garbage)) /\ Becomes(z, "tick")
                 /\ played' = Append(played, n)
      BY <3>a
    <3> DEFINE f == heap[n].func
    <3>2. /\ f \in DOMAIN Body \union {"none"} /\ garbage \in {Nil, Unset}
          /\ z = Merge(Run(s, f, garbage)) /\ Sound(s, e, t) /\ s.heap = heap
      BY <1>3, <1>4, <3>1 DEF NodeRecords, Popped
    <3> HIDE DEF f
    <3>3. Keeps(s, z)
      BY <1>2, <3>2, RunMergeSound
    <3>4. Keeps(State, z)
      BY <1>4, <3>2, <3>3 DEF Keeps
    <3>5. played' \in Seq(DOMAIN heap)
      BY <1>2, <3>1, AppendProperties
    <3> QED
      BY <2>1, <2>a, <3>1, <3>4, <3>5, StrongStep
  <2> QED
    BY <2>1, <2>2, <2>3
<1>9. CASE Later
  <2>1. /\ style' = style /\ clock' = clock + 1 /\ phase' = "idle" /\ phase = "tick"
        /\ played' = played /\ UNCHANGED <<events, tmp, noteblock, delay, asked>>
        /\ \/ UNCHANGED heap
           \/ /\ events.pos > 0 /\ events.top # Unset /\ heap[events.top].delta # 0
              /\ heap' = [heap EXCEPT ![events.top].delta = @ - 1]
    BY <1>9 DEF Later
  <2>2. clock' \in 0 .. MaxTicks
    BY <1>2, <2>1
  <2>3. CASE UNCHANGED heap
    <3>1. State' = State
      BY <2>1, <2>3 DEF State
    <3>2. Sound(State', e, t)
      BY <1>1, <3>1
    <3> QED
      BY <1>2, <2>1, <2>2, <2>3, <3>2, StrongOf
  <2>4. CASE /\ events.pos > 0 /\ events.top # Unset /\ heap[events.top].delta # 0
             /\ heap' = [heap EXCEPT ![events.top].delta = @ - 1]
    <3> DEFINE s == State
               n == events.top
               z == Nearer(s, n)
    <3>1. State' = z
      <4>1. s \in States
        BY <1>1 DEF Sound, Held
      <4> QED
        BY <2>1, <2>4, <4>1, LaterIs
    <3>2. s.events = events /\ s.heap = heap
      BY DEF State
    <3>3. z = Nearer(s, n) /\ Sound(s, e, t)
      BY <1>1
    <3>4. s.events.pos > 0 /\ s.events.top # Unset /\ s.events.top = n /\ s.heap[n].delta # 0
      BY <2>4, <3>2
    <3> HIDE DEF z, s, n
    <3>5. Popped(s, e, t, n, Read(s, n))
      BY <3>3, <3>4, ReadSound
    <3>6. n \in DOMAIN s.heap
      BY <3>5 DEF Popped
    <3>7. Neared(s, e, t, n, z)
      BY <3>3, <3>4, <3>6, NearerSound
    <3>8. DOMAIN heap' = DOMAIN heap
      <4>1. z.heap = heap'
        BY <3>1 DEF State
      <4> QED
        BY <3>2, <3>7, <4>1 DEF SameBut, Neared
    <3>9. played' \in Seq(DOMAIN heap')
      BY <1>2, <2>1, <3>8
    <3>10. Sound(State', e, t)
      BY <3>1, <3>7 DEF Neared
    <3> QED
      BY <1>2, <2>1, <2>2, <3>9, <3>10, StrongOf
  <2> QED
    BY <2>1, <2>3, <2>4
<1>10. CASE Uninitialised
  <2>1. style' = style /\ clock' = clock /\ played' = played /\ heap' = heap
        /\ UNCHANGED <<tmp, noteblock, delay, asked>>
        /\ \/ events' = [events EXCEPT !.pos = 0] /\ phase' = phase
           \/ phase' = "crashed" /\ UNCHANGED events
    BY <1>10 DEF Uninitialised
  <2>2. CASE events' = [events EXCEPT !.pos = 0] /\ phase' = phase
    <3> DEFINE s == State
               z == [s EXCEPT !.events.pos = 0]
    <3>a. State' = [heap |-> heap, events |-> [events EXCEPT !.pos = 0],
                    tmp |-> tmp, noteblock |-> noteblock, delay |-> delay, asked |-> asked,
                    crashed |-> FALSE]
      BY <2>1, <2>2 DEF State
    <3>b. z = [heap |-> heap, events |-> [events EXCEPT !.pos = 0],
               tmp |-> tmp, noteblock |-> noteblock, delay |-> delay, asked |-> asked,
               crashed |-> FALSE]
      <4> DEFINE v == [events EXCEPT !.pos = 0]
      <4>1. /\ s.heap = heap /\ s.events = events /\ s.tmp = tmp /\ s.noteblock = noteblock
            /\ s.delay = delay /\ s.asked = asked /\ s.crashed = FALSE
        BY DEF State
      <4>2. s \in States
        BY <1>1 DEF Sound, Held
      <4>3. z = [s EXCEPT !.events.pos = 0]
        OBVIOUS
      <4> HIDE DEF s, z
      <4>4. z = [s EXCEPT !.events = [s.events EXCEPT !.pos = 0]]
        BY <4>2, <4>3 DEF States
      <4>5. z = [s EXCEPT !.events = v]
        BY <4>1, <4>4
      <4> HIDE DEF v
      <4>6. z = [heap |-> s.heap, events |-> v, tmp |-> s.tmp, noteblock |-> s.noteblock,
                 delay |-> s.delay, asked |-> s.asked, crashed |-> s.crashed]
        BY <4>2, <4>5, WithEvents
      <4> QED
        BY <4>1, <4>6 DEF v
    <3>1. State' = z
      BY <3>a, <3>b
    <3>2. z = [s EXCEPT !.events.pos = 0] /\ Sound(s, e, t)
      BY <1>1
    <3> HIDE DEF z, s
    <3>3. Sound(State', e, t)
      BY <3>1, <3>2, UnsetSound
    <3> QED
      BY <1>2, <2>1, <2>2, <3>3, StrongOf
  <2>3. CASE phase' = "crashed" /\ UNCHANGED events
    <3>1. State' = State
      BY <2>1, <2>3 DEF State
    <3>2. Sound(State', e, t)
      BY <1>1, <3>1
    <3> QED
      BY <1>2, <2>1, <2>3, <3>2, StrongOf
  <2> QED
    BY <2>1, <2>2, <2>3
<1>11. CASE ps_clean
  <2> DEFINE s == State
             b == \E n \in ToSet(Chain(s.heap, s.events)) : s.heap[n].nargs = Unset
             z == dvector_free(s)
  <2>1. Becomes(z, "cleaned") /\ style' = style /\ clock' = clock /\ played' = played
    BY <1>11 DEF ps_clean
  <2>2. z = [s EXCEPT !.crashed = b] /\ b \in BOOLEAN
    BY DEF dvector_free
  <2>3. Sound(s, e, t)
    BY <1>1
  <2> HIDE DEF b, z, s
  <2>4. Sound(z, e, t) /\ z.heap = s.heap
    <3>1. s \in States
      BY <2>3 DEF Sound, Held
    <3>2. /\ z.heap = s.heap /\ z.events = s.events /\ z.tmp = s.tmp /\ z.asked = s.asked
          /\ z \in States
      BY <2>2, <3>1 DEF States
    <3> QED
      BY <2>3, <3>2 DEF Sound, Held
  <2>5. Keeps(State, z)
    BY <2>4 DEF Keeps, s
  <2> QED
    BY <1>2, <2>1, <2>5, StrongStep
<1>12. CASE Tick
  <2>1. /\ style' = style /\ clock' = clock /\ played' = played /\ phase' = "tick"
        /\ UNCHANGED data
    BY <1>12 DEF Tick
  <2>a. clock < MaxTicks
    BY <1>12 DEF Tick
  <2>2. State' = State /\ heap' = heap
    BY <2>1 DEF State, data
  <2>3. Sound(State', e, t)
    BY <1>1, <2>2
  <2> QED
    BY <1>2, <2>1, <2>2, <2>3, <2>a, StrongOf
<1>13. CASE UNCHANGED vars
  <2>1. /\ style' = style /\ clock' = clock /\ played' = played /\ phase' = phase
        /\ UNCHANGED data
    BY <1>13 DEF vars
  <2>2. State' = State /\ heap' = heap
    BY <2>1 DEF State, data
  <2>3. Sound(State', e, t)
    BY <1>1, <2>2
  <2> QED
    BY <1>2, <2>1, <2>2, <2>3, StrongOf
<1> QED
  BY <1>5, <1>6, <1>7, <1>8, <1>9, <1>10, <1>11, <1>12, <1>13 DEF Next, ps, ps_tick

\* Two chains with no node in common, one behind the other.
LEMMA Joined ==
  ASSUME NEW S, NEW e \in Seq(S), NEW t \in Seq(S), Distinct(e), Distinct(t), Apart(e, t),
         NEW c, c = e \o t
  PROVE  ToSet(c) \subseteq S /\ IsInjective(c)
<1> DEFINE m == Len(e)
           n == Len(t)
<1>1. /\ m \in Nat /\ n \in Nat /\ c \in Seq(S) /\ Len(c) = m + n
      /\ \A i \in 1 .. m : c[i] = e[i]
      /\ \A i \in 1 .. m + n : i > m => c[i] = t[i - m]
  OBVIOUS
<1>2. DOMAIN c = 1 .. m + n /\ ToSet(c) \subseteq S
  <2>1. c \in Seq(S) /\ Len(c) = m + n
    BY <1>1
  <2>2. /\ DOMAIN c = 1 .. Len(c) /\ \A i \in 1 .. Len(c) : c[i] \in S
        /\ ToSet(c) = {c[i] : i \in 1 .. Len(c)}
    BY ONLY <2>1, SeqAt
  <2> QED
    BY ONLY <2>1, <2>2
<1>3. \A i \in 1 .. m + n : i <= m => i \in 1 .. m
  BY <1>1
<1>4. \A i \in 1 .. m + n : i > m => i - m \in 1 .. n
  BY <1>1
<1>5. /\ \A i, j \in 1 .. m : e[i] = e[j] => i = j
      /\ \A i, j \in 1 .. n : t[i] = t[j] => i = j
      /\ \A i \in 1 .. m : \A j \in 1 .. n : e[i] # t[j]
  BY DEF Distinct, Apart
<1> HIDE DEF m, n
<1>6. ASSUME NEW i \in 1 .. m + n, NEW j \in 1 .. m + n, c[i] = c[j] PROVE i = j
  <2>1. CASE i <= m /\ j <= m
    BY <1>1, <1>3, <1>5, <1>6, <2>1
  <2>2. CASE i <= m /\ j > m
    BY <1>1, <1>3, <1>4, <1>5, <1>6, <2>2
  <2>3. CASE i > m /\ j <= m
    BY <1>1, <1>3, <1>4, <1>5, <1>6, <2>3
  <2>4. CASE i > m /\ j > m
    <3>1. t[i - m] = t[j - m] /\ i - m \in 1 .. n /\ j - m \in 1 .. n
      BY <1>1, <1>4, <1>6, <2>4
    <3>2. i - m = j - m
      BY <1>5, <3>1
    <3> QED
      BY <1>1, <3>2
  <2>5. i \in Int /\ j \in Int /\ m \in Int
    BY <1>1
  <2> QED
    BY <2>1, <2>2, <2>3, <2>4, <2>5
<1> QED
  BY <1>2, <1>6 DEF IsInjective

\* What is always so has the types, and the vectors apart.
LEMMA StrongInv == Strong => Inv
<1> SUFFICES ASSUME Strong PROVE Inv
  OBVIOUS
<1> DEFINE s == State
           L == Len(heap)
<1>1. PICK e, t : Sound(s, e, t)
  BY DEF Strong
<1>2. /\ s.heap = heap /\ s.events = events /\ s.tmp = tmp /\ s.noteblock = noteblock
      /\ s.delay = delay /\ s.asked = asked
  BY DEF State
<1> HIDE DEF s
<1>3. /\ s \in States /\ events \in Within(L) /\ tmp \in Within(L) /\ asked \subseteq DOMAIN heap
      /\ tmp.last = IF t = <<>> THEN Nil ELSE t[Len(t)]
  BY <1>1, <1>2 DEF Sound, Held
<1>4. /\ heap \in Seq(NodeRecords) /\ DOMAIN heap = 1 .. L /\ L \in Nat
      /\ e \in Seq(DOMAIN heap) /\ t \in Seq(DOMAIN heap)
      /\ \A n \in DOMAIN heap : heap[n].next \in (0 .. L) \union {Unset}
      /\ Chain(heap, events) = e /\ Chain(heap, tmp) = t
      /\ Distinct(e) /\ Distinct(t) /\ Apart(e, t)
  BY <1>1, <1>2, HeldIs DEF Sound
<1>5. /\ \A n \in DOMAIN heap : /\ heap[n].delta \in Nat /\ heap[n].when \in Nat
                                /\ heap[n].func \in DOMAIN Body \union {"none"}
  BY <1>4, HeapIs
<1>6. noteblock \in BOOLEAN /\ delay \in Nat
  BY <1>2, <1>3 DEF States
<1>7. Nodes = 1 .. L
  BY DEF Nodes
<1>8. events \in Vectors /\ tmp \in Vectors
  BY <1>3 DEF Vectors, Within
<1>9. \A n \in DOMAIN heap : heap[n].next \in (1 .. L) \union {Nil, Unset}
  BY <1>4 DEF Nil
<1>10. ToSet(played) \subseteq DOMAIN heap
  BY SeqAt DEF Strong
<1> HIDE DEF L
<1>11. TypeOK
  BY <1>3, <1>4, <1>5, <1>6, <1>7, <1>8, <1>9, <1>10 DEF TypeOK, Strong
<1> DEFINE c == e \o t
<1>12. ToSet(c) \subseteq DOMAIN heap /\ IsInjective(c)
  BY <1>4, Joined
<1>13. Separate
  BY <1>3, <1>4, <1>7, <1>12 DEF Separate, Last
<1> QED
  BY <1>11, <1>13 DEF Inv

\* Whatever the scheme code does, the variables have their types, no node is
\* in both vectors or twice in one, and a new one is appended where the chain
\* of tmp ends (dvector.c:23-28, 55-60, 74-167; f.c:252-284, 286-345, 479-493).
THEOREM InvHolds == Spec => []Inv
<1>1. Spec => []Strong
  BY StrongInit, StrongNext, PTL DEF Spec
<1> QED
  BY <1>1, StrongInv, PTL

---------------------------------------------------------------------------
(* Bracketed files whose functions create no events.                       *)

\* Calls that leave the events alone.
Silent == [op : {"delay", "add"}, at : Nat]

\* The functions that a style calls.
Functions(s) == {s.oninit} \union {c.func : c \in {d \in s.calls : d.op = "metanote"}}

\* The functions of bracketed styles create no events themselves.
Quiet == \A s \in Styles : s.bracketed => \A f \in Functions(s) : Called(f) \subseteq Silent

\* All that metanotes call is silent.
Mute(h) == \A n \in DOMAIN h : Called(h[n].func) \subseteq Silent

\* The states s and z differ in the delay only.
Alike(s, z) ==
  /\ z \in States
  /\ z.heap = s.heap /\ z.events = s.events /\ z.tmp = s.tmp /\ z.noteblock = s.noteblock
  /\ z.asked = s.asked /\ z.crashed = s.crashed

\* A function without such calls changes the delay only.
LEMMA RunSilent ==
  ASSUME NEW s \in States, NEW func \in DOMAIN Body \union {"none"}, Called(func) \subseteq Silent,
         NEW garbage, NEW z, z = Run(s, func, garbage)
  PROVE  Alike(s, z)
<1> DEFINE V == {v \in States : Alike(s, v)}
<1>1. s \in V
  BY DEF Alike
<1>2. ASSUME NEW v \in V, NEW c \in Called(func) PROVE Call(v, c, garbage) \in V
  <2>1. c.op \in {"delay", "add"} /\ c.at \in Nat
    BY DEF Silent
  <2>2. v \in States /\ v.delay \in Nat /\ Alike(s, v)
    BY DEF States
  <2> DEFINE d == IF c.op = "delay" THEN c.at ELSE v.delay + c.at
             w == Call(v, c, garbage)
  <2>3. d \in Nat
    BY <2>1, <2>2
  <2>4. w = [v EXCEPT !.delay = d]
    <3>1. CASE c.op = "delay"
      BY <3>1 DEF Call
    <3>2. CASE c.op = "add"
      BY <3>2 DEF Call
    <3> QED
      BY <2>1, <3>1, <3>2
  <2> HIDE DEF d, w
  <2>5. Alike(v, w)
    BY <2>2, <2>3, <2>4 DEF Alike, States
  <2>6. w \in V
    BY <2>2, <2>5 DEF Alike
  <2> QED
    BY <2>6 DEF w
<1> HIDE DEF V
<1>3. z \in V
  BY <1>1, <1>2, RunStays
<1> QED
  BY <1>3 DEF V

\* What is sound stays sound with another delay.
LEMMA AlikeSound ==
  ASSUME NEW s, NEW e, NEW t, Sound(s, e, t), NEW z, Alike(s, z)
  PROVE  Sound(z, e, t)
BY DEF Alike, Sound, Held

\* From the place m on, the differences say when.
Due(h, e, m, base) ==
  \A i \in m + 1 .. Len(e) :
    h[e[i]].when = (IF i = m + 1 THEN base ELSE h[e[i - 1]].when) + h[e[i]].delta

\* While a bracketed file is loaded: events has what is asked for, in
\* differences, and tmp what the open noteblock has, in times.
Loading(s, e, t) ==
  /\ s.asked = ToSet(e) /\ Clocked(s.heap, e, 0)
  /\ \A i \in 1 .. Len(t) : s.heap[t[i]].when = s.heap[t[i]].delta
  /\ ~s.noteblock => t = <<>>

\* From then on: the events have been played from the first on, and the
\* differences of the others count from now.
Reading(s, e, t, p, now) ==
  /\ t = <<>> /\ s.asked = ToSet(e)
  /\ s.events.pos \in Nat /\ Len(p) + s.events.pos = Len(e)
  /\ \A i \in 1 .. Len(p) : p[i] = e[i]
  /\ s.events.pos > 0 => s.events.top = e[Len(p) + 1]
  /\ Due(s.heap, e, Len(p), now)

\* What z is after a call, when s was being loaded.
Grows(s, z) ==
  /\ \E a, b : Sound(z, a, b) /\ (z.crashed \/ Loading(z, a, b))
  /\ Mute(z.heap)
  /\ s.asked \subseteq z.asked
  /\ \A n \in DOMAIN s.heap : n \in DOMAIN z.heap /\ z.heap[n].when = s.heap[n].when

\* A new event, in an open noteblock.
LEMMA CreateGrows ==
  ASSUME NEW s, NEW e, NEW t, Sound(s, e, t), Loading(s, e, t), Mute(s.heap), s.noteblock, clock = 0,
         NEW start \in Nat, NEW func, Called(func) \subseteq Silent,
         NEW z, Created(s, e, t, start, func, z)
  PROVE  Grows(s, z)
<1> DEFINE h == s.heap
           g == z.heap
           n == Len(h) + 1
           u == Append(t, n)
<1>1. /\ Sound(z, e, u) /\ z.noteblock /\ z.asked = s.asked /\ Len(g) = n
      /\ g[n].when = start /\ g[n].delta = start /\ g[n].func = func
      /\ \A x \in DOMAIN h : /\ g[x].when = h[x].when /\ g[x].delta = h[x].delta
                             /\ g[x].func = h[x].func
  BY DEF Created
<1>2. /\ h \in Seq(NodeRecords) /\ DOMAIN h = 1 .. Len(h) /\ Len(h) \in Nat
      /\ e \in Seq(DOMAIN h) /\ t \in Seq(DOMAIN h)
  BY HeldIs DEF Sound
<1>3. DOMAIN g = 1 .. Len(g)
  BY <1>1, HeldIs DEF Sound
<1>4. /\ Len(u) = Len(t) + 1 /\ u[Len(t) + 1] = n
      /\ (\A i \in 1 .. Len(t) : u[i] = t[i]) /\ Len(t) \in Nat
  <2>1. t \in Seq(Nat) /\ n \in Nat
    BY <1>2
  <2> QED
    BY <2>1, AppendProperties
<1> HIDE DEF u
<1>5. /\ \A i \in 1 .. Len(e) : e[i] \in DOMAIN h
      /\ \A i \in 1 .. Len(t) : t[i] \in DOMAIN h
      /\ Len(e) \in Nat
  BY <1>2, SeqAt
<1>6. Mute(g)
  <2> SUFFICES ASSUME NEW x \in DOMAIN g PROVE Called(g[x].func) \subseteq Silent
    BY DEF Mute
  <2>1. CASE x = n
    BY <1>1, <2>1
  <2>2. CASE x # n
    <3>1. x \in DOMAIN h
      BY <1>1, <1>2, <1>3, <2>2
    <3> QED
      BY <1>1, <3>1 DEF Mute
  <2> QED
    BY <2>1, <2>2
<1>7. Clocked(g, e, 0)
  <2> SUFFICES ASSUME NEW i \in 1 .. Len(e)
               PROVE  g[e[i]].when = (IF i = 1 THEN 0 ELSE g[e[i - 1]].when) + g[e[i]].delta
    BY DEF Clocked
  <2>1. h[e[i]].when = (IF i = 1 THEN 0 ELSE h[e[i - 1]].when) + h[e[i]].delta
    BY DEF Loading, Clocked
  <2>2. i # 1 => i - 1 \in 1 .. Len(e)
    BY <1>5
  <2>3. g[e[i]].when = h[e[i]].when /\ g[e[i]].delta = h[e[i]].delta
    BY <1>1, <1>5
  <2>4. i # 1 => g[e[i - 1]].when = h[e[i - 1]].when
    BY <1>1, <1>5, <2>2
  <2>5. CASE i = 1
    BY <2>1, <2>3, <2>5
  <2>6. CASE i # 1
    BY <2>1, <2>3, <2>4, <2>6
  <2> QED
    BY <2>5, <2>6
<1>8. \A i \in 1 .. Len(u) : g[u[i]].when = g[u[i]].delta
  <2> TAKE i \in 1 .. Len(u)
  <2>1. CASE i = Len(t) + 1
    BY <1>1, <1>4, <2>1
  <2>2. CASE i # Len(t) + 1
    <3>1. i \in 1 .. Len(t)
      BY <1>4, <2>2
    <3>2. h[t[i]].when = h[t[i]].delta
      BY <3>1 DEF Loading
    <3> QED
      BY <1>1, <1>4, <1>5, <3>1, <3>2
  <2> QED
    BY <2>1, <2>2
<1>9. Loading(z, e, u)
  BY <1>1, <1>7, <1>8 DEF Loading
<1>10. \A x \in DOMAIN h : x \in DOMAIN g
  BY <1>1, <1>2, <1>3
<1> QED
  BY <1>1, <1>6, <1>9, <1>10 DEF Grows

\* Another state in which what is held is the same.
LEMMA SameGrows ==
  ASSUME NEW s, NEW e, NEW t, Sound(s, e, t), Loading(s, e, t), Mute(s.heap),
         NEW z, NEW u, Sound(z, e, u), u = t \/ u = <<>>, z.noteblock = s.noteblock \/ u = <<>>,
         z.heap = s.heap, z.asked = s.asked
  PROVE  Grows(s, z)
<1>1. Loading(z, e, u)
  <2>1. CASE u = t
    BY <2>1 DEF Loading
  <2>2. CASE u = <<>>
    BY <2>2 DEF Loading
  <2> QED
    BY <2>1, <2>2
<1> QED
  BY <1>1 DEF Grows

\* Calls that are ordered as brackets are keep this.
LEMMA CallGrows ==
  ASSUME NEW s, NEW e, NEW t, Sound(s, e, t), Loading(s, e, t), Mute(s.heap), ~s.crashed, clock = 0,
         NEW call \in Calls, NEW garbage \in {Nil, Unset},
         Creates(call) \/ call.op = "end" => s.noteblock,
         call.op = "begin" => ~s.noteblock, call.op = "clear" => s.asked = {},
         call.op = "metanote" => Called(call.func) \subseteq Silent,
         NEW z, z = Call(s, call, garbage)
  PROVE  Grows(s, z)
<1>1. s.delay \in Nat /\ s \in States /\ clock \in Nat
  BY DEF Sound, Held, States
<1>2. /\ call.op \in {"note", "metanote", "begin", "end", "clear", "delay", "add"}
      /\ call.op \in {"note", "metanote", "delay", "add"} => call.at \in Nat
      /\ call.op = "metanote" => call.func \in DOMAIN Body
  BY DEF Calls
<1>3. CASE call.op = "note"
  <2> DEFINE a == call.at + s.delay
             f == "none"
  <2>1. z = Create(s, a, f, Nil) /\ f \in DOMAIN Body \union {"none"} /\ Nil \in {Nil, Unset}
    BY <1>3 DEF Call, scm_note
  <2>2. a \in Nat /\ Called(f) \subseteq Silent /\ s.noteblock
    BY <1>1, <1>2, <1>3 DEF Called, Creates
  <2> HIDE DEF a, f
  <2>3. Created(s, e, t, a, f, z)
    BY <1>1, <2>1, <2>2, CreateSound
  <2> QED
    BY <2>2, <2>3, CreateGrows
<1>4. CASE call.op = "metanote"
  <2> DEFINE a == call.at
             f == call.func
  <2>1. z = Create(s, a, f, garbage)
    BY <1>4 DEF Call, scm_metanote
  <2>2. a \in Nat /\ f \in DOMAIN Body \union {"none"} /\ Called(f) \subseteq Silent /\ s.noteblock
    BY <1>2, <1>4 DEF Creates
  <2> HIDE DEF a, f
  <2>3. Created(s, e, t, a, f, z)
    BY <1>1, <2>1, <2>2, CreateSound
  <2> QED
    BY <2>2, <2>3, CreateGrows
<1>5. CASE call.op = "begin"
  <2>1. z = scm_noteblock_begin(s)
    BY <1>5 DEF Call
  <2>2. Sound(z, e, <<>>) /\ z.heap = s.heap /\ z.asked = s.asked
    BY <2>1, BeginSound
  <2> QED
    BY <2>2, SameGrows
<1>6. CASE call.op = "end"
  <2>1. z = scm_noteblock_end(s) /\ s.noteblock
    BY <1>6 DEF Call
  <2>2. PICK c, u : Ended(s, e, t, z, c, u)
    BY <2>1, EndSound
  <2>3. /\ Sound(z, c, u) /\ SameBut(s.heap, z.heap)
        /\ \/ z.crashed /\ z.asked = s.asked
           \/ /\ u = <<>> /\ ToSet(c) = ToSet(e) \union ToSet(t)
              /\ z.asked = s.asked \union ToSet(t) /\ ~z.noteblock /\ ~z.crashed
              /\ Clocked(s.heap, e, 0) /\ (\A i \in 1 .. Len(t) : s.heap[t[i]].when = s.heap[t[i]].delta)
                   => Clocked(z.heap, c, 0)
    BY <2>1, <2>2 DEF Ended
  <2>4. Mute(z.heap)
    BY <2>3 DEF Mute, SameBut
  <2>5. \A n \in DOMAIN s.heap : n \in DOMAIN z.heap /\ z.heap[n].when = s.heap[n].when
    BY <2>3 DEF SameBut
  <2>6. z.crashed \/ Loading(z, c, u)
    <3>1. CASE z.crashed
      BY <3>1
    <3>2. CASE ~z.crashed
      <4>1. /\ u = <<>> /\ z.asked = ToSet(c) /\ Clocked(z.heap, c, 0)
        BY <2>3, <3>2 DEF Loading
      <4> QED
        BY <4>1 DEF Loading
    <3> QED
      BY <3>1, <3>2
  <2>7. s.asked \subseteq z.asked
    BY <2>3
  <2> QED
    BY <2>3, <2>4, <2>5, <2>6, <2>7 DEF Grows
<1>7. CASE call.op = "clear"
  <2>1. z = scm_clear_events(s) /\ s.asked = {}
    BY <1>7 DEF Call
  <2>2. e = <<>>
    <3>1. ToSet(e) = {}
      BY <2>1 DEF Loading
    <3>2. e \in Seq(DOMAIN s.heap)
      BY HeldIs DEF Sound
    <3>3. Len(e) = 0
      <4>1. Len(e) \in Nat /\ ToSet(e) = {e[i] : i \in 1 .. Len(e)}
        BY <3>2, SeqAt
      <4>2. Len(e) > 0 => 1 \in 1 .. Len(e)
        BY <4>1
      <4>3. ~(Len(e) > 0)
        <5>1. Len(e) > 0 => e[1] \in ToSet(e)
          BY <4>1, <4>2
        <5> QED
          BY <3>1, <5>1
      <4> QED
        BY <4>1, <4>3
    <3> QED
      BY <3>2, <3>3, SeqAt
  <2>3. /\ Sound(z, <<>>, t) /\ z.heap = s.heap /\ z.noteblock = s.noteblock /\ z.asked = {}
    BY <2>1, ClearSound
  <2> QED
    BY <2>1, <2>2, <2>3, SameGrows
<1>8. CASE call.op = "delay"
  <2>1. z = [s EXCEPT !.delay = call.at] /\ call.at \in Nat
    BY <1>2, <1>8 DEF Call
  <2>2. Sound(z, e, t) /\ z.heap = s.heap /\ z.noteblock = s.noteblock /\ z.asked = s.asked
    BY <2>1, DelaySound
  <2> QED
    BY <2>2, SameGrows
<1>9. CASE call.op = "add"
  <2> DEFINE d == s.delay + call.at
  <2>1. z = [s EXCEPT !.delay = d] /\ d \in Nat
    BY <1>1, <1>2, <1>9 DEF Call
  <2> HIDE DEF d
  <2>2. Sound(z, e, t) /\ z.heap = s.heap /\ z.noteblock = s.noteblock /\ z.asked = s.asked
    BY <2>1, DelaySound
  <2> QED
    BY <2>2, SameGrows
<1> QED
  BY <1>2, <1>3, <1>4, <1>5, <1>6, <1>7, <1>8, <1>9

\* When the load has ended, everything is to come.
LEMMA RewindReads ==
  ASSUME NEW s, NEW e, NEW t, Sound(s, e, t), Loading(s, e, t), ~s.noteblock,
         NEW z, z = Rewound(s)
  PROVE  Sound(z, e, t) /\ Reading(z, e, t, <<>>, 0) /\ z.heap = s.heap
<1>1. /\ Sound(z, e, t) /\ z.events.pos = Len(e) /\ z.events.top = s.events.first
      /\ z.heap = s.heap /\ z.asked = s.asked
  BY RewindSound
<1>2. Len(e) \in Nat /\ (e = <<>> <=> Len(e) = 0)
  BY HeldIs, SeqAt DEF Sound
<1>3. e # <<>> => s.events.first = e[1]
  BY DEF Sound, Held, Chained
<1>4. Len(e) > 0 => z.events.top = e[1]
  BY <1>1, <1>2, <1>3
<1>5. Due(z.heap, e, 0, 0)
  BY <1>1 DEF Loading, Clocked, Due
<1>6. t = <<>> /\ z.asked = ToSet(e)
  BY <1>1 DEF Loading
<1>7. Len(<<>>) = 0 /\ 0 + Len(e) = Len(e) /\ 0 + 1 = 1
  BY <1>2
<1> QED
  BY <1>1, <1>2, <1>4, <1>5, <1>6, <1>7 DEF Reading

\* The place of the node that is read next.
LEMMA NextPlace ==
  ASSUME NEW s, NEW e, NEW t, Sound(s, e, t), NEW p \in Seq(Nat), NEW now, Reading(s, e, t, p, now),
         NEW m, m = Len(p)
  PROVE  /\ m \in Nat /\ Len(e) \in Nat /\ s.events.pos = Len(e) - m /\ s.events.pos \in Nat
         /\ s.events.pos > 0 => m + 1 \in 1 .. Len(e) /\ s.events.top = e[m + 1]
<1>1. m \in Nat
  OBVIOUS
<1>2. Len(e) \in Nat
  BY HeldIs, SeqAt DEF Sound
<1>3. s.events.pos \in Nat /\ m + s.events.pos = Len(e)
  BY DEF Reading
<1>4. s.events.pos > 0 => s.events.top = e[m + 1]
  BY DEF Reading
<1> DEFINE o == s.events.pos
           l == Len(e)
<1> HIDE DEF o, l
<1>5. o = l - m /\ (o > 0 => m + 1 \in 1 .. l)
  <2>1. m \in Nat /\ l \in Nat /\ o \in Nat /\ m + o = l
    BY <1>1, <1>2, <1>3 DEF o, l
  <2> QED
    BY ONLY <2>1
<1> QED
  BY <1>1, <1>2, <1>3, <1>4, <1>5 DEF o, l

\* What z is when the node n has been played, which makes p to q.
OnItsTime(s, e, t, p, now, n, z, q) ==
  /\ Sound(z, e, t) /\ Reading(z, e, t, q, now)
  /\ z.heap = s.heap /\ z.asked = s.asked
  /\ s.heap[n].when = now /\ n \notin ToSet(p) /\ n \in ToSet(e)

\* A note that is due is played at the time that it was asked for.
LEMMA PopReads ==
  ASSUME NEW s, NEW e, NEW t, Sound(s, e, t), NEW p \in Seq(Nat), NEW now \in Nat, Reading(s, e, t, p, now),
         NEW n, NEW y, Popped(s, e, t, n, y), s.heap[n].delta = 0, NEW z, Alike(y, z),
         NEW q, q = Append(p, n)
  PROVE  OnItsTime(s, e, t, p, now, n, z, q)
<1> DEFINE m == Len(p)
           l == Len(e)
           o == s.events.pos
           h == s.heap
<1>1. m \in Nat /\ l \in Nat /\ o = l - m /\ o \in Nat
  BY NextPlace
<1>2. /\ Sound(y, e, t) /\ n \in DOMAIN h /\ o \in 1 .. l /\ n = e[l - o + 1]
      /\ y.events.pos = o - 1 /\ y.events.top = h[n].next /\ y.heap = h /\ y.asked = s.asked
  BY DEF Popped
<1>3. /\ Sound(z, e, t) /\ z.events.pos = o - 1 /\ z.events.top = h[n].next /\ z.heap = h
      /\ z.asked = s.asked
  BY <1>2, AlikeSound DEF Alike
<1>4. /\ e \in Seq(DOMAIN h) /\ DOMAIN h = 1 .. Len(h) /\ Len(h) \in Nat /\ Distinct(e)
      /\ h \in Seq(NodeRecords)
  BY HeldIs DEF Sound
<1>5. /\ t = <<>> /\ s.asked = ToSet(e) /\ \A i \in 1 .. m : p[i] = e[i]
      /\ Due(h, e, m, now)
  BY DEF Reading
<1>6. \A i \in 1 .. l - 1 : h[e[i]].next = e[i + 1]
  BY DEF Sound, Held, Chained
<1>7. /\ Len(q) = m + 1 /\ q[m + 1] = n /\ \A i \in 1 .. m : q[i] = p[i]
  <2>1. n \in Nat
    BY <1>2, <1>4
  <2> QED
    BY <2>1, AppendProperties
<1>8. \A i \in 1 .. l : e[i] \in DOMAIN h /\ e[i] \in ToSet(e)
  BY <1>4, SeqAt
<1>9. ToSet(p) = {p[i] : i \in 1 .. m}
  BY SeqAt
<1>10. \A i, j \in 1 .. l : e[i] = e[j] => i = j
  BY <1>4 DEF Distinct
<1>11. h[n].when \in Nat /\ h[n].delta \in Nat
  BY <1>2, <1>4, HeapIs
<1>12. \A i \in m + 1 .. l : h[e[i]].when = (IF i = m + 1 THEN now ELSE h[e[i - 1]].when) + h[e[i]].delta
  BY <1>5 DEF Due
<1> HIDE DEF m, l, o, h
<1>13. l - o + 1 = m + 1 /\ m + 1 \in 1 .. l /\ m + 1 \in m + 1 .. l
  BY <1>1, <1>2
<1>14. n = e[m + 1]
  BY <1>2, <1>13
<1>15. h[n].when = now
  <2>1. h[n].when = now + h[n].delta
    BY <1>12, <1>13, <1>14
  <2>2. h[n].delta = 0
    BY DEF h
  <2> QED
    BY <1>11, <2>1, <2>2
<1>16. n \notin ToSet(p)
  <2> SUFFICES ASSUME NEW i \in 1 .. m, n = p[i] PROVE FALSE
    BY <1>9
  <2>1. i \in 1 .. l /\ i # m + 1
    BY <1>1, <1>13
  <2>2. e[i] = e[m + 1]
    BY <1>5, <1>14
  <2> QED
    BY <1>10, <1>13, <2>1, <2>2
<1>17. Due(h, e, m + 1, now)
  <2> SUFFICES ASSUME NEW i \in m + 1 + 1 .. l
               PROVE  h[e[i]].when = (IF i = m + 1 + 1 THEN now ELSE h[e[i - 1]].when) + h[e[i]].delta
    BY DEF Due, l
  <2>1. i \in m + 1 .. l /\ i # m + 1 /\ (i = m + 1 + 1 => i - 1 = m + 1)
    BY <1>1
  <2>2. h[e[i]].when = h[e[i - 1]].when + h[e[i]].delta
    BY <1>12, <2>1
  <2>3. i = m + 1 + 1 => h[e[i - 1]].when = now
    BY <1>14, <1>15, <2>1
  <2> QED
    BY <2>2, <2>3
<1>18. /\ o - 1 \in Nat /\ m + 1 + (o - 1) = l
       /\ o - 1 > 0 => m + 1 \in 1 .. l - 1
  BY <1>1, <1>2
<1>19. o - 1 > 0 => z.events.top = e[m + 1 + 1]
  BY <1>3, <1>6, <1>14, <1>18
<1>20. \A i \in 1 .. m + 1 : q[i] = e[i]
  <2> TAKE i \in 1 .. m + 1
  <2>1. CASE i = m + 1
    BY <1>7, <1>14, <2>1
  <2>2. CASE i # m + 1
    <3>1. i \in 1 .. m
      BY <1>1, <2>2
    <3> QED
      BY <1>5, <1>7, <3>1
  <2> QED
    BY <2>1, <2>2
<1>21. Len(e) = l
  BY DEF l
<1>22. Reading(z, e, t, q, now)
  BY <1>3, <1>5, <1>7, <1>17, <1>18, <1>19, <1>20, <1>21 DEF Reading
<1>23. n \in ToSet(e)
  BY <1>8, <1>13, <1>14
<1> QED
  BY <1>3, <1>15, <1>16, <1>22, <1>23 DEF OnItsTime, h

\* With nothing left to read, the clock may go on.
LEMMA NoneReads ==
  ASSUME NEW s, NEW e, NEW t, Sound(s, e, t), NEW p \in Seq(Nat), NEW now \in Nat, Reading(s, e, t, p, now),
         s.events.pos = 0
  PROVE  Reading(s, e, t, p, now + 1) /\ ToSet(e) \subseteq ToSet(p)
<1> DEFINE m == Len(p)
<1>1. m \in Nat /\ Len(e) \in Nat /\ Len(e) = m
  BY NextPlace
<1>2. Due(s.heap, e, m, now + 1)
  BY <1>1 DEF Due
<1>3. ToSet(e) \subseteq ToSet(p)
  <2>1. e \in Seq(DOMAIN s.heap)
    BY HeldIs DEF Sound
  <2>2. ToSet(e) = {e[i] : i \in 1 .. Len(e)}
    BY <2>1, SeqAt
  <2>3. ToSet(p) = {p[i] : i \in 1 .. Len(p)}
    BY SeqAt
  <2>4. \A i \in 1 .. Len(p) : p[i] = e[i]
    BY DEF Reading
  <2> QED
    BY <1>1, <2>2, <2>3, <2>4
<1> QED
  BY <1>2, <1>3 DEF Reading

\* Or with the next event one tick nearer.
LEMMA NearReads ==
  ASSUME NEW s, NEW e, NEW t, Sound(s, e, t), NEW p \in Seq(Nat), NEW now \in Nat, Reading(s, e, t, p, now),
         s.events.pos > 0, NEW n, n = s.events.top, s.heap[n].delta # 0, NEW z, Neared(s, e, t, n, z)
  PROVE  Reading(z, e, t, p, now + 1)
<1> DEFINE m == Len(p)
           l == Len(e)
           h == s.heap
           g == z.heap
<1>1. m \in Nat /\ l \in Nat /\ m + 1 \in 1 .. l /\ n = e[m + 1]
  BY NextPlace, SMTT(20)
<1>2. e \in Seq(DOMAIN h) /\ Distinct(e) /\ h \in Seq(NodeRecords)
  BY HeldIs DEF Sound
<1>3. \A i, j \in 1 .. l : e[i] = e[j] => i = j
  BY <1>2 DEF Distinct
<1>4. \A i \in 1 .. l : e[i] \in DOMAIN h
  BY <1>2, SeqAt
<1>5. /\ DOMAIN g = DOMAIN h /\ \A x \in DOMAIN h : g[x].when = h[x].when
      /\ g[n].delta = h[n].delta - 1
      /\ \A x \in DOMAIN g : x # n => g[x] = h[x]
      /\ z.events = s.events /\ z.asked = s.asked
  BY DEF Neared, SameBut
<1>6. \A i \in m + 1 .. l : h[e[i]].when = (IF i = m + 1 THEN now ELSE h[e[i - 1]].when) + h[e[i]].delta
  BY DEF Reading, Due
<1>7. \A x \in DOMAIN h : h[x].delta \in Nat /\ h[x].when \in Nat
  BY <1>2, HeapIs
<1>a. Len(e) = l
  OBVIOUS
<1> HIDE DEF m, l, h, g
<1>8. Due(g, e, m, now + 1)
  <2> SUFFICES ASSUME NEW i \in m + 1 .. l
               PROVE  g[e[i]].when = (IF i = m + 1 THEN now + 1 ELSE g[e[i - 1]].when) + g[e[i]].delta
    BY <1>a DEF Due
  <2>0. i \in 1 .. l
    BY <1>1
  <2>1. CASE i = m + 1
    <3>1. h[n].when = now + h[n].delta /\ g[n].when = h[n].when
      BY <1>1, <1>4, <1>5, <1>6, <2>0, <2>1
    <3>2. h[n].delta \in Nat
      BY <1>1, <1>4, <1>7
    <3> DEFINE a == h[n].delta
    <3>4. a \in Nat
      BY <3>2
    <3> HIDE DEF a
    <3>3. now + a = now + 1 + (a - 1)
      BY <3>4
    <3> QED
      BY <1>1, <1>5, <2>1, <3>1, <3>3 DEF a
  <2>2. CASE i # m + 1
    <3>1. i - 1 \in 1 .. l
      BY <1>1, <2>2
    <3>2. e[i] # n
      BY <1>1, <1>3, <2>0, <2>2
    <3>3. g[e[i]] = h[e[i]] /\ g[e[i - 1]].when = h[e[i - 1]].when
      BY <1>4, <1>5, <2>0, <3>1, <3>2
    <3>4. h[e[i]].when = h[e[i - 1]].when + h[e[i]].delta
      BY <1>6, <2>2
    <3> QED
      BY <2>2, <3>3, <3>4
  <2> QED
    BY <2>1, <2>2
<1> QED
  BY <1>5, <1>8 DEF Reading, m, g

\* Nothing that is left to read is due then.
LEMMA AllLater ==
  ASSUME NEW s, NEW e, NEW t, Sound(s, e, t), NEW p \in Seq(Nat), NEW now \in Nat, Reading(s, e, t, p, now),
         s.events.pos > 0, s.heap[s.events.top].delta # 0
  PROVE  \A n \in ToSet(e) \ ToSet(p) : s.heap[n].when > now
<1> DEFINE m == Len(p)
           l == Len(e)
           h == s.heap
           k == l - m - 1
           T == {i \in 0 .. k : h[e[m + 1 + i]].when > now}
<1>1. m \in Nat /\ l \in Nat /\ m + 1 \in 1 .. l /\ s.events.top = e[m + 1]
  BY NextPlace
<1>2. e \in Seq(DOMAIN h) /\ h \in Seq(NodeRecords)
  BY HeldIs DEF Sound
<1>3. (\A i \in 1 .. l : e[i] \in DOMAIN h) /\ ToSet(e) = {e[i] : i \in 1 .. l}
  BY <1>2, SeqAt
<1>4. \A x \in DOMAIN h : h[x].delta \in Nat /\ h[x].when \in Nat
  BY <1>2, HeapIs
<1>5. \A i \in m + 1 .. l : h[e[i]].when = (IF i = m + 1 THEN now ELSE h[e[i - 1]].when) + h[e[i]].delta
  BY DEF Reading, Due
<1>6. (\A i \in 1 .. m : p[i] = e[i]) /\ ToSet(p) = {p[i] : i \in 1 .. m}
  BY SeqAt DEF Reading
<1>7. h[e[m + 1]].delta # 0
  BY <1>1
<1> HIDE DEF m, l, h
<1>8. k \in Nat
  BY <1>1
<1>9. 0 \in T
  <2>1. h[e[m + 1]].when = now + h[e[m + 1]].delta
    BY <1>1, <1>5
  <2> DEFINE a == h[e[m + 1]].delta
             b == h[e[m + 1]].when
  <2>2. a \in Nat /\ a # 0 /\ b = now + a
    BY <1>1, <1>3, <1>4, <1>7, <2>1
  <2> HIDE DEF a, b
  <2>3. b > now
    BY <2>2
  <2>4. m + 1 + 0 = m + 1
    BY <1>1
  <2> QED
    BY <1>8, <2>3, <2>4 DEF b
<1>10. ASSUME NEW i \in 0 .. k - 1, i \in T PROVE i + 1 \in T
  <2> DEFINE j == m + 1 + i
             c == m + 1 + (i + 1)
  <2>1. c \in m + 1 .. l /\ c # m + 1 /\ c - 1 = j /\ c \in 1 .. l /\ j \in 1 .. l /\ i + 1 \in 0 .. k
    BY <1>1, <1>8
  <2>2. h[e[j]].when > now
    BY <1>10
  <2> HIDE DEF j, c, T
  <2>3. h[e[c]].when = h[e[j]].when + h[e[c]].delta
    BY <1>5, <2>1
  <2>4. h[e[c]].delta \in Nat /\ h[e[j]].when \in Nat
    BY <1>3, <1>4, <2>1
  <2> DEFINE a == h[e[c]].delta
             b == h[e[j]].when
  <2> HIDE DEF a, b
  <2>5. b + a > now
    BY <2>2, <2>4 DEF a, b
  <2>6. h[e[c]].when > now
    BY <2>3, <2>5 DEF a, b
  <2> QED
    BY <2>1, <2>6 DEF c, T
<1>11. 0 .. k \subseteq T
  <2> HIDE DEF T, k
  <2> QED
    BY <1>8, <1>9, <1>10, UpTo
<1>12. ASSUME NEW n \in ToSet(e) \ ToSet(p) PROVE h[n].when > now
  <2>1. PICK i \in 1 .. l : n = e[i]
    BY <1>3
  <2>2. i \notin 1 .. m
    BY <1>6, <2>1
  <2>3. i - m - 1 \in 0 .. k /\ m + 1 + (i - m - 1) = i
    BY <1>1, <2>2
  <2> DEFINE j == i - m - 1
  <2> HIDE DEF j
  <2>4. j \in T /\ m + 1 + j = i
    BY <1>11, <2>3 DEF j
  <2> QED
    BY <2>1, <2>4
<1> QED
  BY <1>12 DEF h

\* What holds of bracketed files: where each event is in the vectors, and
\* what the differences add up to.
Ledger ==
  style.bracketed =>
    /\ Mute(heap)
    /\ \E e, t : /\ Sound(State, e, t)
                 /\ phase = "load" => clock = 0 /\ played = <<>> /\ Loading(State, e, t)
                 /\ phase \in {"init", "idle", "tick"} => Reading(State, e, t, played, clock)

\* The inductive invariant of bracketed files.
IInv == Strong /\ Ledger

\* A step of a bracketed file after which this holds.
LEMMA LedgerOf ==
  ASSUME style' = style, Mute(heap'), NEW e, NEW t, Sound(State', e, t),
         phase' = "load" => clock' = 0 /\ played' = <<>> /\ Loading(State', e, t),
         phase' \in {"init", "idle", "tick"} => Reading(State', e, t, played', clock')
  PROVE  Ledger'
<1> DEFINE Q == \E a, b : /\ Sound(State, a, b)
                          /\ phase = "load" => clock = 0 /\ played = <<>> /\ Loading(State, a, b)
                          /\ phase \in {"init", "idle", "tick"} => Reading(State, a, b, played, clock)
<1>1. \E a, b : /\ Sound(State', a, b)
                /\ phase' = "load" => clock' = 0 /\ played' = <<>> /\ Loading(State', a, b)
                /\ phase' \in {"init", "idle", "tick"} => Reading(State', a, b, played', clock')
  OBVIOUS
<1>2. Q'
  BY <1>1
<1> HIDE DEF Q
<1>3. Mute(heap)'
  BY DEF Mute
<1> QED
  BY <1>2, <1>3 DEF Ledger, Q

\* A step after which only the delay may be another.
LEMMA AlikeBecame ==
  ASSUME NEW s, ~s.crashed, NEW z, Alike(s, z), NEW next, Becomes(z, next)
  PROVE  Alike(s, State') /\ heap' = s.heap /\ asked' = s.asked /\ phase' = next
<1>1. /\ State' = [heap |-> z.heap, events |-> z.events, tmp |-> z.tmp, noteblock |-> z.noteblock,
                   delay |-> z.delay, asked |-> z.asked, crashed |-> FALSE]
      /\ heap' = z.heap /\ asked' = z.asked /\ phase' = IF z.crashed THEN "crashed" ELSE next
  BY DEF Becomes, State
<1>2. /\ z \in States /\ z.crashed \in BOOLEAN /\ ~z.crashed
      /\ z.heap = s.heap /\ z.events = s.events /\ z.tmp = s.tmp /\ z.noteblock = s.noteblock
      /\ z.asked = s.asked /\ z.crashed = s.crashed
  BY DEF Alike, States
<1> DEFINE y == State'
<1>3. /\ y.heap = z.heap /\ y.events = z.events /\ y.tmp = z.tmp /\ y.noteblock = z.noteblock
      /\ y.asked = z.asked /\ y.crashed = FALSE /\ y \in States
  BY <1>1, <1>2 DEF States
<1> HIDE DEF y
<1>4. Alike(s, y)
  BY <1>2, <1>3 DEF Alike
<1> QED
  BY <1>1, <1>2, <1>4 DEF y

\* Such a step keeps what is read.
LEMMA AlikeReads ==
  ASSUME NEW s, NEW e, NEW t, NEW p, NEW now, Reading(s, e, t, p, now), NEW z, Alike(s, z)
  PROVE  Reading(z, e, t, p, now)
BY DEF Reading, Alike

\* At first.
LEMMA LedgerInit == Init => Ledger
<1> SUFFICES ASSUME Init PROVE Ledger
  OBVIOUS
<1>1. /\ heap = <<>> /\ asked = {} /\ played = <<>> /\ clock = 0 /\ phase = "load" /\ noteblock = FALSE
      /\ events.size = 0 /\ tmp.size = 0
  BY DEF Init, Zeroed
<1>2. PICK e, t : Sound(State, e, t)
  BY StrongInit DEF Strong
<1>3. State.heap = heap /\ State.asked = asked /\ State.events = events /\ State.tmp = tmp
  BY DEF State
<1>4. e = <<>> /\ t = <<>>
  <2>1. /\ e \in Seq(DOMAIN heap) /\ t \in Seq(DOMAIN heap) /\ Len(e) = 0 /\ Len(t) = 0
    BY <1>1, <1>2, <1>3, HeldIs DEF Sound
  <2> QED
    BY <2>1, SeqAt
<1>5. Loading(State, e, t)
  <2>1. ToSet(e) = {}
    BY <1>4 DEF ToSet
  <2>2. Clocked(State.heap, e, 0)
    BY <1>4 DEF Clocked
  <2> QED
    BY <1>1, <1>3, <1>4, <2>1, <2>2 DEF Loading
<1>6. Mute(heap)
  BY <1>1 DEF Mute
<1> QED
  BY <1>1, <1>2, <1>5, <1>6 DEF Ledger

\* The events that are to come, as the schedule has them.
Pending == {[id |-> n, time |-> heap[n].when] : n \in asked \ ToSet(played)}

\* A step of the schedule, for a bracketed file.
Promised ==
  \/ /\ Pending \subseteq Pending' /\ \A x \in Pending' \ Pending : x.time >= clock
     /\ clock' = clock /\ Len(played') = Len(played)
  \/ /\ \E x \in Pending : x.time = clock /\ Pending' = Pending \ {x}
     /\ clock' = clock /\ Len(played') = Len(played) + 1
  \/ /\ \A x \in Pending : x.time > clock
     /\ clock' = clock + 1 /\ Pending' = Pending /\ Len(played') = Len(played)

\* A step that leaves the schedule be.
LEMMA NoPromise ==
  ASSUME \A n \in asked : heap'[n].when = heap[n].when, asked' = asked, played' = played, clock' = clock
  PROVE  Promised
<1>1. Pending' = Pending
  BY DEF Pending
<1> QED
  BY <1>1 DEF Promised

\* Under what is assumed of the style, the functions leave the events alone.
LEMMA QuietIs ==
  ASSUME Quiet, style \in Styles, style.bracketed
  PROVE  /\ Called(style.oninit) \subseteq Silent
         /\ \A c \in style.calls : c.op = "metanote" => Called(c.func) \subseteq Silent
BY DEF Quiet, Functions

\* Loading keeps the ledger, and adds to the schedule.
LEMMA LoadStep ==
  ASSUME IInv, Quiet, style.bracketed, Load
  PROVE  Ledger' /\ Promised
<1> DEFINE s == State
<1>1. /\ phase = "load" /\ style \in Styles /\ style' = style /\ clock' = clock /\ played' = played
  BY DEF Load, IInv, Strong
<1>2. PICK e, t : /\ Sound(s, e, t) /\ clock = 0 /\ played = <<>> /\ Loading(s, e, t)
  BY <1>1 DEF IInv, Ledger
<1>3. PICK c \in style.calls, garbage \in style.garbage :
        Ordered(c) /\ Becomes(Call(State, c, garbage), "load")
  BY DEF Load
<1> DEFINE z == Call(s, c, garbage)
<1>4. /\ c \in Calls /\ garbage \in {Nil, Unset} /\ (c.op = "metanote" => Called(c.func) \subseteq Silent)
  BY <1>1, StyleIs, QuietIs
<1>5. /\ s.heap = heap /\ s.asked = asked /\ s.noteblock = noteblock /\ ~s.crashed
  BY DEF State
<1>6. /\ Creates(c) \/ c.op = "end" => s.noteblock
      /\ c.op = "begin" => ~s.noteblock
      /\ c.op = "clear" => s.asked = {}
  BY <1>3, <1>5 DEF Ordered
<1>7. z = Call(s, c, garbage) /\ Becomes(z, "load") /\ Mute(s.heap)
  BY <1>3, <1>5 DEF IInv, Ledger
<1> HIDE DEF z, s
<1>8. Grows(s, z)
  BY <1>2, <1>4, <1>5, <1>6, <1>7, CallGrows
<1>9. PICK a, b : Sound(z, a, b) /\ (z.crashed \/ Loading(z, a, b))
  BY <1>8 DEF Grows
<1>10. z \in States
  BY <1>9 DEF Sound, Held
<1>11. /\ Sound(State', a, b) /\ heap' = z.heap /\ asked' = z.asked /\ noteblock' = z.noteblock
       /\ phase' = IF z.crashed THEN "crashed" ELSE "load"
  BY <1>7, <1>9, Became DEF Becomes
<1>12. phase' = "load" => Loading(State', a, b)
  <2>1. /\ State'.heap = heap' /\ State'.asked = asked' /\ State'.noteblock = noteblock'
    BY DEF State
  <2> QED
    BY <1>9, <1>11, <2>1 DEF Loading
<1>13. Mute(heap')
  BY <1>8, <1>11 DEF Grows
<1>14. Ledger'
  BY <1>1, <1>2, <1>11, <1>12, <1>13, LedgerOf
<1>15. heap' \in Seq(NodeRecords) /\ asked' \subseteq DOMAIN heap' /\ asked \subseteq DOMAIN heap
  <2>1. z.heap \in Seq(NodeRecords) /\ z.asked \subseteq DOMAIN z.heap
    BY <1>9 DEF Sound, Held, States
  <2>2. s.asked \subseteq DOMAIN s.heap
    BY <1>2 DEF Sound, Held
  <2> QED
    BY <1>5, <1>11, <2>1, <2>2
<1>16. \A n \in DOMAIN heap' : heap'[n].when \in Nat
  BY <1>15, HeapIs
<1>17. asked \subseteq asked' /\ \A n \in asked : heap'[n].when = heap[n].when
  BY <1>5, <1>8, <1>11, <1>15 DEF Grows
<1>18. Pending \subseteq Pending'
  BY <1>1, <1>17 DEF Pending
<1>19. \A x \in Pending' : x.time \in Nat
  BY <1>15, <1>16 DEF Pending
<1>20. \A x \in Pending' \ Pending : x.time >= clock
  BY <1>2, <1>19
<1> QED
  BY <1>1, <1>14, <1>18, <1>20 DEF Promised

\* The end of the load.
LEMMA LoadedStep ==
  ASSUME IInv, style.bracketed, Loaded
  PROVE  Ledger' /\ Promised
<1> DEFINE s == State
           z == Rewound(s)
<1>1. /\ phase = "load" /\ style' = style /\ clock' = clock /\ played' = played /\ phase' = "init"
      /\ heap' = heap /\ asked' = asked /\ ~noteblock
  BY DEF Loaded
<1>2. PICK e, t : /\ Sound(s, e, t) /\ clock = 0 /\ played = <<>> /\ Loading(s, e, t)
  BY <1>1 DEF IInv, Ledger
<1>3. State' = z
  <2>1. s \in States
    BY <1>2 DEF Sound, Held
  <2> QED
    BY <2>1, LoadedIs
<1>4. s.heap = heap /\ s.noteblock = noteblock /\ Mute(heap)
  BY DEF State, IInv, Ledger
<1>5. z = Rewound(s)
  OBVIOUS
<1> HIDE DEF z, s
<1>6. Sound(z, e, t) /\ Reading(z, e, t, <<>>, 0)
  BY <1>1, <1>2, <1>4, <1>5, RewindReads
<1>7. Ledger'
  BY <1>1, <1>2, <1>3, <1>4, <1>6, LedgerOf
<1> QED
  BY <1>1, <1>7, NoPromise

\* ps_init calls a function that leaves the events alone.
LEMMA InitStep ==
  ASSUME IInv, Quiet, style.bracketed, ps_init
  PROVE  Ledger' /\ Promised
<1> DEFINE s == State
           f == style.oninit
<1>1. /\ phase = "init" /\ style' = style /\ clock' = clock /\ played' = played /\ style \in Styles
  BY DEF ps_init, IInv, Strong
<1>2. PICK e, t : Sound(s, e, t) /\ Reading(s, e, t, played, clock)
  BY <1>1 DEF IInv, Ledger
<1>3. PICK garbage \in style.garbage : Becomes(Run(s, f, garbage), "idle")
  BY DEF ps_init
<1> DEFINE z == Run(s, f, garbage)
<1>4. f \in DOMAIN Body \union {"none"} /\ Called(f) \subseteq Silent
  BY <1>1, StyleIs, QuietIs
<1>5. s.heap = heap /\ s.asked = asked /\ Mute(heap) /\ ~s.crashed /\ s \in States
  BY <1>2 DEF State, IInv, Ledger, Sound, Held
<1>6. z = Run(s, f, garbage) /\ Becomes(z, "idle")
  BY <1>3
<1> HIDE DEF z, s, f
<1>7. Alike(s, z)
  BY <1>4, <1>5, <1>6, RunSilent
<1>8. Alike(s, State') /\ heap' = heap /\ asked' = asked /\ phase' = "idle"
  BY <1>5, <1>6, <1>7, AlikeBecame
<1>9. Sound(State', e, t) /\ Reading(State', e, t, played, clock)
  BY <1>2, <1>8, AlikeSound, AlikeReads
<1>10. Ledger'
  BY <1>1, <1>5, <1>8, <1>9, LedgerOf
<1> QED
  BY <1>1, <1>8, <1>10, NoPromise

\* An event that is due is played, on time.
LEMMA EventStep ==
  ASSUME IInv, Quiet, style.bracketed, Event
  PROVE  Ledger' /\ Promised
<1> DEFINE r == State
<1>1. phase = "tick"
  BY DEF Event
<1>2. PICK e, t : Sound(r, e, t) /\ Reading(r, e, t, played, clock)
  BY <1>1 DEF IInv, Ledger
<1>3. /\ style' = style /\ clock' = clock /\ clock \in Nat /\ style \in Styles
      /\ played \in Seq(DOMAIN heap) /\ Mute(heap)
  BY EventsAssumption DEF Event, IInv, Strong, Ledger
<1>4. /\ r.heap = heap /\ r.asked = asked /\ r.events = events /\ r.crashed = FALSE
      /\ r.heap \in Seq(NodeRecords) /\ DOMAIN heap = 1 .. Len(heap) /\ Len(heap) \in Nat
  <2>1. r.heap = heap /\ r.asked = asked /\ r.events = events /\ r.crashed = FALSE
    BY DEF State
  <2>2. r.heap \in Seq(NodeRecords) /\ DOMAIN r.heap = 1 .. Len(r.heap) /\ Len(r.heap) \in Nat
    BY <1>2, HeldIs DEF Sound
  <2> QED
    BY <2>1, <2>2
<1>5. played \in Seq(Nat)
  <2>1. DOMAIN heap \subseteq Nat
    BY <1>4
  <2> QED
    BY <1>3, <2>1, SeqWider
<1>6. \/ phase' = "crashed" /\ UNCHANGED <<data, played>> /\ events.top = Unset
      \/ \E n \in DOMAIN heap : \E s, z : \E garbage \in style.garbage :
           /\ heap[n].delta = 0 /\ Popped(r, e, t, n, s) /\ heap[n] \in NodeRecords
           /\ z = Merge(Run(s, heap[n].func, garbage)) /\ Becomes(z, "tick")
           /\ played' = Append(played, n)
  BY <1>2, EventIs
<1>7. CASE phase' = "crashed" /\ UNCHANGED <<data, played>> /\ events.top = Unset
  <2>1. State' = r /\ heap' = heap /\ asked' = asked /\ played' = played
    BY <1>7 DEF State, data
  <2>2. Sound(State', e, t)
    BY <1>2, <2>1
  <2>3. Ledger'
    BY <1>3, <1>7, <2>1, <2>2, LedgerOf
  <2> QED
    BY <1>3, <2>1, <2>3, NoPromise
<1>8. CASE \E n \in DOMAIN heap : \E s, z : \E garbage \in style.garbage :
             /\ heap[n].delta = 0 /\ Popped(r, e, t, n, s) /\ heap[n] \in NodeRecords
             /\ z = Merge(Run(s, heap[n].func, garbage)) /\ Becomes(z, "tick")
             /\ played' = Append(played, n)
  <2>1. PICK n \in DOMAIN heap : \E s, z : \E garbage \in style.garbage :
             /\ heap[n].delta = 0 /\ Popped(r, e, t, n, s) /\ heap[n] \in NodeRecords
             /\ z = Merge(Run(s, heap[n].func, garbage)) /\ Becomes(z, "tick")
             /\ played' = Append(played, n)
    BY <1>8
  <2>2. PICK s, z : \E garbage \in style.garbage :
             /\ heap[n].delta = 0 /\ Popped(r, e, t, n, s) /\ heap[n] \in NodeRecords
             /\ z = Merge(Run(s, heap[n].func, garbage)) /\ Becomes(z, "tick")
             /\ played' = Append(played, n)
    BY <2>1
  <2>3. PICK garbage \in style.garbage :
             /\ heap[n].delta = 0 /\ Popped(r, e, t, n, s) /\ heap[n] \in NodeRecords
             /\ z = Merge(Run(s, heap[n].func, garbage)) /\ Becomes(z, "tick")
             /\ played' = Append(played, n)
    BY <2>2
  <2> DEFINE f == heap[n].func
             y == Run(s, f, garbage)
             q == Append(played, n)
  <2>4. /\ f \in DOMAIN Body \union {"none"} /\ Called(f) \subseteq Silent
        /\ z = Merge(y) /\ y = Run(s, f, garbage) /\ q = Append(played, n) /\ played' = q
    BY <1>3, <2>3 DEF NodeRecords, Mute
  <2> HIDE DEF f, y, q, r
  <2>5. s \in States /\ Sound(s, e, t) /\ s.crashed = FALSE
    BY <1>4, <2>3 DEF Popped, Sound, Held
  <2>6. Alike(s, y)
    BY <2>4, <2>5, RunSilent
  <2>7. Sound(y, e, t) /\ t = <<>>
    BY <1>2, <2>5, <2>6, AlikeSound DEF Reading
  <2>8. z = y
    <3>1. Held(y, e, t) /\ (t = <<>> => y.tmp.last = Nil)
      BY <2>7 DEF Sound
    <3> QED
      BY <2>4, <2>7, <3>1, MergeSound
  <2>9. Popped(r, e, t, n, s) /\ r.heap[n].delta = 0 /\ Alike(s, z)
    BY <1>4, <2>3, <2>6, <2>8
  <2>10. /\ Sound(z, e, t) /\ Reading(z, e, t, q, clock) /\ z.heap = r.heap /\ z.asked = r.asked
         /\ r.heap[n].when = clock /\ n \notin ToSet(played) /\ n \in ToSet(e)
    <3>1. Sound(r, e, t) /\ Reading(r, e, t, played, clock)
      BY <1>2
    <3>2. clock \in Nat
      BY <1>3
    <3>3. q = Append(played, n)
      BY <2>4
    <3>4. Popped(r, e, t, n, s)
      BY <2>9
    <3>5. r.heap[n].delta = 0
      BY <2>9
    <3>6. Alike(s, z)
      BY <2>9
    <3> QED
      <4>1. OnItsTime(r, e, t, played, clock, n, z, q)
        BY ONLY <1>5, <3>1, <3>2, <3>3, <3>4, <3>5, <3>6, PopReads
      <4> QED
        BY <4>1 DEF OnItsTime
  <2>11. Alike(s, State') /\ heap' = s.heap /\ asked' = s.asked /\ phase' = "tick"
    BY <2>3, <2>5, <2>9, AlikeBecame
  <2>12. Alike(z, State') /\ heap' = heap /\ asked' = asked
    BY <1>4, <2>9, <2>10, <2>11 DEF Alike
  <2>13. Sound(State', e, t) /\ Reading(State', e, t, q, clock)
    BY <2>10, <2>12, AlikeSound, AlikeReads
  <2>14. Ledger'
    BY <1>3, <2>4, <2>11, <2>12, <2>13, LedgerOf
  <2>15. n \in asked \ ToSet(played) /\ heap[n].when = clock
    BY <1>2, <1>4, <2>10 DEF Reading
  <2> DEFINE x == [id |-> n, time |-> heap[n].when]
  <2>16. Len(q) = Len(played) + 1 /\ ToSet(q) = ToSet(played) \union {n}
    <3>1. /\ q \in Seq(DOMAIN heap) /\ Len(q) = Len(played) + 1 /\ q[Len(played) + 1] = n
          /\ \A i \in 1 .. Len(played) : q[i] = played[i]
      BY <1>3, <2>4, AppendProperties
    <3>2. /\ ToSet(q) = {q[i] : i \in 1 .. Len(q)}
          /\ ToSet(played) = {played[i] : i \in 1 .. Len(played)} /\ Len(played) \in Nat
      BY <1>3, <3>1, SeqAt
    <3>3. \A i \in 1 .. Len(played) + 1 : i \in 1 .. Len(played) \/ i = Len(played) + 1
      BY <3>2
    <3>4. \A i \in 1 .. Len(played) : i \in 1 .. Len(played) + 1
      BY <3>2
    <3>5. Len(played) + 1 \in 1 .. Len(played) + 1
      BY <3>2
    <3> QED
      BY <3>1, <3>2, <3>3, <3>4, <3>5
  <2>17. x \in Pending /\ x.time = clock
    BY <2>15 DEF Pending
  <2>18. Pending' = Pending \ {x}
    <3>1. Pending' = {[id |-> m, time |-> heap[m].when] : m \in asked \ (ToSet(played) \union {n})}
      BY <2>4, <2>12, <2>16 DEF Pending
    <3> QED
      BY <3>1 DEF Pending
  <2> HIDE DEF x
  <2> QED
    BY <1>3, <2>4, <2>14, <2>16, <2>17, <2>18 DEF Promised
<1> QED
  BY <1>6, <1>7, <1>8

\* The clock goes on, when nothing is due any more.
LEMMA LaterStep ==
  ASSUME IInv, style.bracketed, Later
  PROVE  Ledger' /\ Promised
<1> DEFINE s == State
           n == events.top
<1>1. /\ phase = "tick" /\ phase' = "idle" /\ clock' = clock + 1 /\ style' = style /\ played' = played
      /\ UNCHANGED <<events, tmp, noteblock, delay, asked>>
      /\ \/ events.pos = 0 /\ UNCHANGED heap
         \/ /\ events.pos > 0 /\ events.top # Unset /\ heap[events.top].delta # 0
            /\ heap' = [heap EXCEPT ![events.top].delta = @ - 1]
  BY DEF Later
<1>2. PICK e, t : Sound(s, e, t) /\ Reading(s, e, t, played, clock)
  BY <1>1 DEF IInv, Ledger
<1>3. clock \in Nat /\ played \in Seq(DOMAIN heap) /\ Mute(heap)
  BY EventsAssumption DEF IInv, Strong, Ledger
<1>4. s.heap = heap /\ s.asked = asked /\ s.events = events
  BY DEF State
<1>5. played \in Seq(Nat) /\ s \in States
  <2>1. DOMAIN s.heap = 1 .. Len(s.heap) /\ Len(s.heap) \in Nat
    BY <1>2, HeldIs DEF Sound
  <2>2. DOMAIN heap \subseteq Nat
    BY <1>4, <2>1
  <2>3. s \in States
    BY <1>2 DEF Sound, Held
  <2> QED
    BY <1>3, <2>2, <2>3, SeqWider
<1>6. CASE events.pos = 0 /\ UNCHANGED heap
  <2>1. State' = s
    BY <1>1, <1>6 DEF State
  <2> HIDE DEF s
  <2>2. Reading(s, e, t, played, clock + 1) /\ ToSet(e) \subseteq ToSet(played)
    BY <1>2, <1>3, <1>4, <1>5, <1>6, NoneReads
  <2>3. Ledger'
    BY <1>1, <1>2, <1>3, <1>6, <2>1, <2>2, LedgerOf
  <2>4. asked \subseteq ToSet(played)
    BY <1>2, <1>4, <2>2 DEF Reading
  <2>5. Pending = {} /\ Pending' = {}
    BY <1>1, <2>4 DEF Pending
  <2> QED
    BY <1>1, <2>3, <2>5 DEF Promised
<1>7. CASE /\ events.pos > 0 /\ events.top # Unset /\ heap[events.top].delta # 0
           /\ heap' = [heap EXCEPT ![events.top].delta = @ - 1]
  <2> DEFINE z == Nearer(s, n)
  <2>1. State' = z
    BY <1>1, <1>5, <1>7, LaterIs
  <2>2. z = Nearer(s, n) /\ n = s.events.top /\ s.events.pos > 0 /\ s.events.top # Unset /\ s.heap[n].delta # 0
    BY <1>4, <1>7
  <2>3. State'.heap = heap' /\ State'.asked = asked'
    BY DEF State
  <2> HIDE DEF z, s, n
  <2>4. n \in DOMAIN s.heap
    <3>1. Popped(s, e, t, n, Read(s, n))
      BY <1>2, <2>2, ReadSound
    <3> QED
      BY <3>1 DEF Popped
  <2>5. Neared(s, e, t, n, z)
    BY <1>2, <2>2, <2>4, NearerSound
  <2>6. Sound(z, e, t) /\ SameBut(heap, heap')
    BY <1>4, <2>1, <2>3, <2>5 DEF Neared
  <2>7. Reading(z, e, t, played, clock + 1)
    BY <1>2, <1>3, <1>5, <2>2, <2>5, NearReads
  <2>8. Mute(heap')
    BY <1>3, <2>6 DEF Mute, SameBut
  <2>9. Ledger'
    BY <1>1, <2>1, <2>6, <2>7, <2>8, LedgerOf
  <2>10. \A x \in ToSet(e) \ ToSet(played) : heap[x].when > clock
    <3>1. s.heap[s.events.top].delta # 0
      BY <2>2
    <3>2. \A x \in ToSet(e) \ ToSet(played) : s.heap[x].when > clock
      BY <1>2, <1>3, <1>5, <2>2, <3>1, AllLater
    <3> QED
      BY <1>4, <3>2
  <2>11. asked = ToSet(e) /\ asked' = asked /\ asked \subseteq DOMAIN heap
    BY <1>1, <1>2, <1>4 DEF Reading, Sound, Held
  <2>12. \A x \in Pending : x.time > clock
    BY <2>10, <2>11 DEF Pending
  <2>13. Pending' = Pending
    <3>1. \A x \in asked : heap'[x].when = heap[x].when
      BY <2>6, <2>11 DEF SameBut
    <3> QED
      BY <1>1, <2>11, <3>1 DEF Pending
  <2> QED
    BY <1>1, <2>9, <2>12, <2>13 DEF Promised
<1> QED
  BY <1>1, <1>6, <1>7

\* The other steps leave the schedule be.
LEMMA OtherStep ==
  ASSUME IInv, style.bracketed, Tick \/ Uninitialised \/ ps_clean \/ UNCHANGED vars
  PROVE  Ledger' /\ Promised
<1> DEFINE s == State
<1>1. PICK e, t : /\ Sound(s, e, t)
                  /\ phase = "load" => clock = 0 /\ played = <<>> /\ Loading(s, e, t)
                  /\ phase \in {"init", "idle", "tick"} => Reading(s, e, t, played, clock)
  BY DEF IInv, Ledger
<1>2. Mute(heap) /\ s.events = events /\ s.heap = heap /\ s.asked = asked /\ ~s.crashed
  BY DEF IInv, Ledger, State
<1>3. CASE Tick
  <2>1. /\ style' = style /\ clock' = clock /\ played' = played /\ phase = "idle" /\ phase' = "tick"
        /\ UNCHANGED data
    BY <1>3 DEF Tick
  <2>2. State' = s /\ heap' = heap /\ asked' = asked
    BY <2>1 DEF State, data
  <2> HIDE DEF s
  <2>3. Ledger'
    BY <1>1, <1>2, <2>1, <2>2, LedgerOf
  <2> QED
    BY <2>1, <2>2, <2>3, NoPromise
<1>4. CASE Uninitialised
  <2>1. phase = "tick" /\ events.pos = Unset
    BY <1>4 DEF Uninitialised
  <2>2. events.pos \in Nat
    BY <1>1, <1>2, <2>1 DEF Reading
  <2> QED
    BY <2>1, <2>2 DEF Unset
<1>5. CASE ps_clean
  <2> DEFINE b == \E n \in ToSet(Chain(s.heap, s.events)) : s.heap[n].nargs = Unset
             z == dvector_free(s)
  <2>1. Becomes(z, "cleaned") /\ style' = style /\ clock' = clock /\ played' = played
    BY <1>5 DEF ps_clean
  <2>2. z = [s EXCEPT !.crashed = b] /\ b \in BOOLEAN
    BY DEF dvector_free
  <2> HIDE DEF b, z, s
  <2>3. s \in States
    BY <1>1 DEF Sound, Held
  <2>4. /\ z.heap = s.heap /\ z.events = s.events /\ z.tmp = s.tmp /\ z.asked = s.asked
        /\ z \in States
    BY <2>2, <2>3 DEF States
  <2>5. Sound(z, e, t)
    BY <1>1, <2>4 DEF Sound, Held
  <2>6. /\ Sound(State', e, t) /\ heap' = z.heap /\ asked' = z.asked
        /\ phase' = IF z.crashed THEN "crashed" ELSE "cleaned"
    BY <2>1, <2>5, Became DEF Becomes
  <2>7. Ledger'
    BY <1>2, <2>1, <2>4, <2>6, LedgerOf
  <2> QED
    BY <1>2, <2>1, <2>4, <2>6, <2>7, NoPromise
<1>6. CASE UNCHANGED vars
  <2>1. /\ style' = style /\ clock' = clock /\ played' = played /\ phase' = phase
        /\ UNCHANGED data
    BY <1>6 DEF vars
  <2>2. State' = s /\ heap' = heap /\ asked' = asked
    BY <2>1 DEF State, data
  <2> HIDE DEF s
  <2>3. Ledger'
    BY <1>1, <1>2, <2>1, <2>2, LedgerOf
  <2> QED
    BY <2>1, <2>2, <2>3, NoPromise
<1> QED
  BY <1>3, <1>4, <1>5, <1>6

\* Every step of a bracketed file keeps the ledger, and is one of the schedule.
LEMMA BracketedStep ==
  ASSUME IInv, Quiet, style.bracketed, [Next]_vars
  PROVE  Ledger' /\ Promised
<1>1. CASE Load
  BY <1>1, LoadStep
<1>2. CASE Loaded
  BY <1>2, LoadedStep
<1>3. CASE ps_init
  BY <1>3, InitStep
<1>4. CASE Event
  BY <1>4, EventStep
<1>5. CASE Later
  BY <1>5, LaterStep
<1>6. CASE Tick \/ Uninitialised \/ ps_clean \/ UNCHANGED vars
  BY <1>6, OtherStep
<1> QED
  BY <1>1, <1>2, <1>3, <1>4, <1>5, <1>6 DEF Next, ps, ps_tick

\* The style is never another.
LEMMA StyleStays == [Next]_vars => style' = style
BY DEF Next, Load, Loaded, ps, ps_init, Tick, ps_tick, Event, Later, Uninitialised, ps_clean, vars

\* The inductive invariant.
LEMMA Inductive ==
  ASSUME Quiet
  PROVE  Spec => []IInv
<1>1. Init => IInv
  BY StrongInit, LedgerInit DEF IInv
<1>2. IInv /\ [Next]_vars => IInv'
  <2> SUFFICES ASSUME IInv, [Next]_vars PROVE IInv'
    OBVIOUS
  <2>1. Strong'
    BY StrongNext DEF IInv
  <2>2. Ledger'
    <3>1. CASE style.bracketed
      BY <3>1, BracketedStep
    <3>2. CASE ~style.bracketed
      BY <3>2, StyleStays DEF Ledger
    <3> QED
      BY <3>1, <3>2
  <2> QED
    BY <2>1, <2>2 DEF IInv
<1> QED
  BY <1>1, <1>2, PTL DEF Spec

\* The rest of a chain, from the place m on.
Rest(e, m) == [i \in 1 .. Len(e) - m |-> e[m + i]]

\* What is left to read is a chain, whose differences count from now.
LEMMA RestIs ==
  ASSUME NEW s, NEW e, NEW t, Sound(s, e, t), NEW p \in Seq(Nat), NEW now, Reading(s, e, t, p, now),
         NEW v, v = [size |-> s.events.pos, first |-> s.events.top], NEW r, r = Rest(e, Len(p))
  PROVE  Chained(s.heap, v, r) /\ Clocked(s.heap, r, now)
<1> DEFINE m == Len(p)
           l == Len(e)
           h == s.heap
           o == s.events.pos
<1>1. /\ m \in Nat /\ l \in Nat /\ o = l - m /\ o \in Nat
      /\ o > 0 => m + 1 \in 1 .. l /\ s.events.top = e[m + 1]
  BY NextPlace
<1>2. e \in Seq(DOMAIN h)
  BY HeldIs DEF Sound
<1>3. \A i \in 1 .. l : e[i] \in DOMAIN h
  BY <1>2, SeqAt
<1>4. \A i \in 1 .. l - 1 : h[e[i]].next = e[i + 1]
  BY DEF Sound, Held, Chained
<1>5. \A i \in m + 1 .. l : h[e[i]].when = (IF i = m + 1 THEN now ELSE h[e[i - 1]].when) + h[e[i]].delta
  BY DEF Reading, Due
<1>6. v.size = o /\ v.first = s.events.top
  OBVIOUS
<1>7. r = [i \in 1 .. l - m |-> e[m + i]]
  BY DEF Rest
<1> HIDE DEF m, l, h, o
<1>8. \A i \in 1 .. o : m + i \in 1 .. l /\ m + i \in m + 1 .. l
  BY <1>1
<1>9. r \in [1 .. o -> DOMAIN h] /\ \A i \in 1 .. o : r[i] = e[m + i]
  BY <1>1, <1>3, <1>7, <1>8
<1>10. r \in Seq(DOMAIN h) /\ Len(r) = o
  BY <1>1, <1>9, SeqIs
<1>11. r # <<>> => r[1] = v.first
  <2>1. r # <<>> => o > 0
    BY <1>1, <1>10, SeqAt
  <2> QED
    BY <1>1, <1>6, <1>9, <2>1
<1>12. \A i \in 1 .. o - 1 : h[r[i]].next = r[i + 1]
  <2> TAKE i \in 1 .. o - 1
  <2>1. /\ i \in 1 .. o /\ i + 1 \in 1 .. o /\ m + i \in 1 .. l - 1 /\ m + i + 1 = m + (i + 1)
    BY <1>1
  <2>2. r[i] = e[m + i] /\ r[i + 1] = e[m + (i + 1)]
    BY <1>9, <2>1
  <2> QED
    BY <1>4, <2>1, <2>2
<1>13. Chained(h, v, r)
  BY <1>6, <1>10, <1>11, <1>12 DEF Chained
<1>14. Clocked(h, r, now)
  <2> SUFFICES ASSUME NEW i \in 1 .. o
               PROVE  h[r[i]].when = (IF i = 1 THEN now ELSE h[r[i - 1]].when) + h[r[i]].delta
    BY <1>10 DEF Clocked
  <2> DEFINE j == m + i
  <2>1. j \in m + 1 .. l /\ r[i] = e[j] /\ (i = 1 => j = m + 1)
    BY <1>1, <1>8, <1>9
  <2>2. i # 1 => j # m + 1 /\ r[i - 1] = e[j - 1]
    <3>1. i # 1 => i - 1 \in 1 .. o /\ m + (i - 1) = j - 1 /\ j # m + 1
      BY <1>1
    <3> QED
      BY <1>9, <3>1
  <2> HIDE DEF j
  <2>3. h[e[j]].when = (IF j = m + 1 THEN now ELSE h[e[j - 1]].when) + h[e[j]].delta
    BY <1>5, <2>1
  <2> QED
    BY <2>1, <2>2, <2>3
<1> QED
  BY <1>13, <1>14 DEF h

\* Hence the differences of what is left agree with what was asked for.
LEMMA LedgerAgree == IInv => Agree
<1> SUFFICES ASSUME IInv, style.bracketed, phase \in {"idle", "tick"},
                    NEW v, v = [size |-> events.pos, first |-> events.top]
             PROVE  LET rest == Chain(heap, v)
                        time == Times(heap, rest)
                    IN  \A i \in DOMAIN rest : heap[rest[i]].when = clock + time[i]
  BY DEF Agree
<1> DEFINE s == State
           rest == Chain(heap, v)
           time == Times(heap, rest)
<1>1. PICK e, t : Sound(s, e, t) /\ Reading(s, e, t, played, clock)
  BY DEF IInv, Ledger
<1>2. s.heap = heap /\ s.events = events
  BY DEF State
<1> HIDE DEF s
<1>3. clock \in Nat /\ played \in Seq(DOMAIN heap)
  BY EventsAssumption DEF IInv, Strong
<1>4. s.heap \in Seq(NodeRecords) /\ DOMAIN s.heap = 1 .. Len(s.heap) /\ Len(s.heap) \in Nat
  BY <1>1, HeldIs DEF Sound
<1>5. played \in Seq(Nat)
  <2>1. DOMAIN heap \subseteq Nat
    BY <1>2, <1>4
  <2> QED
    BY <1>3, <2>1, SeqWider
<1> DEFINE r == Rest(e, Len(played))
<1>6. r = Rest(e, Len(played)) /\ v = [size |-> s.events.pos, first |-> s.events.top]
  BY <1>2
<1> HIDE DEF r
<1>7. Chained(s.heap, v, r) /\ Clocked(s.heap, r, clock)
  BY ONLY <1>1, <1>5, <1>6, RestIs
<1>8. rest = r
  BY <1>2, <1>7, ChainIs
<1>9. r \in Seq(DOMAIN heap) /\ DOMAIN r = 1 .. Len(r)
  BY <1>2, <1>7, SeqAt DEF Chained
<1>10. time = Times(heap, r) /\ Clocked(heap, r, clock) /\ heap \in Seq(NodeRecords)
  BY <1>2, <1>4, <1>7, <1>8
<1> HIDE DEF rest, time
<1>11. \A i \in 1 .. Len(r) : heap[r[i]].when = clock + time[i]
  BY <1>3, <1>9, <1>10, ClockedTimes
<1>12. \A i \in DOMAIN rest : heap[rest[i]].when = clock + time[i]
  BY <1>8, <1>9, <1>11
<1> QED
  BY <1>12 DEF rest, time

\* In a bracketed file whose functions create no events themselves, the
\* differences of what is left to read, added up, always say when each event
\* is to happen (dvector.c:74-198).
THEOREM AgreeHolds ==
  ASSUME Quiet
  PROVE  Spec => []Agree
<1>1. Spec => []IInv
  BY Inductive
<1> QED
  BY <1>1, LedgerAgree, PTL

\* What every step is for the schedule.
LEMMA StepKept ==
  ASSUME IInv, Quiet, [Next]_vars
  PROVE  [Promise!Next]_(Promise!vars)
<1>1. style' = style
  BY StyleStays
<1>2. CASE ~style.bracketed
  <2>1. UNCHANGED Promise!vars
    BY <1>1, <1>2 DEF Promise!vars
  <2> QED
    BY <2>1
<1>3. CASE style.bracketed
  <2>1. Promised
    BY <1>3, BracketedStep
  <2>2. CASE /\ Pending \subseteq Pending' /\ \A x \in Pending' \ Pending : x.time >= clock
             /\ clock' = clock /\ Len(played') = Len(played)
    <3>1. Promise!Add
      BY <1>1, <1>3, <2>2 DEF Promise!Add, Pending
    <3> QED
      BY <3>1 DEF Promise!Next
  <2>3. CASE /\ \E x \in Pending : x.time = clock /\ Pending' = Pending \ {x}
             /\ clock' = clock /\ Len(played') = Len(played) + 1
    <3>1. Promise!Play
      BY <1>1, <1>3, <2>3 DEF Promise!Play, Pending
    <3> QED
      BY <3>1 DEF Promise!Next
  <2>4. CASE /\ \A x \in Pending : x.time > clock
             /\ clock' = clock + 1 /\ Pending' = Pending /\ Len(played') = Len(played)
    <3>1. Promise!Tick
      BY <1>1, <1>3, <2>4 DEF Promise!Tick, Pending
    <3> QED
      BY <3>1 DEF Promise!Next
  <2> QED
    BY <2>1, <2>2, <2>3, <2>4 DEF Promised
<1> QED
  BY <1>2, <1>3

\* The first state is one of the schedule.
LEMMA InitKept == Init => Promise!Init
BY DEF Init, Promise!Init

\* Scheme code that is bracketed, and whose functions create no events
\* themselves, gets what the schedule promises: every event happens during
\* the tick that it was asked for, once (f.c:252-345, ps.c:140-182).
THEOREM KeptHolds ==
  ASSUME Quiet
  PROVE  Spec => Kept
<1>1. Spec => []IInv
  BY Inductive
<1>2. IInv /\ [Next]_vars => [Promise!Next]_(Promise!vars)
  BY StepKept
<1>3. Spec => Promise!Spec
  BY <1>1, <1>2, InitKept, PTL DEF Spec, Promise!Spec
<1> QED
  BY <1>3 DEF Kept
=============================================================================
