-------------------------- MODULE RenderLoopProofs --------------------------
(***************************************************************************)
(* Proofs about the render loops: for every width of the counter, size of  *)
(* the blocks and set of lengths, a patch is rendered for as long as it    *)
(* was last told, and what is rendered is what is written.                 *)
(***************************************************************************)
EXTENDS RenderLoop, TLAPS

Whole == 2 ^ Width   \* the number of values of the counter

\* What is left to render and what was rendered make up what is due.  Within
\* a block the counter still holds what the block is about to take off; when
\* the patch was told less than that, the counter has yet to wrap around.
Balance ==
  /\ pc = "start" => driver # "endless"
  /\ pc = "block" =>
       /\ driver = "file" /\ rendered >= i /\ written = rendered - i
       /\ \/ /\ len >= numsamps
             /\ rendered - i + len = due + (IF cut THEN Whole ELSE 0)
          \/ /\ len < numsamps /\ cut
             /\ rendered - i + len = due
  /\ driver # "endless" /\ pc # "block" =>
       /\ rendered + len = due + (IF cut THEN Whole ELSE 0)
       /\ pc = "done" => len = 0

LoopInv == Inv /\ Balance

\* The counter holds what is put into it, unless that is negative: taking off
\* more than there was goes around once.
LEMMA WrappedValue ==
  /\ Whole \in Nat /\ SP_BUFSIZE \in 1 .. Whole - 1 /\ Lengths \subseteq 0 .. Whole - 1
  /\ \A n \in 0 .. Whole - 1 : Wrapped(n) = n
  /\ \A n \in -Whole .. -1 : Wrapped(n) = n + Whole
<1>1. Whole \in Nat /\ SP_BUFSIZE \in 1 .. Whole - 1 /\ Lengths \subseteq 0 .. Whole - 1
  BY RenderLoopAssumption DEF Whole
<1>2. \A n \in Int : Wrapped(n) = n % Whole
  BY DEF Wrapped, Whole
<1> HIDE DEF Whole
<1>3. \A n \in 0 .. Whole - 1 : n % Whole = n
  BY <1>1
<1>4. \A n \in -Whole .. -1 : n % Whole = n + Whole
  BY <1>1
<1> QED
  BY <1>1, <1>2, <1>3, <1>4

\* What a call of the callback leaves behind, in terms of what it was told.
LEMMA CallbackEffect ==
  ASSUME Inv, NEW base \in Nat, NEW owed \in Nat, NEW taken \in 0 .. 1,
         Callback(base, owed, taken), driver # "endless" => len >= taken
  PROVE  /\ rendered' = rendered + 1
         /\ \/ /\ len' = IF len >= taken THEN len - taken ELSE Whole - 1
               /\ UNCHANGED <<changes, due, cut>>
            \/ /\ changes' \in 0 .. MaxChanges
               /\ \E d \in Lengths : /\ len' = IF d >= taken THEN d - taken ELSE Whole - 1
                                     /\ due' = base + d
                                     /\ cut' \in BOOLEAN /\ (cut' <=> d < owed)
<1>1. len \in 0 .. Whole - 1 /\ changes \in 0 .. MaxChanges
  BY DEF Inv, TypeOK, Whole
<1>2. \A n \in 0 .. Whole - 1 : Wrapped(n - taken) = IF n >= taken THEN n - taken ELSE Whole - 1
  <2> TAKE n \in 0 .. Whole - 1
  <2>1. CASE n >= taken
    BY <2>1, WrappedValue
  <2>2. CASE n < taken
    BY <2>2, WrappedValue
  <2> QED
    BY <2>1, <2>2, WrappedValue
<1>3. CASE len' = Wrapped(len - taken) /\ UNCHANGED <<changes, due, cut>>
  BY <1>1, <1>2, <1>3 DEF Callback
<1>4. ASSUME changes < MaxChanges, changes' = changes + 1, NEW d \in Lengths,
             len' = Wrapped(d - taken), due' = base + d, cut' = (d < owed)
      PROVE  /\ changes' \in 0 .. MaxChanges
             /\ len' = IF d >= taken THEN d - taken ELSE Whole - 1
             /\ cut' \in BOOLEAN /\ (cut' <=> d < owed)
  <2>1. changes' \in 0 .. MaxChanges /\ d \in 0 .. Whole - 1
    BY <1>1, <1>4, WrappedValue, RenderLoopAssumption
  <2>2. cut' \in BOOLEAN /\ (cut' <=> d < owed)
    <3>1. (d < owed) \in BOOLEAN
      BY <2>1, WrappedValue
    <3>2. cut' \in BOOLEAN
      BY <1>4, <3>1, Zenon
    <3>3. cut' <=> d < owed
      BY <1>4, Zenon
    <3> QED
      BY <3>2, <3>3
  <2> QED
    BY <1>2, <1>4, <2>1, <2>2
<1> QED
  BY <1>3, <1>4 DEF Callback

\* At first nothing is rendered and all of the length is due.
LEMMA LoopInit == Init => LoopInv
<1> USE WrappedValue
<1> SUFFICES ASSUME Init PROVE LoopInv
  OBVIOUS
<1>1. /\ len \in 0 .. Whole - 1 /\ len \in Nat
      /\ SP_BUFSIZE \in Nat /\ changes \in 0 .. MaxChanges
  BY RenderLoopAssumption DEF Init
<1>2. TypeOK
  <2>1. numsamps \in 0 .. SP_BUFSIZE /\ i \in 0 .. numsamps
    BY <1>1 DEF Init
  <2>2. due \in Nat /\ len \in 0 .. 2 ^ Width - 1
    BY <1>1 DEF Init, Whole
  <2> QED
    BY <1>1, <2>1, <2>2 DEF Init, TypeOK
<1>3. AllWritten /\ Balance
  BY <1>1 DEF Init, AllWritten, Balance
<1> QED
  BY <1>2, <1>3 DEF LoopInv, Inv

\* Every step of the loops keeps the balance.
LEMMA LoopStep == LoopInv /\ [Next]_vars => LoopInv'
<1> SUFFICES ASSUME LoopInv, [Next]_vars PROVE LoopInv'
  OBVIOUS
<1> USE WrappedValue DEF LoopInv, Inv, TypeOK, AllWritten, Balance, Whole
<1>1. CASE Start
  BY <1>1 DEF Start
<1>2. CASE Block
  BY <1>2 DEF Block
<1>3. CASE Sample
  <2>1. rendered - i \in Nat /\ numsamps \in Nat /\ driver = "file" /\ i < numsamps
        /\ pc = "block" /\ pc' = "block"
        /\ Callback(rendered - i, numsamps, 0)
        /\ i' = i + 1 /\ pos' = pos + 1 /\ UNCHANGED <<driver, numsamps, running, pc, written>>
    BY <1>3 DEF Sample
  <2>2. CASE len' = len /\ UNCHANGED <<changes, due, cut>> /\ rendered' = rendered + 1
    BY <1>3, <2>1, <2>2 DEF Sample
  <2>3. ASSUME NEW d \in Lengths, len' = d, due' = rendered - i + d,
               cut' \in BOOLEAN, cut' <=> d < numsamps,
               rendered' = rendered + 1, changes' \in 0 .. MaxChanges
        PROVE  LoopInv'
    <3>1. TypeOK'
      BY <2>1, <2>3
    <3>2. rendered' >= i' /\ written' = rendered' - i' /\ rendered' - i' = rendered - i
      BY <1>3, <2>1, <2>3 DEF Sample
    <3>3. Balance'
      <4>1. CASE d < numsamps
        BY <2>1, <2>3, <3>1, <3>2, <4>1
      <4>2. CASE d >= numsamps
        BY <2>1, <2>3, <3>1, <3>2, <4>2
      <4> QED
        BY <4>1, <4>2
    <3> QED
      BY <1>3, <3>1, <3>3 DEF Sample
  <2>4. \/ rendered' = rendered + 1 /\ len' = len /\ UNCHANGED <<changes, due, cut>>
        \/ /\ rendered' = rendered + 1 /\ changes' \in 0 .. MaxChanges
           /\ \E d \in Lengths : len' = d /\ due' = rendered - i + d
                                 /\ cut' \in BOOLEAN /\ (cut' <=> d < numsamps)
    <3>1. \A d \in Lengths \union {len} : d >= 0 /\ d - 0 = d
      OBVIOUS
    <3> QED
      BY <2>1, <3>1, CallbackEffect
  <2> QED
    BY <2>2, <2>3, <2>4
<1>4. CASE Write
  BY <1>4 DEF Write
<1>5. CASE Null
  <2>1. /\ Callback(rendered, 1, 1) /\ rendered \in Nat /\ pc = "test"
        /\ driver = "null" /\ (driver # "endless" => len >= 1)
        /\ UNCHANGED <<driver, numsamps, i, running, pc, written>> /\ pos' \in Nat
    BY <1>5 DEF Null
  <2>2. rendered' = rendered + 1
    BY <2>1, CallbackEffect
  <2>3. CASE len' = (IF len >= 1 THEN len - 1 ELSE Whole - 1) /\ UNCHANGED <<changes, due, cut>>
    BY <2>1, <2>2, <2>3
  <2>4. ASSUME NEW d \in Lengths, len' = (IF d >= 1 THEN d - 1 ELSE Whole - 1),
               due' = rendered + d, cut' \in BOOLEAN, cut' <=> d < 1, changes' \in 0 .. MaxChanges
        PROVE  LoopInv'
    <3>1. CASE d >= 1
      BY <2>1, <2>2, <2>4, <3>1
    <3>2. CASE d < 1
      <4>1. len' = Whole - 1 /\ due' = rendered /\ cut'
        BY <2>4, <3>2
      <4> QED
        BY <2>1, <2>2, <2>4, <4>1
    <3> QED
      BY <3>1, <3>2
  <2> QED
    BY <2>1, <2>3, <2>4, CallbackEffect
<1>6. CASE Endless
  <2>1. /\ Callback(rendered, 1, 1) /\ rendered \in Nat /\ pc = "test"
        /\ driver = "endless" /\ (driver # "endless" => len >= 1)
        /\ UNCHANGED <<driver, numsamps, i, running, pc, written>> /\ pos' \in Nat
    BY <1>6 DEF Endless
  <2>2. rendered' = rendered + 1
    BY <2>1, CallbackEffect
  <2>3. CASE len' = (IF len >= 1 THEN len - 1 ELSE Whole - 1) /\ UNCHANGED <<changes, due, cut>>
    BY <2>1, <2>2, <2>3
  <2>4. ASSUME NEW d \in Lengths, len' = (IF d >= 1 THEN d - 1 ELSE Whole - 1),
               due' = rendered + d, cut' \in BOOLEAN, cut' <=> d < 1, changes' \in 0 .. MaxChanges
        PROVE  LoopInv'
    <3>1. CASE d >= 1
      BY <2>1, <2>2, <2>4, <3>1
    <3>2. CASE d < 1
      <4>1. len' = Whole - 1 /\ due' = rendered /\ cut'
        BY <2>4, <3>2
      <4> QED
        BY <2>1, <2>2, <2>4, <4>1
    <3> QED
      BY <3>1, <3>2
  <2> QED
    BY <2>1, <2>3, <2>4, CallbackEffect
<1>7. CASE plumber_interrupt
  BY <1>7 DEF plumber_interrupt
<1>8. CASE Done
  BY <1>8 DEF Done
<1>9. CASE UNCHANGED vars
  BY <1>9 DEF vars
<1> QED
  BY <1>1, <1>2, <1>3, <1>4, <1>5, <1>6, <1>7, <1>8, <1>9 DEF Next, Loop

\* The counters stay in their ranges, and no sample is left out of the files.
THEOREM LoopInvariant == Spec => []LoopInv
<1> QED
  BY LoopInit, LoopStep, PTL DEF Spec

\* The part of it that the run checks.
THEOREM InvHolds == Spec => []Inv
<1>1. LoopInv => Inv
  BY DEF LoopInv
<1> QED
  BY LoopInvariant, <1>1, PTL

\* A patch is rendered for as long as it was last told; told to have ended
\* before the block has, for the whole range of the counter on top of that
\* (plumber.c:704-706, 767-789).
THEOREM TotalHolds == Spec => []Total
<1>1. LoopInv => Total
  BY RenderLoopAssumption DEF LoopInv, Inv, TypeOK, Balance, Total, Whole
<1> QED
  BY LoopInvariant, <1>1, PTL
=============================================================================
