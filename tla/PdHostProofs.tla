---------------------------- MODULE PdHostProofs ----------------------------
(***************************************************************************)
(* Proofs about the engine inside Pure Data, for buffers and programs of   *)
(* any size: what is compiled is what was asked for, and no file that is   *)
(* waited for is forgotten.                                                *)
(***************************************************************************)
EXTENDS PdHost, SequenceTheorems, TLAPS

From(b) == b * BUFSIZE   \* the first cell of a buffer

\* The note in please_parse is about the last message that was taken: its
\* file is at hand, or its program is in the buffer, with a NUL at most one
\* cell too far.
Pending ==
  LET what == asked[2]
  IN /\ please_parse = 1 /\ ~spoilt =>
          \/ what \in Files /\ fp = asked
          \/ what \in Missing /\ fp = NULL
     /\ please_parse = 2 /\ ~spoilt =>
          /\ what \in DOMAIN Size /\ Size[what] <= BUFSIZE
          /\ \A i \in 1 .. Size[what] : buf[From(whichbuf) + i - 1] = <<what, i>>
          /\ buf[From(whichbuf) + Size[what] + 1] = NUL

Shape ==
  /\ DOMAIN buf = 0 .. 2 * BUFSIZE + 1 /\ buf = [i \in DOMAIN buf |-> buf[i]]
  /\ messages \in 0 .. MaxMessages

HostInv == Shape /\ Inv /\ Pending /\ AsSent

\* The two buffers lie next to each other.
LEMMA FromValue ==
  ASSUME NEW b \in {0, 1}
  PROVE  From(b) \in {0, BUFSIZE} /\ (b = 0 => From(b) = 0) /\ (b = 1 => From(b) = BUFSIZE)
<1> QED
  BY PdHostAssumption DEF From

\* A program is as long as its size says, and its cells know their places.
LEMMA TextValue ==
  ASSUME NEW p \in DOMAIN Size
  PROVE  /\ Size[p] \in Nat /\ Text(p) \in Seq({p} \X Nat) /\ Len(Text(p)) = Size[p]
         /\ \A k \in 1 .. Size[p] : Text(p)[k] = <<p, k>>
<1>1. Size[p] \in Nat
  BY PdHostAssumption
<1>2. \A k \in 1 .. Size[p] : Text(p)[k] = <<p, k>> /\ Text(p)[k] \in {p} \X Nat
  BY <1>1 DEF Text
<1>3. Text(p) = [k \in 1 .. Size[p] |-> Text(p)[k]]
  BY DEF Text
<1> QED
  BY <1>1, <1>2, <1>3

\* What a buffer holds after cells are stored in it.
LEMMA StoreValue ==
  ASSUME Shape, NEW b \in {0, 1}, NEW cells, Len(cells) \in 0 .. BUFSIZE
  PROVE  /\ DOMAIN Store(b, cells) = DOMAIN buf
         /\ Store(b, cells) = [i \in DOMAIN buf |-> Store(b, cells)[i]]
         /\ \A k \in 1 .. Len(cells) : Store(b, cells)[From(b) + k - 1] = cells[k]
         /\ \A i \in DOMAIN buf :
              \/ Store(b, cells)[i] = buf[i]
              \/ \E k \in 1 .. Len(cells) : i = From(b) + k - 1 /\ Store(b, cells)[i] = cells[k]
<1>1. From(b) \in {0, BUFSIZE} /\ BUFSIZE \in Nat /\ Len(cells) \in Nat
  BY FromValue, PdHostAssumption
<1>2. Store(b, cells) =
        [i \in DOMAIN buf |->
           IF i \in From(b) .. From(b) + Len(cells) - 1 THEN cells[i - From(b) + 1] ELSE buf[i]]
  BY DEF Store, From
<1> HIDE DEF From
<1>3. \A k \in 1 .. Len(cells) : Store(b, cells)[From(b) + k - 1] = cells[k]
  <2> TAKE k \in 1 .. Len(cells)
  <2>1. From(b) + k - 1 \in DOMAIN buf /\ From(b) + k - 1 \in From(b) .. From(b) + Len(cells) - 1
    BY <1>1 DEF Shape
  <2>2. (From(b) + k - 1) - From(b) + 1 = k
    BY <1>1
  <2> QED
    BY <1>2, <2>1, <2>2
<1>4. \A i \in DOMAIN buf :
        \/ Store(b, cells)[i] = buf[i]
        \/ \E k \in 1 .. Len(cells) : i = From(b) + k - 1 /\ Store(b, cells)[i] = cells[k]
  <2> TAKE i \in DOMAIN buf
  <2>1. CASE i \in From(b) .. From(b) + Len(cells) - 1
    <3> DEFINE k == i - From(b) + 1
    <3>1. k \in 1 .. Len(cells) /\ i = From(b) + k - 1
      BY <1>1, <2>1 DEF Shape
    <3>2. Store(b, cells)[i] = cells[k]
      BY <1>2, <2>1
    <3> QED
      BY <3>1, <3>2
  <2>2. CASE i \notin From(b) .. From(b) + Len(cells) - 1
    BY <1>2, <2>2
  <2> QED
    BY <2>1, <2>2
<1> QED
  BY <1>2, <1>3, <1>4

\* A program with a NUL at most one cell too far is read with at most that
\* cell more: reading stops at the first NUL.
LEMMA ReadValue ==
  ASSUME Shape, NEW b \in {0, 1}, NEW p \in DOMAIN Size, Size[p] <= BUFSIZE,
         \A i \in 1 .. Size[p] : buf[From(b) + i - 1] = <<p, i>>,
         buf[From(b) + Size[p] + 1] = NUL
  PROVE  /\ Len(Read(b)) \in {Size[p], Size[p] + 1}
         /\ SubSeq(Read(b), 1, Size[p]) = Text(p)
<1> DEFINE n == Size[p]
           from == From(b)
           ends == {i \in from .. 2 * BUFSIZE + 1 : buf[i] = NUL}
           first == IF buf[from + n] = NUL THEN from + n ELSE from + n + 1
           least == CHOOSE i \in ends : \A j \in ends : i <= j
<1>1. from \in {0, BUFSIZE} /\ BUFSIZE \in Nat /\ n \in Nat
  BY FromValue, PdHostAssumption
<1>2. Read(b) = LET to == IF ends = {} THEN 2 * BUFSIZE + 2 ELSE least
                IN  [i \in 1 .. to - from |-> buf[from + i - 1]]
  BY DEF Read, From
<1> HIDE DEF from, n
<1>3. first \in ends /\ first \in {from + n, from + n + 1}
  BY <1>1 DEF from, n
<1>4. \A i \in 1 .. n : buf[from + i - 1] # NUL
  <2> TAKE i \in 1 .. n
  <2>1. buf[from + i - 1] = <<p, i>> /\ i # 0
    BY <1>1 DEF from, n
  <2> QED
    BY <2>1 DEF NUL
<1>5. \A j \in ends : first <= j
  <2> SUFFICES ASSUME NEW j \in ends, j < first PROVE FALSE
    BY <1>1, <1>3
  <2>1. j \in from .. from + n
    BY <1>1, <1>3
  <2>2. CASE j = from + n
    BY <1>1, <2>2
  <2>3. CASE j < from + n
    <3>1. j - from + 1 \in 1 .. n /\ from + (j - from + 1) - 1 = j
      BY <1>1, <2>1, <2>3
    <3> QED
      BY <1>4, <3>1
  <2> QED
    BY <1>1, <2>1, <2>2, <2>3
<1>6. least = first
  <2>1. least \in ends /\ \A j \in ends : least <= j
    BY <1>3, <1>5
  <2> HIDE DEF least
  <2>2. least <= first /\ first <= least /\ least \in Int /\ first \in Int
    BY <1>1, <1>3, <1>5, <2>1
  <2> QED
    BY <2>2
<1> DEFINE len == first - from
<1>7. Read(b) = [i \in 1 .. len |-> buf[from + i - 1]]
  BY <1>2, <1>3, <1>6
<1>8. len \in {n, n + 1} /\ len \in Nat
  BY <1>1, <1>3
<1> HIDE DEF ends, first, least, len
<1>9. Read(b) \in Seq({buf[i] : i \in Int}) /\ Len(Read(b)) = len
  BY <1>1, <1>7, <1>8
<1>10. SubSeq(Read(b), 1, n) = [i \in 1 .. n |-> <<p, i>>]
  <2>1. \A i \in 1 .. n : Read(b)[i] = <<p, i>>
    BY <1>1, <1>7, <1>8 DEF n, from
  <2>2. /\ SubSeq(Read(b), 1, n) \in Seq({buf[i] : i \in Int})
        /\ Len(SubSeq(Read(b), 1, n)) = n
        /\ \A i \in 1 .. n : SubSeq(Read(b), 1, n)[i] = Read(b)[i]
    BY <1>1, <1>8, <1>9, SubSeqProperties
  <2> QED
    BY <1>1, <2>1, <2>2
<1> QED
  BY <1>8, <1>9, <1>10 DEF n, Text

\* The object is cleared when it is made: nothing waits and nothing is open.
LEMMA HostInit == Init => HostInv
<1> SUFFICES ASSUME Init PROVE HostInv
  OBVIOUS
<1>1. Shape
  BY PdHostAssumption DEF Init, Shape
<1>2. Inv
  BY <1>1 DEF Init, Shape, Inv, TypeOK, Closed
<1> QED
  BY <1>1, <1>2 DEF Init, HostInv, Pending, AsSent

\* The shape of the object, and which files are open.
LEMMA InvStep == HostInv /\ [Next]_vars => Shape' /\ Inv'
<1> SUFFICES ASSUME Shape, Inv, Pending, [Next]_vars PROVE Shape' /\ Inv'
  BY DEF HostInv
<1> USE PdHostAssumption DEF Inv, TypeOK, Closed, Shape
<1>1. CASE open_file
  <2>1. messages' \in 1 .. MaxMessages
    BY <1>1 DEF open_file, Message
  <2>2. UNCHANGED <<buf, whichbuf, phase>> /\ please_parse' = 1 /\ phase = "runs"
        /\ raced' = (raced \/ please_parse # 0)
    BY <1>1 DEF open_file, Message
  <2>3. PICK f \in Files \union Missing :
          /\ fp' = IF f \in Files THEN <<messages', f>> ELSE NULL
          /\ opened' = opened \union ({fp'} \ {NULL})
    BY <1>1 DEF open_file
  <2>4. fp' \in {NULL} \union (1 .. MaxMessages) \X Files
    BY <2>1, <2>3
  <2>5. opened' \subseteq (1 .. MaxMessages) \X Files
    BY <2>3, <2>4
  <2>6. Closed'
    <3>1. CASE raced \/ please_parse # 0
      <4>1. raced'
        BY <2>2, <3>1, Zenon
      <4> QED
        BY <4>1
    <3>2. CASE ~(raced \/ please_parse # 0)
      <4>1. opened = {} /\ phase' = "runs"
        BY <2>2, <3>2
      <4> QED
        BY <2>2, <2>3, <4>1
    <3> QED
      BY <3>1, <3>2
  <2> QED
    BY <2>1, <2>2, <2>4, <2>5, <2>6
<1>2. CASE parse
  <2>1. messages' \in 1 .. MaxMessages /\ whichbuf' \in {0, 1}
    BY <1>2 DEF parse, Message
  <2>2. PICK p \in DOMAIN Size :
          \/ /\ Size[p] > BUFSIZE
             /\ buf' = Store(whichbuf', SubSeq(Text(p), 1, BUFSIZE))
             /\ UNCHANGED <<please_parse, asked>>
          \/ /\ Size[p] <= BUFSIZE
             /\ buf' = Ended(whichbuf', p)
             /\ please_parse' = 2
    BY <1>2 DEF parse
  <2>3. PICK cells : /\ Len(cells) \in 0 .. BUFSIZE
                     /\ \A k \in 1 .. Len(cells) : cells[k] = <<p, k>>
                     /\ buf' \in {Store(whichbuf', cells),
                                  [Store(whichbuf', cells) EXCEPT
                                     ![whichbuf' * BUFSIZE + Size[p] + 1] = NUL]}
    <3>1. /\ Size[p] \in Nat /\ Text(p) \in Seq({p} \X Nat) /\ Len(Text(p)) = Size[p]
          /\ \A k \in 1 .. Size[p] : Text(p)[k] = <<p, k>>
      BY TextValue
    <3>2. CASE Size[p] <= BUFSIZE
      <4>1. buf' = Ended(whichbuf', p) \/ Size[p] > BUFSIZE
        BY <2>2
      <4>2. Size[p] \in Nat /\ BUFSIZE \in Nat /\ ~(Size[p] > BUFSIZE) /\ Size[p] \in 0 .. BUFSIZE
        BY <3>1, <3>2, PdHostAssumption
      <4>3. buf' = [Store(whichbuf', Text(p)) EXCEPT ![whichbuf' * BUFSIZE + Size[p] + 1] = NUL]
        BY <4>1, <4>2 DEF Ended
      <4>4. Len(Text(p)) \in 0 .. BUFSIZE /\ \A k \in 1 .. Len(Text(p)) : Text(p)[k] = <<p, k>>
        BY <3>1, <4>2
      <4> QED
        BY <4>3, <4>4
    <3>3. CASE Size[p] > BUFSIZE
      <4>1. /\ Len(SubSeq(Text(p), 1, BUFSIZE)) = BUFSIZE
            /\ \A k \in 1 .. BUFSIZE : SubSeq(Text(p), 1, BUFSIZE)[k] = Text(p)[k]
        <5>1. BUFSIZE \in Nat /\ BUFSIZE < Size[p]
          BY <3>1, <3>3, PdHostAssumption
        <5>2. \A k \in 1 .. BUFSIZE : Text(p)[k] \in {p} \X Nat
          BY <3>1, <5>1, ElementOfSeq
        <5>3. /\ Len(SubSeq(Text(p), 1, BUFSIZE)) = IF 1 <= BUFSIZE THEN BUFSIZE - 1 + 1 ELSE 0
              /\ \A k \in 1 .. BUFSIZE - 1 + 1 : SubSeq(Text(p), 1, BUFSIZE)[k] = Text(p)[1 + k - 1]
          BY <5>1, <5>2, SubSeqProperties
        <5> QED
          BY <5>1, <5>3
      <4>2. Len(SubSeq(Text(p), 1, BUFSIZE)) \in 0 .. BUFSIZE
        BY <4>1
      <4>3. \A k \in 1 .. BUFSIZE : SubSeq(Text(p), 1, BUFSIZE)[k] = <<p, k>>
        <5>1. BUFSIZE \in Nat /\ BUFSIZE < Size[p] /\ Size[p] \in Nat
          BY <3>1, <3>3, PdHostAssumption
        <5>2. \A k \in 1 .. BUFSIZE : k \in 1 .. Size[p]
          BY <5>1
        <5> QED
          BY <3>1, <4>1, <5>2
      <4>4. buf' = Store(whichbuf', SubSeq(Text(p), 1, BUFSIZE))
        BY <2>2, <3>1, <3>3
      <4> QED
        BY <4>1, <4>2, <4>3, <4>4
    <3> QED
      BY <3>2, <3>3
  <2> DEFINE stored == Store(whichbuf', cells)
  <2>4. /\ DOMAIN stored = DOMAIN buf /\ stored = [i \in DOMAIN buf |-> stored[i]]
        /\ \A i \in DOMAIN buf :
              \/ stored[i] = buf[i]
              \/ \E k \in 1 .. Len(cells) : i = From(whichbuf') + k - 1 /\ stored[i] = cells[k]
    BY <2>1, <2>3, StoreValue
  <2> HIDE DEF stored
  <2>5. /\ DOMAIN buf' = DOMAIN buf /\ buf' = [i \in DOMAIN buf |-> buf'[i]]
        /\ \A i \in DOMAIN buf : buf'[i] = stored[i] \/ buf'[i] = NUL
    BY <2>3, <2>4 DEF stored
  <2>6. ASSUME NEW i \in DOMAIN buf
        PROVE  \/ buf'[i] \in {NUL, Behind}
               \/ buf'[i][1] \in DOMAIN Size /\ buf'[i][2] \in 1 .. BUFSIZE
                    /\ i \in {buf'[i][2] - 1, BUFSIZE + buf'[i][2] - 1}
    <3>1. CASE buf'[i] \in {NUL, buf[i]}
      BY <3>1
    <3>2. ASSUME NEW k \in 1 .. Len(cells), i = From(whichbuf') + k - 1, buf'[i] = cells[k]
          PROVE  /\ buf'[i][1] \in DOMAIN Size /\ buf'[i][2] \in 1 .. BUFSIZE
                 /\ i \in {buf'[i][2] - 1, BUFSIZE + buf'[i][2] - 1}
      <4>1. buf'[i] = <<p, k>> /\ k \in 1 .. BUFSIZE
        BY <2>3, <3>2
      <4> QED
        BY <2>1, <3>2, <4>1, FromValue
    <3>3. \/ buf'[i] \in {NUL, buf[i]}
          \/ \E k \in 1 .. Len(cells) : i = From(whichbuf') + k - 1 /\ buf'[i] = cells[k]
      <4>1. \/ stored[i] = buf[i]
            \/ \E k \in 1 .. Len(cells) : i = From(whichbuf') + k - 1 /\ stored[i] = cells[k]
        BY <2>4
      <4>2. buf'[i] = stored[i] \/ buf'[i] = NUL
        BY <2>5
      <4> QED
        BY ONLY <4>1, <4>2, Zenon
    <3>4. CASE \E k \in 1 .. Len(cells) : i = From(whichbuf') + k - 1 /\ buf'[i] = cells[k]
      BY ONLY <3>2, <3>4, Zenon
    <3> QED
      BY ONLY <3>1, <3>3, <3>4, Zenon
  <2>7. Shape'
    BY <2>1, <2>5
  <2>8. Closed'
    BY <1>2, <2>2 DEF parse, Message
  <2> QED
    BY <1>2, <2>1, <2>2, <2>5, <2>6, <2>7, <2>8 DEF parse, Message
<1>3. CASE perform_File
  BY <1>3 DEF perform_File, Compile
<1>4. CASE perform_String
  BY <1>4 DEF perform_String, Compile
<1>5. CASE sporth_free
  BY <1>5 DEF sporth_free, object
<1>6. CASE UNCHANGED vars
  BY <1>6 DEF vars, object
<1> QED
  BY <1>1, <1>2, <1>3, <1>4, <1>5, <1>6 DEF Next

\* Every step leaves a note about the last message that was taken, and every
\* recompilation reads what the note is about.
LEMMA PendingStep == HostInv /\ [Next]_vars => Pending' /\ AsSent'
<1> SUFFICES ASSUME Shape, TypeOK, Pending, AsSent, [Next]_vars PROVE Pending' /\ AsSent'
  BY DEF HostInv, Inv
<1>1. CASE open_file
  <2>1. PICK f \in Files \union Missing :
          /\ fp' = IF f \in Files THEN <<messages', f>> ELSE NULL
          /\ asked' = <<messages', f>>
    BY <1>1 DEF open_file
  <2>2. please_parse' = 1 /\ compiled' = compiled
    BY <1>1 DEF open_file, Message
  <2>3. asked'[2] = f
    BY <2>1
  <2>4. \/ f \in Files /\ fp' = asked'
        \/ f \in Missing /\ fp' = NULL
    BY <2>1
  <2>5. Pending'
    BY ONLY <2>2, <2>3, <2>4 DEF Pending
  <2>6. AsSent'
    BY <2>2 DEF AsSent
  <2> QED
    BY <2>5, <2>6
<1>2. CASE parse
  <2>1. whichbuf' \in {0, 1} /\ compiled' = compiled /\ fp' = fp
    BY <1>2 DEF parse, Message, TypeOK
  <2>2. PICK p \in DOMAIN Size :
          \/ spoilt'
          \/ /\ Size[p] <= BUFSIZE
             /\ buf' = Ended(whichbuf', p)
             /\ please_parse' = 2 /\ asked' = <<messages', p>>
    BY <1>2 DEF parse
  <2>3. CASE spoilt'
    BY <2>1, <2>3 DEF Pending, AsSent
  <2>4. CASE ~spoilt'
    <3> DEFINE stored == Store(whichbuf', Text(p))
    <3>1. /\ Size[p] \in 0 .. BUFSIZE /\ BUFSIZE \in Nat
          /\ \A k \in 1 .. Size[p] : stored[From(whichbuf') + k - 1] = <<p, k>>
          /\ DOMAIN stored = 0 .. 2 * BUFSIZE + 1
      BY <2>1, <2>2, <2>4, TextValue, StoreValue, PdHostAssumption DEF Shape
    <3>2. buf' = [stored EXCEPT ![From(whichbuf') + Size[p] + 1] = NUL]
      BY <2>2, <2>4 DEF Ended, From
    <3> HIDE DEF stored
    <3>3. From(whichbuf') \in {0, BUFSIZE}
      BY <2>1, FromValue
    <3>4. buf'[From(whichbuf') + Size[p] + 1] = NUL
      BY <3>1, <3>2, <3>3
    <3>5. \A k \in 1 .. Size[p] : buf'[From(whichbuf') + k - 1] = <<p, k>>
      BY <3>1, <3>2, <3>3
    <3>6. asked'[2] = p /\ please_parse' = 2 /\ Size[p] <= BUFSIZE
      BY <2>2, <2>4
    <3> QED
      BY <2>1, <3>4, <3>5, <3>6 DEF Pending, AsSent
  <2> QED
    BY <2>3, <2>4
<1>3. CASE perform_File
  <2>1. please_parse' = 0 /\ please_parse = 1
        /\ compiled' = [asked |-> asked, got |-> fp, spoilt |-> spoilt]
    BY <1>3 DEF perform_File, Compile
  <2> QED
    BY <2>1 DEF Pending, AsSent
<1>4. CASE perform_String
  <2>1. please_parse' = 0 /\ please_parse = 2
        /\ compiled' = [asked |-> asked, got |-> Read(whichbuf), spoilt |-> spoilt]
    BY <1>4 DEF perform_String, Compile
  <2>2. CASE spoilt
    BY <2>1, <2>2 DEF Pending, AsSent
  <2>3. CASE ~spoilt
    <3>1. /\ asked[2] \in DOMAIN Size
          /\ Len(Read(whichbuf)) \in {Size[asked[2]], Size[asked[2]] + 1}
          /\ SubSeq(Read(whichbuf), 1, Size[asked[2]]) = Text(asked[2])
      BY <2>1, <2>3, ReadValue DEF Pending, TypeOK
    <3> QED
      BY <2>1, <3>1 DEF Pending, AsSent
  <2> QED
    BY <2>2, <2>3
<1>5. CASE sporth_free
  BY <1>5 DEF sporth_free, object, Pending, AsSent
<1>6. CASE UNCHANGED vars
  BY <1>6 DEF vars, object, Pending, AsSent
<1> QED
  BY <1>1, <1>2, <1>3, <1>4, <1>5, <1>6 DEF Next

\* The invariant of the host.
THEOREM HostInvariant == Spec => []HostInv
<1>1. HostInv /\ [Next]_vars => HostInv'
  BY InvStep, PendingStep DEF HostInv
<1> QED
  BY HostInit, <1>1, PTL DEF Spec

\* The object is well formed, and while every message finds the one before it
\* done, no file is forgotten (util/pd/sporth~.c:47-61, 102-108).
THEOREM InvHolds == Spec => []Inv
<1>1. HostInv => Inv
  BY DEF HostInv
<1> QED
  BY HostInvariant, <1>1, PTL

\* A recompilation reads the file or the whole program that was asked for
\* last, and at most one old character behind it (util/pd/sporth~.c:47-61, 110-162).
THEOREM AsSentHolds == Spec => []AsSent
<1>1. HostInv => AsSent
  BY DEF HostInv
<1> QED
  BY HostInvariant, <1>1, PTL
=============================================================================
