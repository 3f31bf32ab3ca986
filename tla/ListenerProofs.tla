--------------------------- MODULE ListenerProofs ---------------------------
(***************************************************************************)
(* Proofs about live coding: the two buffers hand over whole patches, what *)
(* is lost is lost in a race, and a careful coder gets what LiveCoding     *)
(* promises.                                                               *)
(***************************************************************************)
EXTENDS Listener, TLAPS

\* The buffer that is published is never the one that is written.
Handover ==
  /\ main = "activated" => listener = "unborn"
  /\ listener = "publish" =>
       /\ latest # 0 /\ buf[whichbuf] = latest
       /\ "str" \in stored => str = whichbuf
       /\ inorder /\ "flag" \in stored => "str" \in stored
  /\ listener # "publish" =>
       /\ stored = {}
       /\ latest # 0 => str = 1 - whichbuf /\ buf[str] = latest
  /\ str # None => latest # 0

BuffersInv == TypeOK /\ Handover

\* What a compilation that is left alone has read is a prefix of one patch.
Quiet ==
  /\ Compiling /\ ~disturbed =>
       /\ listener # "publish" /\ text = 1 - whichbuf
       /\ buf[text] = latest /\ latest # 0
       /\ size = Length(latest)
       /\ \A i \in 1 .. Len(heard) : heard[i] = Piece(latest, i)
  /\ audio = "done" => Len(heard) = size

\* Where the last patch is, once it was published.
Followed ==
  inorder /\ latest # 0 /\ (listener = "publish" => "flag" \in stored) =>
    \/ latest \in tried \union raced
    \/ audio = "idle" /\ recompile
    \/ /\ Compiling /\ text = str /\ buf[text] = latest /\ size # 0
       /\ heard # <<>> => heard[1] = latest
    \/ audio = "crashed"

\* A careful coder has at most one patch anywhere between the socket and the
\* end of its compilation.
OneAtATime ==
  careful /\ inorder =>
    /\ \A p \in 1 .. sent - 1 : p \in tried \union dropped
    /\ net \subseteq {sent} /\ net \intersect (tried \union dropped) = {}
    /\ tried \subseteq 1 .. sent /\ dropped \subseteq 1 .. sent
    /\ latest <= sent /\ playing \in 0 .. sent
    /\ sent \in net => latest < sent
    /\ audio # "crashed"
    /\ recompile \/ audio # "idle" =>
         /\ latest = sent /\ sent # 0
         /\ sent \notin tried \union net \union dropped
         /\ listener = "publish" => "flag" \in stored
    /\ listener = "publish" /\ "flag" \notin stored =>
         /\ latest = sent
         /\ ~recompile /\ audio = "idle"
         /\ sent \notin tried \union net \union dropped
    /\ Compiling =>
         /\ recompile /\ text = str /\ buf[text] = latest
         /\ size = Pieces
         /\ \A i \in 1 .. Len(heard) : heard[i] = latest
         /\ audio = "done" => Len(heard) = size
-----------------------------------------------------------------------------
\* What a piece of a text is.
LEMMA PieceType ==
  ASSUME NEW p \in Patches \union {Empty}, NEW i \in Nat
  PROVE  Piece(p, i) \in Patches \union {Empty, Beyond}
<1> QED
  BY DEF Piece

\* No text is longer than a buffer and what one read finds behind it; a patch
\* is at least as long as its pieces.
LEMMA LengthType ==
  ASSUME NEW p \in Patches \union {Empty}
  PROVE  /\ Length(p) \in 0 .. Pieces + 1
         /\ p # Empty => Length(p) >= Pieces /\ Length(p) # 0
<1> QED
  BY ListenerAssumption DEF Length

\* The program starts in states of the right type, with two empty buffers.
LEMMA BuffersInit == Init => BuffersInv
<1> SUFFICES ASSUME Init PROVE BuffersInv
  OBVIOUS
<1>1. heard \in Seq(Patches \union {Empty, Beyond}) /\ Len(heard) <= size
  BY DEF Init
<1>2. buf \in [0 .. 1 -> Patches \union {Empty}]
  BY DEF Init
<1>3. /\ sent \in 0 .. MaxSent /\ latest \in 0 .. MaxSent
      /\ size \in 0 .. Pieces + 1
  BY ListenerAssumption DEF Init
<1>4. TypeOK
  BY <1>1, <1>2, <1>3 DEF Init, TypeOK, None
<1>5. Handover
  BY DEF Init, Handover, None
<1> QED
  BY <1>4, <1>5 DEF BuffersInv

\* Every step keeps the type of the variables.
LEMMA TypeStep == BuffersInv /\ [Next]_vars => TypeOK'
<1> SUFFICES ASSUME TypeOK, Handover, [Next]_vars PROVE TypeOK'
  BY DEF BuffersInv
<1> USE ListenerAssumption DEF vars, given, coder, shared, reader, writer
<1>1. CASE sporth_start_listener
  BY <1>1 DEF sporth_start_listener, TypeOK, Patches, None
<1>2. CASE Start
  BY <1>2 DEF Start, TypeOK, Patches, None
<1>3. CASE Run
  BY <1>3 DEF Run, TypeOK, Patches, None
<1>4. CASE plumber_stop_jack
  BY <1>4 DEF plumber_stop_jack, TypeOK, Patches, None
<1>5. CASE Test
  BY <1>5 DEF Test, TypeOK, Patches, None
<1>6. CASE Clear
  BY <1>6 DEF Clear, TypeOK, Patches, None
<1>7. CASE Receive
  BY <1>7 DEF Receive, TypeOK, Patches, None
<1>8. CASE StoreStr
  BY <1>8 DEF StoreStr, TypeOK, Patches, None
<1>9. CASE StoreFlag
  <2>1. latest \in Patches
    BY <1>9 DEF StoreFlag, TypeOK, Handover, Patches
  <2> QED
    BY <1>9, <2>1 DEF StoreFlag, TypeOK
<1>10. CASE Again
  BY <1>10 DEF Again, TypeOK, Patches, None
<1>11. CASE Recompile
  <2>1. CASE str # None
    <3>1. str \in 0 .. 1 /\ buf[str] \in Patches \union {Empty}
      BY <2>1 DEF TypeOK
    <3>2. Length(buf[str]) \in 0 .. Pieces + 1
      BY <3>1, LengthType
    <3>3. heard' = <<>> /\ size' = Length(buf[str])
      BY <1>11, <2>1 DEF Recompile
    <3>4. heard' \in Seq(Patches \union {Empty, Beyond}) /\ Len(heard') <= size'
      BY <3>2, <3>3
    <3> QED
      BY <1>11, <2>1, <3>1, <3>2, <3>3, <3>4 DEF Recompile, TypeOK
  <2>2. CASE str = None
    BY <1>11, <2>2 DEF Recompile, TypeOK
  <2> QED
    BY <2>1, <2>2
<1>12. CASE Parse
  <2>1. Piece(buf[text], Len(heard) + 1) \in Patches \union {Empty, Beyond}
    BY PieceType DEF TypeOK
  <2>2. heard' \in Seq(Patches \union {Empty, Beyond}) /\ Len(heard') = Len(heard) + 1
    BY <1>12, <2>1 DEF Parse, TypeOK
  <2>3. Len(heard') <= size'
    BY <1>12, <2>2 DEF Parse, TypeOK
  <2> QED
    BY <1>12, <2>2, <2>3 DEF Parse, TypeOK
<1>13. CASE plumber_swap
  <2>1. playing' \in Patches \union {0, Torn}
    BY <1>13 DEF plumber_swap, TypeOK
  <2> QED
    BY <1>13, <2>1 DEF plumber_swap, TypeOK
<1>14. CASE ClearFlag
  <2>1. tried' \subseteq Patches \union {Empty, Beyond}
    BY <1>14 DEF ClearFlag, TypeOK
  <2>2. heard' \in Seq(Patches \union {Empty, Beyond}) /\ Len(heard') <= size'
    BY <1>14 DEF ClearFlag
  <2>3. /\ size' = 0 /\ text' = 0 /\ recompile' = FALSE /\ disturbed' = FALSE /\ audio' = "idle"
        /\ careful' = careful /\ inorder' = inorder /\ main' = main /\ listener' = listener
        /\ buf' = buf /\ whichbuf' = whichbuf /\ stored' = stored /\ str' = str
        /\ playing' = playing /\ sent' = sent /\ net' = net /\ dropped' = dropped
        /\ latest' = latest /\ raced' = raced
    BY <1>14 DEF ClearFlag
  <2>4. heard' \in Seq(Patches \union {Empty, Beyond}) /\ Len(heard') <= size' /\ size' \in 0 .. Pieces + 1
    BY <2>2, <2>3, ListenerAssumption
  <2>5. text' \in 0 .. 1
    BY ONLY <2>3
  <2>6. /\ careful' \in BOOLEAN /\ inorder' \in BOOLEAN
        /\ recompile' \in BOOLEAN /\ disturbed' \in BOOLEAN
    BY ONLY TypeOK, <2>3, Zenon DEF TypeOK
  <2>7. audio' \in {"idle", "parse", "done", "crashed"}
    BY ONLY <2>3
  <2> QED
    BY ONLY TypeOK, <2>1, <2>3, <2>4, <2>5, <2>6, <2>7 DEF TypeOK
<1>15. CASE Send
  <2>1. sent' \in 0 .. MaxSent /\ net' \subseteq Patches
    BY <1>15 DEF Send, TypeOK, Patches
  <2> QED
    BY <1>15, <2>1 DEF Send, TypeOK
<1>16. CASE Drop
  BY <1>16 DEF Drop, TypeOK, Patches, None
<1>17. CASE UNCHANGED vars
  BY <1>17 DEF TypeOK, Patches, None
<1> QED
  BY <1>1, <1>2, <1>3, <1>4, <1>5, <1>6, <1>7, <1>8, <1>9, <1>10, <1>11, <1>12, <1>13, <1>14, <1>15, <1>16, <1>17
  DEF Next, Main, Listen, Audio, Coder

\* Every step hands over the buffers in turn.
LEMMA HandoverStep == BuffersInv /\ [Next]_vars => Handover'
<1> SUFFICES ASSUME TypeOK, Handover, [Next]_vars PROVE Handover'
  BY DEF BuffersInv
<1> USE DEF vars, given, coder, shared, reader, writer
<1>1. CASE sporth_start_listener
  BY <1>1 DEF sporth_start_listener, TypeOK, Handover, None, Patches
<1>2. CASE Start
  BY <1>2 DEF Start, TypeOK, Handover, None, Patches
<1>3. CASE Run
  BY <1>3 DEF Run, TypeOK, Handover, None, Patches
<1>4. CASE plumber_stop_jack
  BY <1>4 DEF plumber_stop_jack, TypeOK, Handover, None, Patches
<1>5. CASE Test
  BY <1>5 DEF Test, TypeOK, Handover, None, Patches
<1>6. CASE Clear
  BY <1>6 DEF Clear, TypeOK, Handover, None, Patches
<1>7. CASE Receive
  BY <1>7 DEF Receive, TypeOK, Handover, None, Patches
<1>8. CASE StoreStr
  BY <1>8 DEF StoreStr, TypeOK, Handover, None, Patches
<1>9. CASE StoreFlag
  BY <1>9 DEF StoreFlag, TypeOK, Handover, None, Patches
<1>10. CASE Again
  BY <1>10 DEF Again, TypeOK, Handover, None, Patches
<1>11. CASE Recompile
  BY <1>11 DEF Recompile, TypeOK, Handover, None, Patches
<1>12. CASE Parse
  BY <1>12 DEF Parse, TypeOK, Handover, None, Patches
<1>13. CASE plumber_swap
  BY <1>13 DEF plumber_swap, TypeOK, Handover, None, Patches
<1>14. CASE ClearFlag
  BY <1>14 DEF ClearFlag, TypeOK, Handover, None, Patches
<1>15. CASE Send
  BY <1>15 DEF Send, TypeOK, Handover, None, Patches
<1>16. CASE Drop
  BY <1>16 DEF Drop, TypeOK, Handover, None, Patches
<1>17. CASE UNCHANGED vars
  BY <1>17 DEF TypeOK, Handover, None, Patches
<1> QED
  BY <1>1, <1>2, <1>3, <1>4, <1>5, <1>6, <1>7, <1>8, <1>9, <1>10, <1>11, <1>12, <1>13, <1>14, <1>15, <1>16, <1>17
  DEF Next, Main, Listen, Audio, Coder

\* The invariant of the buffers: once the listener is back at the socket, the
\* string it published is the last patch it received (listener.c:51-79).
THEOREM BuffersInvariant == Spec => []BuffersInv
<1>1. BuffersInv /\ [Next]_vars => BuffersInv'
  BY TypeStep, HandoverStep DEF BuffersInv
<1> QED
  BY BuffersInit, <1>1, PTL DEF Spec

\* What the run checks of the buffers is part of it.
THEOREM InvHolds == Spec => []Inv
<1>1. BuffersInv => Inv
  BY DEF BuffersInv, Inv, LatestWins, Handover, TypeOK, None
<1> QED
  BY BuffersInvariant, <1>1, PTL
-----------------------------------------------------------------------------
\* What is kept while a text is read.
LEMMA QuietStep == BuffersInv /\ Quiet /\ [Next]_vars => Quiet'
<1> SUFFICES ASSUME TypeOK, Handover, Quiet, [Next]_vars PROVE Quiet'
  BY DEF BuffersInv
<1> USE DEF vars, given, coder, shared, reader, writer, Length, Piece
<1>1. CASE sporth_start_listener
  BY <1>1 DEF sporth_start_listener, TypeOK, Handover, Quiet, Compiling, None, Patches
<1>2. CASE Start
  BY <1>2 DEF Start, TypeOK, Handover, Quiet, Compiling, None, Patches
<1>3. CASE Run
  BY <1>3 DEF Run, TypeOK, Handover, Quiet, Compiling, None, Patches
<1>4. CASE plumber_stop_jack
  BY <1>4 DEF plumber_stop_jack, TypeOK, Handover, Quiet, Compiling, None, Patches
<1>5. CASE Test
  BY <1>5 DEF Test, TypeOK, Handover, Quiet, Compiling, None, Patches
<1>6. CASE Clear
  BY <1>6 DEF Clear, TypeOK, Handover, Quiet, Compiling, None, Patches
<1>7. CASE Receive
  BY <1>7 DEF Receive, TypeOK, Handover, Quiet, Compiling, None, Patches
<1>8. CASE StoreStr
  BY <1>8 DEF StoreStr, TypeOK, Handover, Quiet, Compiling, None, Patches
<1>9. CASE StoreFlag
  BY <1>9 DEF StoreFlag, TypeOK, Handover, Quiet, Compiling, None, Patches
<1>10. CASE Again
  BY <1>10 DEF Again, TypeOK, Handover, Quiet, Compiling, None, Patches
<1>11. CASE Recompile
  <2>1. CASE str = None
    BY <1>11, <2>1 DEF Recompile, Quiet, Compiling
  <2>2. CASE str # None
    <3>1. /\ audio' = "parse" /\ text' = str /\ size' = Length(buf[str]) /\ heard' = <<>>
          /\ disturbed' = (listener = "publish") /\ listener' = listener
          /\ buf' = buf /\ latest' = latest /\ whichbuf' = whichbuf /\ careful' = careful
      BY <1>11, <2>2 DEF Recompile
    <3>2. listener # "publish" => latest # 0 /\ str = 1 - whichbuf /\ buf[str] = latest
      BY <2>2 DEF Handover
    <3>3. ~disturbed' =>
            /\ listener' # "publish" /\ text' = 1 - whichbuf' /\ buf'[text'] = latest'
            /\ latest' # 0 /\ size' = Length(latest)'
      BY <3>1, <3>2
    <3>4. 1 .. Len(heard') = {}
      BY <3>1
    <3> QED
      BY <3>1, <3>3, <3>4 DEF Quiet
  <2> QED
    BY <2>1, <2>2
<1>12. CASE Parse
  BY <1>12 DEF Parse, TypeOK, Handover, Quiet, Compiling, None, Patches
<1>13. CASE plumber_swap
  BY <1>13 DEF plumber_swap, TypeOK, Handover, Quiet, Compiling, None, Patches
<1>14. CASE ClearFlag
  BY <1>14 DEF ClearFlag, TypeOK, Handover, Quiet, Compiling, None, Patches
<1>15. CASE Send
  BY <1>15 DEF Send, TypeOK, Handover, Quiet, Compiling, None, Patches
<1>16. CASE Drop
  BY <1>16 DEF Drop, TypeOK, Handover, Quiet, Compiling, None, Patches
<1>17. CASE UNCHANGED vars
  BY <1>17 DEF TypeOK, Handover, Quiet, Compiling, None, Patches
<1> QED
  BY <1>1, <1>2, <1>3, <1>4, <1>5, <1>6, <1>7, <1>8, <1>9, <1>10, <1>11, <1>12, <1>13, <1>14, <1>15, <1>16, <1>17
  DEF Next, Main, Listen, Audio, Coder

\* A compilation that the listener leaves alone reads one whole patch.
THEOREM UndisturbedHolds == Spec => []Undisturbed
<1>1. Init => Quiet
  BY DEF Init, Quiet, Compiling
<1>2. Spec => [](BuffersInv /\ Quiet)
  <2>1. BuffersInv /\ Quiet /\ [Next]_vars => (BuffersInv /\ Quiet)'
    BY QuietStep, TypeStep, HandoverStep DEF BuffersInv
  <2> QED
    BY BuffersInit, <1>1, <2>1, PTL DEF Spec
<1>3. BuffersInv /\ Quiet => Undisturbed
  <2> SUFFICES ASSUME TypeOK, Quiet, audio = "done", ~disturbed PROVE Undisturbed
    BY DEF BuffersInv, Undisturbed
  <2>1. /\ latest \in Patches /\ size = Length(latest) /\ Len(heard) = size
        /\ \A i \in 1 .. Len(heard) : heard[i] = Piece(latest, i)
    BY DEF Quiet, Compiling, TypeOK, Patches
  <2>2. CASE Length(latest) > Pieces
    <3>1. Length(latest) = Pieces + 1
      BY <2>1, <2>2, ListenerAssumption DEF Length
    <3>2. heard = Append(Whole(latest), Beyond)
      BY <2>1, <3>1, ListenerAssumption DEF Piece, Whole, TypeOK
    <3> QED
      BY <2>1, <2>2, <3>2 DEF Undisturbed
  <2>3. CASE ~(Length(latest) > Pieces)
    <3>1. Length(latest) = Pieces
      BY <2>1, <2>3, ListenerAssumption DEF Length, Patches, Empty
    <3>2. heard = Whole(latest)
      BY <2>1, <3>1, ListenerAssumption DEF Piece, Whole, TypeOK
    <3> QED
      BY <2>1, <2>3, <3>2 DEF Undisturbed
  <2> QED
    BY <2>2, <2>3
<1> QED
  BY <1>2, <1>3, PTL
-----------------------------------------------------------------------------
\* The last patch is followed from the socket to the end of its compilation.
LEMMA FollowedStep == BuffersInv /\ Quiet /\ Followed /\ [Next]_vars => Followed'
<1> SUFFICES ASSUME TypeOK, Handover, Quiet, Followed, [Next]_vars PROVE Followed'
  BY DEF BuffersInv
<1> USE DEF vars, given, coder, shared, reader, writer, Length, Piece
<1>1. CASE sporth_start_listener
  BY <1>1 DEF sporth_start_listener, TypeOK, Handover, Quiet, Followed, Compiling, None, Patches
<1>2. CASE Start
  BY <1>2 DEF Start, TypeOK, Handover, Quiet, Followed, Compiling, None, Patches
<1>3. CASE Run
  BY <1>3 DEF Run, TypeOK, Handover, Quiet, Followed, Compiling, None, Patches
<1>4. CASE plumber_stop_jack
  BY <1>4 DEF plumber_stop_jack, TypeOK, Handover, Quiet, Followed, Compiling, None, Patches
<1>5. CASE Test
  BY <1>5 DEF Test, TypeOK, Handover, Quiet, Followed, Compiling, None, Patches
<1>6. CASE Clear
  BY <1>6 DEF Clear, TypeOK, Handover, Quiet, Followed, Compiling, None, Patches
<1>7. CASE Receive
  BY <1>7 DEF Receive, TypeOK, Handover, Quiet, Followed, Compiling, None, Patches
<1>8. CASE StoreStr
  BY <1>8 DEF StoreStr, TypeOK, Handover, Quiet, Followed, Compiling, None, Patches
<1>9. CASE StoreFlag
  BY <1>9 DEF StoreFlag, TypeOK, Handover, Quiet, Followed, Compiling, None, Patches
<1>10. CASE Again
  BY <1>10 DEF Again, TypeOK, Handover, Quiet, Followed, Compiling, None, Patches
<1>11. CASE Recompile
  <2>1. CASE str = None
    BY <1>11, <2>1 DEF Recompile, Followed
  <2>2. CASE str # None
    <3> SUFFICES ASSUME inorder, latest # 0, listener = "publish" => "flag" \in stored
                 PROVE  Compiling' /\ text' = str' /\ buf'[text'] = latest' /\ size' # 0 /\ heard' = <<>>
      BY <1>11 DEF Recompile, Followed
    <3>1. buf[str] = latest
      BY DEF Handover
    <3>2. Length(latest) # 0
      BY ListenerAssumption DEF TypeOK, Patches, Empty
    <3> QED
      BY <1>11, <2>2, <3>1, <3>2 DEF Recompile, Compiling
  <2> QED
    BY <2>1, <2>2
<1>12. CASE Parse
  <2> SUFFICES ASSUME inorder, latest # 0, listener = "publish" => "flag" \in stored,
                      text = str, buf[text] = latest, size # 0, heard # <<>> => heard[1] = latest
               PROVE  heard'[1] = latest
    BY <1>12 DEF Parse, Followed, Compiling
  <2>1. CASE heard = <<>>
    <3>1. Piece(latest, 1) = latest
      BY ListenerAssumption DEF TypeOK, Patches, Empty
    <3>2. heard' = Append(<<>>, Piece(latest, 1))
      BY <1>12, <2>1 DEF Parse
    <3> QED
      BY <3>1, <3>2
  <2>2. CASE heard # <<>>
    <3>1. heard \in Seq(Patches \union {Empty, Beyond}) /\ Len(heard) >= 1
      BY <2>2 DEF TypeOK
    <3> QED
      BY <1>12, <2>2, <3>1 DEF Parse
  <2> QED
    BY <2>1, <2>2
<1>13. CASE plumber_swap
  BY <1>13 DEF plumber_swap, TypeOK, Handover, Quiet, Followed, Compiling, None, Patches
<1>14. CASE ClearFlag
  BY <1>14 DEF ClearFlag, TypeOK, Handover, Quiet, Followed, Compiling, None, Patches
<1>15. CASE Send
  BY <1>15 DEF Send, TypeOK, Handover, Quiet, Followed, Compiling, None, Patches
<1>16. CASE Drop
  BY <1>16 DEF Drop, TypeOK, Handover, Quiet, Followed, Compiling, None, Patches
<1>17. CASE UNCHANGED vars
  BY <1>17 DEF TypeOK, Handover, Quiet, Followed, Compiling, None, Patches
<1> QED
  BY <1>1, <1>2, <1>3, <1>4, <1>5, <1>6, <1>7, <1>8, <1>9, <1>10, <1>11, <1>12, <1>13, <1>14, <1>15, <1>16, <1>17
  DEF Next, Main, Listen, Audio, Coder

\* The last patch received is compiled, or its flag fell in a race.
THEOREM LostOnlyInRacesHolds == Spec => []LostOnlyInRaces
<1>1. Init => Quiet /\ Followed
  BY DEF Init, Quiet, Followed, Compiling
<1>2. BuffersInv /\ Quiet /\ Followed /\ [Next]_vars => (BuffersInv /\ Quiet /\ Followed)'
  BY FollowedStep, QuietStep, TypeStep, HandoverStep DEF BuffersInv
<1>3. Followed => LostOnlyInRaces
  BY DEF Followed, LostOnlyInRaces, Compiling
<1> QED
  BY BuffersInit, <1>1, <1>2, <1>3, PTL DEF Spec
-----------------------------------------------------------------------------
\* What a careful coder's patch was read as, when it takes effect.
LEMMA SwapPlaysTheLast ==
  ASSUME TypeOK, OneAtATime, careful, inorder, plumber_swap
  PROVE  playing' \in {playing, sent}
<1>1. /\ audio = "parse" /\ latest = sent /\ sent \in Patches /\ Len(heard) = Pieces
      /\ \A i \in 1 .. Pieces : heard[i] = sent
  BY DEF plumber_swap, OneAtATime, Compiling, TypeOK, Patches
<1>2. heard \in Seq(Patches \union {Empty, Beyond})
  BY DEF TypeOK
<1>3. heard = Whole(sent)
  BY <1>1, <1>2, ListenerAssumption DEF Whole
<1>4. \A p \in Patches : heard = Whole(p) => p = sent
  <2> SUFFICES ASSUME NEW p \in Patches, heard = Whole(p) PROVE p = sent
    OBVIOUS
  <2>1. heard[1] = p
    BY ListenerAssumption DEF Whole
  <2> QED
    BY <1>1, <2>1, ListenerAssumption
<1> QED
  BY <1>1, <1>3, <1>4 DEF plumber_swap

\* A careful coder never has two patches under way.
LEMMA OneAtATimeStep ==
  BuffersInv /\ Quiet /\ OneAtATime /\ [Next]_vars => OneAtATime'
<1> SUFFICES ASSUME TypeOK, Handover, Quiet, OneAtATime, [Next]_vars, careful', inorder'
             PROVE  OneAtATime'
  BY DEF BuffersInv, OneAtATime
<1>0. careful /\ inorder
  BY DEF Next, Main, Listen, Audio, Coder, vars, given, sporth_start_listener, Start, Run,
    plumber_stop_jack, Test, Clear, Receive, StoreStr, StoreFlag, Again, Recompile, Parse,
    plumber_swap, ClearFlag, Send, Drop
<1> USE DEF vars, given, coder, shared, reader, writer
<1>1. CASE sporth_start_listener
  BY <1>1, <1>0 DEF sporth_start_listener, TypeOK, Handover, OneAtATime, Compiling, None, Patches
<1>2. CASE Start
  BY <1>2, <1>0 DEF Start, TypeOK, Handover, OneAtATime, Compiling, None, Patches
<1>3. CASE Run
  BY <1>3, <1>0 DEF Run, TypeOK, Handover, OneAtATime, Compiling, None, Patches
<1>4. CASE plumber_stop_jack
  BY <1>4, <1>0 DEF plumber_stop_jack, TypeOK, Handover, OneAtATime, Compiling, None, Patches
<1>5. CASE Test
  BY <1>5, <1>0 DEF Test, TypeOK, Handover, OneAtATime, Compiling, None, Patches
<1>6. CASE Clear
  BY <1>6, <1>0 DEF Clear, TypeOK, Handover, OneAtATime, Compiling, None, Patches
<1>7. CASE Receive
  BY <1>7, <1>0 DEF Receive, TypeOK, Handover, OneAtATime, Compiling, None, Patches
<1>8. CASE StoreStr
  BY <1>8, <1>0 DEF StoreStr, TypeOK, Handover, OneAtATime, Compiling, None, Patches
<1>9. CASE StoreFlag
  BY <1>9, <1>0 DEF StoreFlag, TypeOK, Handover, OneAtATime, Compiling, None, Patches
<1>10. CASE Again
  BY <1>10, <1>0 DEF Again, TypeOK, Handover, OneAtATime, Compiling, None, Patches
<1>11. CASE Recompile
  BY <1>11, <1>0 DEF Recompile, TypeOK, Handover, OneAtATime, Compiling, None, Patches
<1>12. CASE Parse
  <2>1. /\ latest = sent /\ sent # 0 /\ text = str /\ buf[text] = latest /\ size = Pieces
        /\ \A i \in 1 .. Len(heard) : heard[i] = latest
        /\ audio = "parse" /\ Len(heard) < size
        /\ heard \in Seq(Patches \union {Empty, Beyond})
    BY <1>12, <1>0 DEF Parse, OneAtATime, Compiling, TypeOK
  <2>2. heard' = Append(heard, latest)
    BY <1>12, <2>1, <1>0, ListenerAssumption DEF Parse, Piece, Length, TypeOK, Patches, Empty
  <2>3. \A i \in 1 .. Len(heard') : heard'[i] = latest
    BY <2>1, <2>2, latest \in Int DEF TypeOK
  <2> QED
    BY <1>12, <1>0, <2>3 DEF Parse, OneAtATime, Compiling
<1>13. CASE plumber_swap
  <2>1. playing' \in 0 .. sent
    BY <1>13, <1>0, SwapPlaysTheLast DEF OneAtATime, TypeOK
  <2>2. /\ UNCHANGED <<given, main, writer, shared, text, size, heard, tried, coder, raced, disturbed>>
        /\ audio = "parse" /\ audio' = "done" /\ Len(heard) = size
    BY <1>13 DEF plumber_swap
  <2> QED
    BY <1>0, <2>1, <2>2 DEF OneAtATime, Compiling
<1>14. CASE ClearFlag
  <2>1. /\ latest = sent /\ sent # 0 /\ sent \notin tried \union net \union dropped /\ Len(heard) = Pieces
        /\ \A i \in 1 .. Len(heard) : heard[i] = latest
        /\ heard \in Seq(Patches \union {Empty, Beyond})
        /\ ~(listener = "publish" /\ "flag" \notin stored)
    BY <1>14, <1>0 DEF ClearFlag, OneAtATime, Compiling, TypeOK
  <2>2. {heard[i] : i \in DOMAIN heard} = {sent}
    <3>1. DOMAIN heard = 1 .. Pieces /\ 1 \in 1 .. Pieces
      BY <2>1, ListenerAssumption
    <3> QED
      BY <2>1, <3>1
  <2>3. tried' = tried \union {sent}
    BY <1>14, <2>2 DEF ClearFlag
  <2> QED
    BY <1>14, <1>0, <2>1, <2>3 DEF ClearFlag, OneAtATime, Compiling, TypeOK
<1>15. CASE Send
  BY <1>15, <1>0 DEF Send, TypeOK, Handover, OneAtATime, Compiling, None, Patches
<1>16. CASE Drop
  BY <1>16, <1>0 DEF Drop, TypeOK, Handover, OneAtATime, Compiling, None, Patches
<1>17. CASE UNCHANGED vars
  BY <1>17, <1>0 DEF TypeOK, Handover, OneAtATime, Compiling, None, Patches
<1> QED
  BY <1>1, <1>2, <1>3, <1>4, <1>5, <1>6, <1>7, <1>8, <1>9, <1>10, <1>11, <1>12, <1>13, <1>14, <1>15, <1>16, <1>17
  DEF Next, Main, Listen, Audio, Coder

\* The invariant of what a careful coder may rely on.
LEMMA OneAtATimeInvariant == Spec => [](BuffersInv /\ OneAtATime)
<1>1. Init => Quiet /\ OneAtATime
  BY DEF Init, Quiet, OneAtATime, Compiling
<1>2. BuffersInv /\ Quiet /\ OneAtATime /\ [Next]_vars => (BuffersInv /\ Quiet /\ OneAtATime)'
  BY OneAtATimeStep, QuietStep, TypeStep, HandoverStep DEF BuffersInv
<1> QED
  BY BuffersInit, <1>1, <1>2, PTL DEF Spec

\* Every step of live coding is one that LiveCoding allows, or stutters.
LEMMA LiveCodeStep ==
  BuffersInv /\ OneAtATime /\ [Next]_vars => [LiveCode!Next]_LiveCode!vars
<1> SUFFICES ASSUME TypeOK, OneAtATime, [Next]_vars PROVE [LiveCode!Next]_LiveCode!vars
  BY DEF BuffersInv
<1> USE DEF vars, given, coder, shared, reader, writer
<1>1. CASE sporth_start_listener
  BY <1>1 DEF sporth_start_listener, LiveCode!vars
<1>2. CASE Start
  BY <1>2 DEF Start, LiveCode!vars
<1>3. CASE Run
  BY <1>3 DEF Run, LiveCode!vars
<1>4. CASE plumber_stop_jack
  BY <1>4 DEF plumber_stop_jack, LiveCode!vars
<1>5. CASE Test
  BY <1>5 DEF Test, LiveCode!vars
<1>6. CASE Clear
  BY <1>6 DEF Clear, LiveCode!vars
<1>7. CASE Receive
  BY <1>7 DEF Receive, LiveCode!vars
<1>8. CASE StoreStr
  BY <1>8 DEF StoreStr, LiveCode!vars
<1>9. CASE StoreFlag
  BY <1>9 DEF StoreFlag, LiveCode!vars
<1>10. CASE Again
  BY <1>10 DEF Again, LiveCode!vars
<1>11. CASE Recompile
  BY <1>11 DEF Recompile, LiveCode!vars
<1>12. CASE Parse
  BY <1>12 DEF Parse, LiveCode!vars
<1>13. CASE plumber_swap
  <2>1. CASE careful /\ inorder
    <3>1. playing' \in {playing, sent} /\ playing \in 0 .. sent /\ sent \in Nat
      BY <1>13, <2>1, SwapPlaysTheLast DEF OneAtATime, TypeOK
    <3>2. sent' = sent /\ careful' = careful /\ inorder' = inorder
      BY <1>13 DEF plumber_swap
    <3> QED
      BY <2>1, <3>1, <3>2 DEF LiveCode!Next, LiveCode!Play, LiveCode!vars
  <2>2. CASE ~(careful /\ inorder)
    BY <1>13, <2>2 DEF plumber_swap, LiveCode!vars
  <2> QED
    BY <2>1, <2>2
<1>14. CASE ClearFlag
  BY <1>14 DEF ClearFlag, LiveCode!vars
<1>15. CASE Send
  <2>1. CASE careful /\ inorder
    BY <1>15, <2>1 DEF Send, LiveCode!Next, LiveCode!Send
  <2>2. CASE ~(careful /\ inorder)
    BY <1>15, <2>2 DEF Send, LiveCode!vars
  <2> QED
    BY <2>1, <2>2
<1>16. CASE Drop
  BY <1>16 DEF Drop, LiveCode!vars
<1>17. CASE UNCHANGED vars
  BY <1>17 DEF LiveCode!vars
<1> QED
  BY <1>1, <1>2, <1>3, <1>4, <1>5, <1>6, <1>7, <1>8, <1>9, <1>10, <1>11, <1>12, <1>13, <1>14, <1>15, <1>16, <1>17
  DEF Next, Main, Listen, Audio, Coder

\* With a careful coder and stores in their order, live coding implements what
\* LiveCoding promises: what plays was sent, whole, and never gives way to an
\* earlier patch.
THEOREM PromiseHolds == Spec => Promise
<1>1. Init => LiveCode!Init
  BY DEF Init, LiveCode!Init
<1> QED
  BY <1>1, OneAtATimeInvariant, LiveCodeStep, PTL DEF Spec, Promise, LiveCode!Spec
=============================================================================
