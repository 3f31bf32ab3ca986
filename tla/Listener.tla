------------------------------ MODULE Listener ------------------------------
(***************************************************************************)
(* Live coding: patches arrive as datagrams while another one plays.       *)
(*                                                                         *)
(* Four parties meet.  The main thread starts JACK, then the listener      *)
(* (util/sp_jack.c).  The listener thread receives a datagram into one of  *)
(* two buffers in turn and publishes it with two plain stores, pd->str and *)
(* pd->recompile (util/listener.c).  The audio thread looks at the flag    *)
(* before every sample, compiles the string and then clears the flag       *)
(* (sporth.c).  The coder sends patches over UDP, which loses and reorders.*)
(*                                                                         *)
(* There is no lock.  A step is one access to what the threads share; the  *)
(* compilation reads its text in Pieces.  What a compilation does to the   *)
(* engine is in the module Plumber; here it succeeds or not.               *)
(***************************************************************************)
EXTENDS Integers, Sequences

CONSTANTS
  MaxSent,   \* bounds how often the coder sends
  Pieces,    \* the number of pieces that a text is read in
  Bad,       \* patches that do not compile
  Full       \* patches that leave no room for the NUL in a buffer

ASSUME ListenerAssumption ==
  /\ MaxSent \in Nat
  /\ Pieces \in Nat \ {0}
  /\ Bad \subseteq Nat
  /\ Full \subseteq Nat

Patches == 1 .. MaxSent
Empty == 0       \* a buffer full of NULs; also what a piece of one reads as
Beyond == -1     \* what lies behind a buffer
Torn == -2       \* a program made of anything else than one whole patch
None == 2        \* pd->str was never set

VARIABLES
  careful,   \* the coder waits for the effect of a patch before the next, and
             \* sends none that fills a buffer
  inorder,   \* the build makes the listener's stores visible in their order
  main,      \* what sp_process_jack has done
  listener,  \* what the listener does next
  buf,       \* buf1 and buf2
  whichbuf,
  stored,    \* which of the two stores of this round are done
  str,       \* pd->str, as the number of a buffer
  recompile, \* pd->recompile
  audio,     \* what the audio thread does next
  text,      \* the buffer that is being compiled
  size,      \* its length when the compilation began
  heard,     \* the pieces read so far
  playing,   \* the patch that plays; 0 is the first program
  sent,      \* how many patches were sent
  net,       \* those on their way or in the queue of the socket
  dropped,   \* history: those that never arrive
  latest,    \* history: the last one received
  tried,     \* history: those whose compilation began and is over
  raced,     \* history: those published during a compilation
  disturbed  \* history: the listener was busy since the compilation began

given == <<careful, inorder>>
coder == <<sent, net, dropped>>
shared == <<str, recompile>>
reader == <<audio, text, size, heard, playing, tried>>
writer == <<listener, buf, whichbuf, stored, latest>>
vars == <<given, main, writer, shared, reader, coder, raced, disturbed>>

Compiling == audio \in {"parse", "done"}

Init ==
  /\ careful \in BOOLEAN /\ inorder \in BOOLEAN
  /\ main = "activated" /\ listener = "unborn" /\ audio = "idle"
  /\ buf = [b \in 0 .. 1 |-> Empty] /\ whichbuf = 0 /\ stored = {}
  /\ str = None /\ recompile = FALSE
  /\ text = 0 /\ size = 0 /\ heard = <<>> /\ playing = 0
  /\ sent = 0 /\ net = {} /\ dropped = {}
  /\ latest = 0 /\ tried = {} /\ raced = {} /\ disturbed = FALSE
-----------------------------------------------------------------------------
(* The main thread: the callback is active; the thread is created before   *)
(* the flag that keeps its loop going is set.                              *)

sporth_start_listener ==
  /\ main = "activated" /\ main' = "created"
  /\ listener' = "test"
  /\ UNCHANGED <<given, buf, whichbuf, stored, latest, shared, reader, coder, raced, disturbed>>

Start ==
  /\ main = "created" /\ main' = "started"
  /\ UNCHANGED <<given, writer, shared, reader, coder, raced, disturbed>>

Run ==
  /\ main = "started" /\ main' = "running"
  /\ UNCHANGED <<given, writer, shared, reader, coder, raced, disturbed>>

\* A key is pressed; closing the client waits for the callback to return.
\* Nobody tells the listener.
plumber_stop_jack ==
  /\ main = "running" /\ audio = "idle" /\ main' = "stopped"
  /\ UNCHANGED <<given, writer, shared, reader, coder, raced, disturbed>>
-----------------------------------------------------------------------------
(* The listener thread.                                                    *)

Test ==
  /\ listener = "test"
  /\ listener' = IF main \in {"activated", "created"} THEN "exit" ELSE "clear"
  /\ UNCHANGED <<given, main, buf, whichbuf, stored, latest, shared, reader, coder, raced, disturbed>>

\* Wrong: the buffer that was just published is cleared.
Clear_Other ==
  /\ listener = "clear" /\ listener' = "receive"
  /\ buf' = [buf EXCEPT ![1 - whichbuf] = Empty]
  /\ UNCHANGED <<given, main, whichbuf, stored, latest, shared, reader, coder, raced, disturbed>>

Clear ==
  /\ listener = "clear" /\ listener' = "receive"
  /\ buf' = [buf EXCEPT ![whichbuf] = Empty]
  /\ UNCHANGED <<given, main, whichbuf, stored, latest, shared, reader, coder, raced, disturbed>>

\* Datagrams may overtake each other.
Receive ==
  /\ listener = "receive" /\ listener' = "publish"
  /\ \E p \in net :
       /\ buf' = [buf EXCEPT ![whichbuf] = p]
       /\ net' = net \ {p}
       /\ latest' = p
  /\ disturbed' = (disturbed \/ Compiling)
  /\ UNCHANGED <<given, main, whichbuf, stored, shared, reader, sent, dropped, raced>>

StoreStr ==
  /\ listener = "publish" /\ "str" \notin stored
  /\ str' = whichbuf
  /\ stored' = stored \union {"str"}
  /\ UNCHANGED <<given, main, listener, buf, whichbuf, latest, recompile, reader, coder, raced, disturbed>>

\* Wrong: the flag is raised first.
StoreFlag_First ==
  /\ listener = "publish" /\ "flag" \notin stored
  /\ recompile' = TRUE
  /\ stored' = stored \union {"flag"}
  /\ raced' = IF Compiling THEN raced \union {latest} ELSE raced
  /\ UNCHANGED <<given, main, listener, buf, whichbuf, latest, str, reader, coder, disturbed>>

\* Without a barrier the flag may be seen before the string.
StoreFlag ==
  /\ listener = "publish" /\ "flag" \notin stored
  /\ inorder => "str" \in stored
  /\ recompile' = TRUE
  /\ stored' = stored \union {"flag"}
  /\ raced' = IF Compiling THEN raced \union {latest} ELSE raced
  /\ UNCHANGED <<given, main, listener, buf, whichbuf, latest, str, reader, coder, disturbed>>

\* Wrong: there is only one buffer.
Again_Same ==
  /\ listener = "publish" /\ stored = {"str", "flag"}
  /\ listener' = "test" /\ stored' = {}
  /\ UNCHANGED <<given, main, buf, whichbuf, latest, shared, reader, coder, raced, disturbed>>

Again ==
  /\ listener = "publish" /\ stored = {"str", "flag"}
  /\ listener' = "test" /\ stored' = {}
  /\ whichbuf' = 1 - whichbuf
  /\ UNCHANGED <<given, main, buf, latest, shared, reader, coder, raced, disturbed>>
-----------------------------------------------------------------------------
(* The audio thread.                                                       *)

Length(p) == IF p = Empty THEN 0 ELSE IF p \in Full /\ ~careful THEN Pieces + 1 ELSE Pieces

\* A NUL in the middle of the text is passed over.
Piece(p, i) == IF i <= Length(p) THEN IF i <= Pieces THEN p ELSE Beyond ELSE Empty

Whole(p) == [i \in 1 .. Pieces |-> p]

\* The flag is up: the string is looked up once and measured.
Recompile ==
  /\ main = "running" /\ audio = "idle" /\ recompile
  /\ \/ /\ str = None /\ audio' = "crashed"
        /\ UNCHANGED <<text, size, heard, disturbed>>
     \/ /\ str # None /\ audio' = "parse"
        /\ text' = str /\ size' = Length(buf[str]) /\ heard' = <<>>
        /\ disturbed' = (listener = "publish")
  /\ UNCHANGED <<given, main, writer, shared, playing, tried, coder, raced>>

Parse ==
  /\ audio = "parse" /\ Len(heard) < size
  /\ heard' = Append(heard, Piece(buf[text], Len(heard) + 1))
  /\ UNCHANGED <<given, main, writer, shared, audio, text, size, playing, tried, coder, raced, disturbed>>

\* What was read takes the place of what plays, or is thrown away.
plumber_swap ==
  /\ audio = "parse" /\ Len(heard) = size /\ audio' = "done"
  /\ \/ \E p \in Patches \ Bad : heard = Whole(p) /\ playing' = p
     \/ (\E p \in Bad : heard = Whole(p)) /\ UNCHANGED playing
     \/ (\A p \in Patches : heard # Whole(p)) /\ playing' \in {playing, Torn}
  /\ UNCHANGED <<given, main, writer, shared, text, size, heard, tried, coder, raced, disturbed>>

ClearFlag ==
  /\ audio = "done" /\ audio' = "idle"
  /\ recompile' = FALSE
  /\ tried' = tried \union {heard[i] : i \in DOMAIN heard}
  /\ heard' = <<>> /\ size' = 0 /\ text' = 0 /\ disturbed' = FALSE
  /\ UNCHANGED <<given, main, writer, str, playing, coder, raced>>
-----------------------------------------------------------------------------
(* The coder and the network.                                              *)

Send ==
  /\ sent < MaxSent /\ main # "stopped"
  /\ careful => \A p \in 1 .. sent : p \in tried \union dropped
  /\ sent' = sent + 1 /\ net' = net \union {sent + 1}
  /\ UNCHANGED <<given, main, writer, shared, reader, dropped, raced, disturbed>>

Drop ==
  /\ \E p \in net : net' = net \ {p} /\ dropped' = dropped \union {p}
  /\ UNCHANGED <<given, main, writer, shared, reader, sent, raced, disturbed>>

Main == sporth_start_listener \/ Start \/ Run
Listen == Test \/ Clear \/ Receive \/ StoreStr \/ StoreFlag \/ Again
Audio == Recompile \/ Parse \/ plumber_swap \/ ClearFlag
Coder == Send \/ Drop

Next == Main \/ plumber_stop_jack \/ Listen \/ Audio \/ Coder

\* The threads run; nobody has to send, and no network has to lose.
Fairness == WF_vars(Main) /\ WF_vars(Listen) /\ WF_vars(Audio)

Spec == Init /\ [][Next]_vars /\ Fairness
-----------------------------------------------------------------------------
(* Properties.                                                             *)

TypeOK ==
  /\ careful \in BOOLEAN /\ inorder \in BOOLEAN
  /\ main \in {"activated", "created", "started", "running", "stopped"}
  /\ listener \in {"unborn", "test", "clear", "receive", "publish", "exit"}
  /\ audio \in {"idle", "parse", "done", "crashed"}
  /\ buf \in [0 .. 1 -> Patches \union {Empty}]
  /\ whichbuf \in 0 .. 1 /\ text \in 0 .. 1 /\ str \in {0, 1, None}
  /\ stored \subseteq {"str", "flag"}
  /\ recompile \in BOOLEAN /\ disturbed \in BOOLEAN
  /\ size \in 0 .. Pieces + 1
  /\ heard \in Seq(Patches \union {Empty, Beyond}) /\ Len(heard) <= size
  /\ playing \in Patches \union {0, Torn}
  /\ sent \in 0 .. MaxSent /\ latest \in 0 .. MaxSent
  /\ net \subseteq Patches /\ dropped \subseteq Patches
  /\ tried \subseteq Patches \union {Empty, Beyond}
  /\ raced \subseteq Patches

\* The two buffers do their work: once the listener is back at the socket,
\* the string it published is the last one it received, whatever it does to
\* the other buffer (listener.c:51-56, 78-79).
LatestWins ==
  latest # 0 /\ listener # "publish" => str # None /\ buf[str] = latest

\* The invariant of the buffers.
Inv == TypeOK /\ LatestWins

\* A compilation that the listener leaves alone compiles one whole patch: no
\* datagram was being published when it began and none has come since
\* (sporth.c:15-18; listener.c:56).  One that fills its buffer is read beyond.
Undisturbed ==
  audio = "done" /\ ~disturbed =>
    \E p \in Patches :
      heard = IF Length(p) > Pieces THEN Append(Whole(p), Beyond) ELSE Whole(p)

\* The last patch received is compiled, unless its flag was raised during the
\* compilation of another and fell with it (sporth.c:17).
LostOnlyInRaces ==
  inorder /\ audio = "idle" /\ listener # "publish" /\ ~recompile /\ latest # 0 =>
    latest \in tried \union raced

\* With a careful coder and stores in order, live coding keeps its promise.
LiveCode == INSTANCE LiveCoding WITH
  sent    <- IF careful /\ inorder THEN sent ELSE 0,
  playing <- IF careful /\ inorder THEN playing ELSE 0

Promise == LiveCode!Spec

\* What a careful coder sends is compiled, unless it is lost on the way, the
\* listener has missed its start (sp_jack.c:153-154), or the program stops.
Answered ==
  \A p \in Patches :
    careful /\ inorder /\ p \in net
      ~> p \in tried \union dropped \/ listener = "exit" \/ main = "stopped"
=============================================================================
