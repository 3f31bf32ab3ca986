------------------------------- MODULE PdHost -------------------------------
(***************************************************************************)
(* The engine inside Pure Data (util/pd/sporth~.c).  Messages come between *)
(* blocks of samples: "open" names a file, "parse" brings a program.  They *)
(* only leave a note in please_parse, which the next block looks at.       *)
(*                                                                         *)
(* The text of a program is written into one of two buffers in turn, which *)
(* lie next to each other in the object; a character is a cell that says   *)
(* which program it is from, and where in it.  What a recompilation does   *)
(* is in the module Plumber.                                               *)
(***************************************************************************)
EXTENDS Integers, Sequences

CONSTANTS
  BUFSIZE,      \* of a buffer
  Size,         \* of each program: its characters, a space behind each atom
  Files,        \* that there are
  Missing,      \* and that there are not
  MaxMessages   \* bounds the messages

ASSUME PdHostAssumption ==
  /\ BUFSIZE \in Nat \ {0} /\ MaxMessages \in Nat
  /\ \A p \in DOMAIN Size : Size[p] \in Nat \ {1}
  /\ DOMAIN Size \intersect (Files \union Missing) = {} /\ Files \intersect Missing = {}

NUL == <<"nul", 0>>
Behind == <<"behind", 0>>   \* the object
NULL == <<0, "NULL">>
Nothing == <<0, "nothing">>

VARIABLES
  buf,            \* both buffers and two cells more
  whichbuf, please_parse,
  fp,             \* pd->fp: the message that opened it and the file, or NULL
  phase,          \* runs, freed, crashed
  messages,       \* how many came
  opened,         \* history: handles opened and not closed
  asked,          \* history: the last message that was taken, and what it asked for
  spoilt,         \* history: a program too long came since
  raced,          \* history: some message came before the block after another
  compiled        \* history: what the last recompilation was to read, and read

object == <<buf, whichbuf, please_parse, fp>>
vars == <<object, phase, messages, opened, asked, spoilt, raced, compiled>>

\* pd_new clears the object.
Init ==
  /\ buf = [i \in 0 .. 2 * BUFSIZE + 1 |-> IF i < 2 * BUFSIZE THEN NUL ELSE Behind]
  /\ whichbuf = 0 /\ please_parse = 0 /\ fp = NULL
  /\ phase = "runs" /\ messages = 0
  /\ opened = {} /\ asked = Nothing /\ spoilt = FALSE /\ raced = FALSE
  /\ compiled = [asked |-> Nothing, got |-> NULL, spoilt |-> FALSE]

Text(p) == [i \in 1 .. Size[p] |-> <<p, i>>]
\* A string in memory, up to the NUL.
Read(b) ==
  LET from == b * BUFSIZE
      ends == {i \in from .. 2 * BUFSIZE + 1 : buf[i] = NUL}
      to == IF ends = {} THEN 2 * BUFSIZE + 2 ELSE CHOOSE i \in ends : \A j \in ends : i <= j
  IN  [i \in 1 .. to - from |-> buf[from + i - 1]]

Message ==
  /\ phase = "runs" /\ messages < MaxMessages /\ messages' = messages + 1
  /\ raced' = (raced \/ please_parse # 0)
  /\ UNCHANGED <<phase, compiled>>

open_file ==
  /\ Message
  /\ \E f \in Files \union Missing :
       /\ fp' = IF f \in Files THEN <<messages', f>> ELSE NULL
       /\ opened' = opened \union ({fp'} \ {NULL})
       /\ asked' = <<messages', f>>
  /\ please_parse' = 1 /\ spoilt' = FALSE
  /\ UNCHANGED <<buf, whichbuf>>

\* A buffer that begins with cells.
Store(b, cells) ==
  [i \in DOMAIN buf |->
     IF i \in b * BUFSIZE .. b * BUFSIZE + Len(cells) - 1 THEN cells[i - b * BUFSIZE + 1] ELSE buf[i]]

\* Wrong: there is no NUL.
Ended_Open(b, p) == Store(b, Text(p))

\* buf[++bufpos]: the cell behind the last space keeps what it was.
Ended(b, p) == [Store(b, Text(p)) EXCEPT ![b * BUFSIZE + Size[p] + 1] = NUL]

\* A program that does not fit is given up, with its beginning in the buffer.
parse ==
  /\ Message
  /\ whichbuf' = 1 - whichbuf
  /\ \E p \in DOMAIN Size :
       \/ /\ Size[p] > BUFSIZE
          /\ buf' = Store(whichbuf', SubSeq(Text(p), 1, BUFSIZE))
          /\ spoilt' = TRUE
          /\ UNCHANGED <<please_parse, asked>>
       \/ /\ Size[p] <= BUFSIZE
          /\ buf' = Ended(whichbuf', p)
          /\ please_parse' = 2 /\ asked' = <<messages', p>> /\ spoilt' = FALSE
  /\ UNCHANGED <<fp, opened>>

Compile(got) ==
  /\ please_parse' = 0 /\ fp' = NULL
  /\ compiled' = [asked |-> asked, got |-> got, spoilt |-> spoilt]
  /\ UNCHANGED <<buf, whichbuf, messages, asked, spoilt, raced>>

\* Wrong: the file stays open.
perform_File_Open ==
  /\ phase = "runs" /\ please_parse = 1
  /\ Compile(fp)
  /\ phase' = IF fp = NULL THEN "crashed" ELSE "runs"
  /\ UNCHANGED opened

\* plumber_recompile takes no file for an empty one, fclose does not take it.
perform_File ==
  /\ phase = "runs" /\ please_parse = 1
  /\ Compile(fp)
  /\ phase' = IF fp = NULL THEN "crashed" ELSE "runs"
  /\ opened' = opened \ {fp}

\* plumber_recompile_string_v2 forgets the file.
perform_String ==
  /\ phase = "runs" /\ please_parse = 2
  /\ Compile(Read(whichbuf))
  /\ UNCHANGED <<phase, opened>>

\* plumber_clean closes what pd->fp is.
sporth_free ==
  /\ phase = "runs" /\ phase' = "freed"
  /\ opened' = opened \ {fp}
  /\ UNCHANGED <<object, messages, asked, spoilt, raced, compiled>>

Next == open_file \/ parse \/ perform_File \/ perform_String \/ sporth_free

Spec == Init /\ [][Next]_vars
-----------------------------------------------------------------------------
\* The buffers hold characters of programs at their places, or a NUL.
TypeOK ==
  /\ \A i \in DOMAIN buf :
       \/ buf[i] \in {NUL, Behind}
       \/ buf[i][1] \in DOMAIN Size /\ buf[i][2] \in 1 .. BUFSIZE
            /\ i \in {buf[i][2] - 1, BUFSIZE + buf[i][2] - 1}
  /\ whichbuf \in {0, 1} /\ please_parse \in 0 .. 2
  /\ fp \in {NULL} \union (1 .. MaxMessages) \X Files
  /\ opened \subseteq (1 .. MaxMessages) \X Files
  /\ phase \in {"runs", "freed", "crashed"}

\* A recompilation reads what the last message asked for: the file it opened,
\* or the whole program it brought and at most one old character behind it,
\* whatever came between two blocks.  Only a program too long, which is
\* announced as refused, may spoil the one that waits.
AsSent ==
  LET c == compiled
      what == c.asked[2]
  IN \/ c.spoilt \/ c.asked = Nothing
     \/ what \in Files /\ c.got = c.asked
     \/ what \in Missing /\ c.got = NULL
     \/ /\ what \in DOMAIN Size
        /\ Len(c.got) \in {Size[what], Size[what] + 1}
        /\ SubSeq(c.got, 1, Size[what]) = Text(what)

\* As long as every message finds the one before it done, the only file open
\* is the one about to be read, and none is when the object is freed.
Closed == raced \/ opened \subseteq (IF phase = "runs" /\ please_parse = 1 THEN {fp} ELSE {})

\* The object is well formed, and no file is forgotten.
Inv == TypeOK /\ Closed
=============================================================================
