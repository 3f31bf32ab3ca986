-------------------------------- MODULE Lexer --------------------------------
(***************************************************************************)
(* From characters to tokens: the text of a program is read from a string  *)
(* at once, or from a file line by line; sporth_tokenizer cuts it,         *)
(* sporth_lexer says what a piece is and plumber_lexer takes it (parse.c). *)
(* The parsers of the modules Plumber and Nested begin with these tokens.  *)
(*                                                                         *)
(* A character that the code does not name behaves like the letter a.      *)
(***************************************************************************)
EXTENDS Integers, Sequences, SequencesExt

CONSTANTS
  Programs,   \* texts, each with the tokens it is written for, if any
  Known       \* the words that are functions

Quotes == {"'", "\""}
Digits == {"0"}
Separators == {" ", "\n", "(", ")"}
Characters == Quotes \union Digits \union Separators \union {"#", "\\", "-", ".", "_", "a"}
Junk == "junk"   \* EOF, stored as a character
Nonsense == <<[type |-> "none", text |-> <<>>]>>   \* what a text means that is written for nothing

Meanings == [type : {"float", "string", "func"}, text : Seq(Characters \union {Junk})]

ASSUME LexerAssumption ==
  /\ \A p \in Programs : p.text \in Seq(Characters) /\ p.means \in Seq(Meanings) \union {Nonsense}
  /\ Known \subseteq Seq(Characters)

VARIABLES
  program,
  file,     \* the text comes from a file
  rest,     \* of a file: what has not been read yet
  line,     \* the string that is being cut
  pos,      \* where the next piece begins
  tokens,   \* what the parser has been given
  err,      \* a word was not known
  ended,
  last      \* history: the last piece that was cut

vars == <<program, file, rest, line, pos, tokens, err, ended, last>>
-----------------------------------------------------------------------------
\* The loop of sporth_tokenizer from a mode and a place: where it stops, and
\* how many characters it counts on the way.
Scan(str) ==
  LET f[m \in {"seek", "space", "string", "comment"}, p \in 1 .. Len(str) + 1] ==
        LET On(mode, k) == [f[mode, p + 1] EXCEPT !.n = @ + k] IN
        IF p > Len(str) \/ (m = "space" /\ str[p] # " ") THEN [pos |-> p, n |-> 0]
        ELSE CASE m = "space"                              -> On("space", 0)
               [] m = "seek" /\ str[p] \in Separators      -> On("space", 0)
               [] m = "seek" /\ str[p] \in Quotes          -> On("string", 1)
               [] m = "seek" /\ str[p] = "#"               -> f["comment", p]
               [] m = "string" /\ str[p] \in Quotes        -> On("space", 1)
               [] m = "comment" /\ str[p] = "\n"           -> On("space", 1)
               [] OTHER                                    -> On(m, 1)
  IN  f

\* Wrong: the character that ends the layout is not looked at again.
tokenizer_Greedy(str, p) ==
  LET stop == Scan(str)["seek", p]
  IN  [out |-> SubSeq(str, p, p + stop.n - 1),
       pos |-> IF stop.pos > Len(str) THEN stop.pos ELSE stop.pos + 1]

\* The piece has as many characters as were counted, from where it began.
sporth_tokenizer(str, p) ==
  LET stop == Scan(str)["seek", p]
  IN  [out |-> SubSeq(str, p, p + stop.n - 1), pos |-> stop.pos]

\* One character of sporth_lexer.
LexMode(m, c) ==
  CASE m = "start" -> (CASE c = "-" -> "dash" [] c \in Digits -> "float" [] c \in Quotes -> "string"
                         [] c = "_" -> "word" [] c = "#" -> "ignore" [] OTHER -> "func")
    [] m \in {"dash", "float"} -> (CASE c \in Digits -> "float" [] c = "." -> "dot" [] OTHER -> "error")
    [] m \in {"dot", "postdot"} -> IF c \in Digits THEN "postdot" ELSE "error"
    [] OTHER -> m

sporth_lexer(str) ==
  LET m == FoldLeft(LexMode, "start", str)
  IN  CASE m \in {"float", "dot", "postdot"} -> "float"
        [] m \in {"dash", "func"}            -> "func"
        [] m \in {"ignore", "start"}         -> "ignore"
        [] OTHER                             -> m

\* Wrong: a string loses its first character only.
Taken_Unclosed(out) ==
  CASE sporth_lexer(out) \in {"float", "func"} -> <<[type |-> sporth_lexer(out), text |-> out]>>
    [] sporth_lexer(out) \in {"string", "word"} -> <<[type |-> "string", text |-> Tail(out)]>>
    [] OTHER -> <<>>

\* plumber_lexer: a string loses its first and its last character, whatever
\* that is, a word its first.  What cannot be placed is passed over.
Taken(out) ==
  CASE sporth_lexer(out) \in {"float", "func"} -> <<[type |-> sporth_lexer(out), text |-> out]>>
    [] sporth_lexer(out) = "string" -> <<[type |-> "string", text |-> SubSeq(out, 2, Len(out) - 1)]>>
    [] sporth_lexer(out) = "word"   -> <<[type |-> "string", text |-> Tail(out)]>>
    [] OTHER -> <<>>

\* The next line and what is behind it.  A backslash gives way to what follows
\* it, a line break behind one is a space.
Getline(str) ==
  LET g[i \in 1 .. Len(str) + 2] ==
        LET Then(c, k) == [g[i + k] EXCEPT !.line = <<c>> \o @] IN
        IF i > Len(str) THEN [line |-> <<>>, next |-> i]
        ELSE CASE str[i] = "\n"                  -> [line |-> <<>>, next |-> i + 1]
               [] str[i] = "\\" /\ i = Len(str)  -> Then(Junk, 1)
               [] str[i] = "\\" /\ i < Len(str)  ->
                    Then(IF str[i + 1] = "\n" THEN " " ELSE str[i + 1], 2)
               [] OTHER                          -> Then(str[i], 1)
  IN  [line |-> g[1].line, rest |-> SubSeq(str, g[1].next, Len(str))]
-----------------------------------------------------------------------------
(* plumbing_parse_string, and plumbing_parse with its loop over the lines. *)

Init ==
  /\ program \in Programs /\ file \in BOOLEAN
  /\ rest = IF file THEN program.text ELSE <<>>
  /\ line = IF file THEN <<>> ELSE program.text
  /\ pos = 1 /\ tokens = <<>> /\ err = FALSE /\ ended = FALSE /\ last = <<>>

\* Wrong: the last line is cut like the others, which end with a line break.
getline_Unshifted ==
  /\ pos > Len(line) /\ rest # <<>> /\ ~err
  /\ rest' = Getline(rest).rest
  /\ line' = IF "\n" \in ToSet(rest) THEN Getline(rest).line ELSE Front(Getline(rest).line)
  /\ pos' = 1
  /\ UNCHANGED <<program, file, tokens, err, ended, last>>

sporth_getline ==
  /\ pos > Len(line) /\ rest # <<>> /\ ~err
  /\ line' = Getline(rest).line /\ rest' = Getline(rest).rest
  /\ pos' = 1
  /\ UNCHANGED <<program, file, tokens, err, ended, last>>

Token ==
  /\ pos <= Len(line) /\ ~err
  /\ LET piece == sporth_tokenizer(line, pos)
         unknown == sporth_lexer(piece.out) = "func" /\ piece.out \notin Known
     IN  /\ pos' = piece.pos
         /\ last' = piece.out
         /\ err' = unknown
         /\ tokens' = IF unknown THEN tokens ELSE tokens \o Taken(piece.out)
  /\ UNCHANGED <<program, file, rest, line, ended>>

Over ==
  /\ ~ended /\ (err \/ (pos > Len(line) /\ rest = <<>>)) /\ ended' = TRUE
  /\ UNCHANGED <<program, file, rest, line, pos, tokens, err, last>>

Next == sporth_getline \/ Token \/ Over

Spec == Init /\ [][Next]_vars
-----------------------------------------------------------------------------
(* Properties.                                                             *)

\* A program reads as it was written, whatever the layout between its parts
\* and whether it comes from a file or a string (parse.c:27-111, 249-317,
\* 327-390).
AsWritten == ended /\ program.means # Nonsense => ~err /\ tokens = program.means

\* Every token brings the parser further and no character is lost: what a piece
\* leaves out, up to where the next one begins, is layout, and at most one mark
\* of it is no space (parse.c:36-108).
NothingLost ==
  [][Token => LET q == pos + Len(last')
              IN  /\ pos' > pos /\ last' = SubSeq(line, pos, q - 1)
                  /\ \A i \in q .. pos' - 1 : line[i] \in Separators /\ (i > q => line[i] = " ")]_vars

\* All pieces of a string.
Cut(str) ==
  LET c[p \in 1 .. Len(str) + 1] ==
        LET piece == sporth_tokenizer(str, p)
        IN  IF p > Len(str) THEN <<>> ELSE <<piece.out>> \o c[piece.pos]
  IN  c[1]

\* Only a comment ends with the line; a quote that is open at the end of a
\* line, or a backslash, makes a file read otherwise than a string.
SpansLines(out) == "\n" \in ToSet(out) /\ out[1] # "#"

\* A file means what its text means as a string, the one that eval or a live
\* coder would hand over (parse.c:407-413, 441-444).
SameFromFile ==
  LET cut == Cut(program.text)
      alike == "\\" \notin ToSet(program.text) /\ \A i \in DOMAIN cut : ~SpansLines(cut[i])
      refused == \E i \in DOMAIN cut : sporth_lexer(cut[i]) = "func" /\ cut[i] \notin Known
  IN  ended /\ file /\ alike =>
        err = refused /\ (~err => tokens = FlattenSeq([i \in DOMAIN cut |-> Taken(cut[i])]))

=============================================================================
