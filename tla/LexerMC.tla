------------------------------- MODULE LexerMC -------------------------------
(***************************************************************************)
(* All short texts; and texts written from the parts of the language.      *)
(***************************************************************************)
EXTENDS Lexer

Short == {[text |-> t, means |-> Nonsense] : t \in UNION {[1 .. n -> Characters] : n \in 0 .. 4}}

Part(chars, type, text) == [chars |-> chars, means |-> <<[type |-> type, text |-> text]>>]

Comment == [chars |-> <<"#", "'", "\\", "\\">>, means |-> <<>>]

Parts ==
  {Part(<<"-", "0", ".">>, "float", <<"-", "0", ".">>),
   Part(<<".", "a">>, "func", <<".", "a">>), Part(<<"-">>, "func", <<"-">>),
   Part(<<"_", "a">>, "string", <<"a">>),
   Part(<<"'", "#", " ", "'">>, "string", <<"#", " ">>),
   Part(<<"\"", ")", "\"">>, "string", <<")">>), Comment}

\* Behind a string nothing is needed, behind a comment the line must end.
Gaps(part) ==
  (IF part.chars[1] \in Quotes THEN {<<>>} ELSE {})
  \union (IF part = Comment THEN {<<"\n", "(">>} ELSE {<<" ", " ">>, <<")", "\n">>})
  \union {<<"\n">>}

Pieces == UNION {{[chars |-> p.chars \o g, means |-> p.means] : g \in Gaps(p)} : p \in Parts}

Join(f) == [text  |-> FlattenSeq([i \in DOMAIN f |-> f[i].chars]),
            means |-> FlattenSeq([i \in DOMAIN f |-> f[i].means])]

Written == {Join(f) : f \in UNION {[1 .. n -> Pieces] : n \in 0 .. 3}}

MCPrograms == Short \union Written

Words == {<<".", "a">>, <<"-">>}
=============================================================================
