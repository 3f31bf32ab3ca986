------------------------------ MODULE EventsMC ------------------------------
(***************************************************************************)
(* Files that collect a few events.                                        *)
(***************************************************************************)
EXTENDS Events

Note(at) == [op |-> "note", at |-> at]
Metanote(at, func) == [op |-> "metanote", at |-> at, func |-> func]
Begin == [op |-> "begin"]
End == [op |-> "end"]
Clear == [op |-> "clear"]

\* A function that leaves the events alone, as those that turn voices on do,
\* and one that plays a chord, as in examples/03_metanotes.scm.
MCBody == [leave |-> <<>>, chord |-> <<Note(0), Note(1)>>]

NoteLists ==
  [calls |-> {Note(0), Note(1), Note(2), Metanote(1, "leave"), Begin, End, Clear,
              [op |-> "delay", at |-> 0], [op |-> "add", at |-> 1]},
   bracketed |-> TRUE, oninit |-> "none", garbage |-> {Nil}, most |-> 4]

Progression ==
  [calls |-> {Metanote(0, "chord"), Metanote(2, "chord"), Begin, End},
   bracketed |-> TRUE, oninit |-> "none", garbage |-> {Nil}, most |-> 4]

Anyhow ==
  [calls |-> Progression.calls \union {Note(1), Clear},
   bracketed |-> FALSE, oninit |-> "chord", garbage |-> {Nil, Unset}, most |-> 3]

MCStyles == {NoteLists, Anyhow}
OnlyProgression == {Progression}
=============================================================================
