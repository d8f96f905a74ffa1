------------------------------ MODULE MCLexing ------------------------------
(***************************************************************************)
(* Three families of texts: every text of up to five of seven characters,  *)
(* every short text of braces, quotes and what the consoles treat          *)
(* specially, and every text written from up to three of the pieces below, *)
(* of which we know what tokens they are.                                  *)
(***************************************************************************)
EXTENDS LexerProperties, SequencesExt, FiniteSetsExt

Characters == {"i", "1", ".", "/", "(", Quote, NL}
Braced == {"{", "}", Quote, "'", "\\", "/", ";"}

Raw == BoundedSeq(Characters, 5) \cup BoundedSeq(Braced, 5)

(* A piece: its characters and the type of its token; "GAP" is none. *)
Piece(chars, type) == [chars |-> chars, type |-> type]

Comment == Piece(<<"/", "/", "x", Quote, "/", "1", NL>>, "GAP")

Pieces ==
  { Piece(<<"x">>, "NAME"), Piece(<<"i", "f">>, "IF"), Piece(<<"f", "i">>, "NAME"),
    Piece(<<"i", "f", "1">>, "NAME"), Piece(<<"v", "a", "r">>, "VAR"),
    Piece(<<"1">>, "INT"), Piece(<<"1", "0">>, "INT"),
    Piece(<<"1", ".">>, "DOUBLE"), Piece(<<"1", ".", "0">>, "DOUBLE"),
    Piece(<<Quote, Quote>>, "STRING"),
    Piece(<<Quote, "/", "/", NL, "i", "f", " ", "1", Quote>>, "STRING"),
    Piece(<<"/">>, "SLASH"), Piece(<<".">>, "DOT"), Piece(<<"=">>, "EQUAL"),
    Piece(<<" ">>, "GAP"), Piece(<<NL>>, "GAP"), Piece(<<"%">>, "GAP"), Comment }

Writings == BoundedSeq(Pieces, 3)

Write(written) == FlattenSeq([i \in DOMAIN written |-> written[i].chars])

Starts(piece, type) == piece.chars[1] \in type

(* Pieces that run into each other when nothing is between them. *)
Merge(p, q) ==
  \/ p.type \in WordTypes /\ Starts(q, alphabet \cup didgits)
  \/ p.type = "INT" /\ Starts(q, didgits \cup {"."})
  \/ p.type = "DOUBLE" /\ Starts(q, didgits)
  \/ p.type = "SLASH" /\ Starts(q, {"/"})

Apart(written) ==
  \A i \in 1..(Len(written) - 1) : ~Merge(written[i], written[i + 1])

(* The code reads one character past a word and past a slash. *)
EndsEarly(written) ==
  written # <<>> /\ Last(written).type \in WordTypes \cup {"SLASH"}

MCTexts == Raw \cup {Write(written) : written \in Writings}

VARIABLE written      \* the pieces the text was written from, or <<>>

MCInit ==
  /\ \/ text \in Raw /\ written = <<>>
     \/ \E w \in Writings : w # <<>> /\ text = Write(w) /\ written = w
  /\ AtStart

MCNext == Next /\ UNCHANGED written

MCSpec == MCInit /\ [][MCNext]_<<vars, written>> /\ WF_vars(Next)

Spelling(t) ==
  IF t.type = "STRING" THEN SubSeq(text, t.first - 1, t.last + 1)
  ELSE SubSeq(text, t.first, t.last)

(* Writing the pieces and reading them gives their tokens back, whatever   *)
(* stands between them, unless two of them run into each other; and the    *)
(* text is refused exactly when it ends in a word or in a slash.           *)
ReadsBack ==
  written # <<>> /\ Apart(written) =>
    /\ state = "failed" => EndsEarly(written)
    /\ state = "done" =>
         /\ ~EndsEarly(written)
         /\ LET told == SelectSeq(written, LAMBDA p : p.type # "GAP")
                read == SelectSeq(tokens, Proper)
            IN  /\ Len(read) = Len(told)
                /\ \A i \in DOMAIN told :
                     read[i].type = told[i].type /\ Spelling(read[i]) = told[i].chars
=============================================================================
