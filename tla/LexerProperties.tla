-------------------------- MODULE LexerProperties --------------------------
(***************************************************************************)
(* What the tokens of a text have to do with the text.  The places of the  *)
(* tokens are what the error messages of the consoles point at; their      *)
(* extents are what the program is.                                        *)
(***************************************************************************)
EXTENDS Lexer, InputComplete, FiniteSets

Collecting == state \in {"number", "string", "word"}

Positions == [first : Nat, line : Nat, col : Nat, is_dot_met : BOOLEAN]

Tokens ==
  [type : TerminalTypes \cup WordTypes \cup NumberTypes \cup EndTypes \cup {"STRING"},
   first : Nat, last : Nat, line : Nat, col : Nat]

(* The lexer never leaves the text, and what it returns are tokens. *)
TypeOK ==
  /\ text \in Seq(STRING)
  /\ at \in 1..(Len(text) + 1)
  /\ line \in Nat /\ col \in Nat
  /\ is_comment_state \in BOOLEAN
  /\ token \in Positions
  /\ tokens \in Seq(Tokens)
  /\ state \in {"scanning", "number", "string", "word", "done", "failed"}

(***************************************************************************)
(* Places.                                                                 *)
(***************************************************************************)
Breaks(i) == {j \in 1..(i - 1) : text[j] = NL}

(* Position i is in column c of line l, both counted from zero. *)
Placed(i, l, c) ==
  /\ l = Cardinality(Breaks(i))
  /\ c \in 0..(i - 1)
  /\ \A j \in (i - c)..(i - 1) : text[j] # NL
  /\ c = i - 1 \/ text[i - c - 1] = NL

(* Where a token begins and stops in the text, its quotes included. *)
Start(t) == IF t.type = "STRING" THEN t.first - 1 ELSE t.first
Stop(t)  == IF t.type = "STRING" THEN t.last + 1 ELSE t.last

Proper(t) == t.type \notin EndTypes

(* Every token carries the line and the column of its first character,     *)
(* after any number of line breaks, in comments and strings too.           *)
TokensPlaced ==
  \A i \in DOMAIN tokens :
    Proper(tokens[i]) =>
      Placed(Start(tokens[i]), tokens[i].line, tokens[i].col)

(* The tokens come in the order of the text and no character belongs to    *)
(* two of them.                                                            *)
TokensInOrder ==
  \A i, j \in DOMAIN tokens :
    i < j /\ Proper(tokens[i]) /\ Proper(tokens[j]) =>
      Stop(tokens[i]) < Start(tokens[j])

(***************************************************************************)
(* Extents.                                                                *)
(***************************************************************************)
(* Position j belongs to a token, or to the one that is being collected. *)
Taken(j) ==
  \/ \E i \in DOMAIN tokens :
       Proper(tokens[i]) /\ Start(tokens[i]) <= j /\ j <= Stop(tokens[i])
  \/ Collecting /\ (IF state = "string" THEN token.first - 1 ELSE token.first) <= j

(* A comment begins with two slashes that belong to no token and takes the *)
(* rest of the line.                                                       *)
InAComment(j) ==
  \E k \in 1..j :
    /\ k < Len(text) /\ text[k] = "/" /\ text[k + 1] = "/" /\ ~Taken(k)
    /\ \A m \in k..(j - 1) : text[m] # NL

Significant == terminals \cup didgits \cup alphabet \cup {Quote}

(* Of what has been read, exactly the comments are left out: every other   *)
(* significant character belongs to a token, and none in a comment does.   *)
OnlyCommentsLeftOut ==
  state # "failed" =>
    \A j \in 1..(at - 1) :
      text[j] \in Significant => (Taken(j) <=> ~InAComment(j))

(* The character at position i goes on with a token of these characters. *)
GoesOn(i, chars) == i <= Len(text) /\ text[i] \in chars

Dots(t) == {i \in t.first..t.last : text[i] = "."}

(* A number, a string or a word is what its type says, from end to end,    *)
(* and goes on as long as it can: with one dot at most, up to the next     *)
(* quote, as long as there are letters and digits.                         *)
Whole(t) ==
  LET Chars(chars) == \A j \in t.first..t.last : text[j] \in chars
  IN  CASE t.type = "INT" ->
             t.first <= t.last /\ Chars(didgits)
               /\ ~GoesOn(t.last + 1, didgits \cup {"."})
        [] t.type = "DOUBLE" ->
             text[t.first] \in didgits /\ Chars(didgits \cup {"."})
               /\ Cardinality(Dots(t)) = 1 /\ ~GoesOn(t.last + 1, didgits)
        [] t.type = "STRING" ->
             text[t.first - 1] = Quote /\ text[t.last + 1] = Quote
               /\ \A j \in t.first..t.last : text[j] # Quote
        [] t.type \in WordTypes ->
             text[t.first] \in alphabet /\ Chars(alphabet \cup didgits)
               /\ ~GoesOn(t.last + 1, alphabet \cup didgits)
        [] OTHER -> TRUE

TokensWhole == \A i \in DOMAIN tokens : Whole(tokens[i])

(***************************************************************************)
(* The consoles decide without the lexer whether a first line is complete. *)
(* They agree with the tokens the lexer makes of it, for every line in     *)
(* which no brace comes after what they have rules of their own for: an    *)
(* apostrophe, which begins a string to them; a backslash before a quote,  *)
(* which does not end one; and a comment, which they read like the rest.   *)
(***************************************************************************)
OwnRule(chars, i) ==
  \/ chars[i] = "'"
  \/ chars[i] = "\\" /\ chars[i + 1] = "\""
  \/ chars[i] = "/" /\ chars[i + 1] = "/"

OwnRules(chars) ==
  \E j \in DOMAIN chars :
    chars[j] \in {"{", "}"} /\ \E i \in 1..(j - 1) : OwnRule(chars, i)

Braces(type) == Cardinality({i \in DOMAIN tokens : tokens[i].type = type})

CompleteAsLexed ==
  state = "done" /\ ~OwnRules(text) =>
    (isInputComplete(text) <=>
       Braces("OPEN_CURLY_BRACKET") <= Braces("CLOSE_CURLY_BRACKET"))

(* The loop reads every text to its end, or throws. *)
Terminates == <>(state \in {"done", "failed"})
=============================================================================
