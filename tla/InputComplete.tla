--------------------------- MODULE InputComplete ----------------------------
(***************************************************************************)
(* isInputComplete of the consoles: whether a program that was typed so    *)
(* far has as many closing braces as opening ones.  It has rules of its    *)
(* own for what a string is, and none for comments.                        *)
(***************************************************************************)
EXTENDS Integers, Sequences

Outside == "outside"          \* not in_string; otherwise string_char

(* Mutant: braces in strings count. *)
PastCharacterInString(seen, c) ==
  [string_char |-> Outside, previous |-> c,
   balance |-> CASE c = "{" -> seen.balance + 1
                 [] c = "}" -> seen.balance - 1
                 [] OTHER -> seen.balance]

PastCharacter(seen, c) ==
  IF seen.string_char # Outside
  THEN [seen EXCEPT !.previous = c,
                    !.string_char = IF c = @ /\ seen.previous # "\\" THEN Outside ELSE @]
  ELSE [string_char |-> IF c \in {"'", "\""} THEN c ELSE Outside,
        previous |-> c,
        balance |-> CASE c = "{" -> seen.balance + 1
                      [] c = "}" -> seen.balance - 1
                      [] OTHER -> seen.balance]

NothingRead == [string_char |-> Outside, previous |-> "", balance |-> 0]

(* What is known after each of the first characters of an input. *)
Scanned(input) ==
  LET scanned[n \in 0..Len(input)] ==
        IF n = 0 THEN NothingRead ELSE PastCharacter(scanned[n - 1], input[n])
  IN  scanned

isInputComplete(input) == Scanned(input)[Len(input)].balance <= 0
=============================================================================
