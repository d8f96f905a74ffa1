----------------------------- MODULE ParserWork -----------------------------
(***************************************************************************)
(* What the parser keeps, and how much work it does.  The plans it applies *)
(* are counted in a variable of this specification, which the program does *)
(* not have.                                                               *)
(***************************************************************************)
EXTENDS Parser

(* Types; and the stack holds at most one node for each token read.        *)
TypeOK ==
  /\ text \in DOMAIN Texts
  /\ position \in 1 .. Len(tokens)
  /\ Len(stack) \in 1 .. position
  /\ \A i \in DOMAIN stack : Kind(stack[i]) \in Kinds
  /\ progress \in BOOLEAN
  /\ outcome \in {"parsing", "parsed", "syntaxError", "notAllNodesReduced"}

-----------------------------------------------------------------------------
VARIABLE plans        \* how many plans were applied

AppliesPlan == outcome' = "parsing" /\ position' = position

CountedInit == Init /\ plans = 0

CountedNext ==
  /\ Next
  /\ plans' = IF AppliesPlan THEN plans + 1 ELSE plans

CountedSpec == CountedInit /\ [][CountedNext]_<<vars, plans>>

(***************************************************************************)
(* The work is linear in the text: a token is at most renamed once, and    *)
(* every other plan makes the stack shorter.  So no production feeds       *)
(* itself, and the loop that starts over at the first grammar after every  *)
(* plan comes to the next token.                                           *)
(***************************************************************************)
LinearWork == plans + Len(stack) <= 2 * position
=============================================================================
