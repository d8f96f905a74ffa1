------------------------------- MODULE Parser -------------------------------
(***************************************************************************)
(* The parser: AbstractSyntaxTree( const LexicalTokens& ) in               *)
(* src/project/parser/src/abstract_syntax_tree/abstract_syntax_tree.cpp.   *)
(*                                                                         *)
(* The tokens are pushed one at a time; after each, the grammars are tried *)
(* in order, and tried again from the first after every plan applied.  The *)
(* parser never looks back: what is on the stack is all it knows.          *)
(***************************************************************************)
EXTENDS Grammars

CONSTANT Texts        \* the token sequences that are parsed, by name

ASSUME TextsAssumption ==
  \A t \in DOMAIN Texts :
    /\ Texts[t] \in Seq([type : Token_Type, str : STRING, int : Int])
    /\ Len(Texts[t]) >= 2
    /\ Texts[t][1].type = "BOL" /\ Last(Texts[t]).type = "EOL"

VARIABLES
  text,        \* the name of the text
  position,    \* how many of its tokens have been pushed
  stack,       \* mStack
  progress,    \* best_progress_opt is not zero, since the last push
  outcome      \* "parsing", then "parsed" or the error thrown

vars == <<text, position, stack, progress, outcome>>

tokens == Texts[text]

look_ahead ==
  IF position < Len(tokens) THEN tokens[position + 1].type ELSE NoToken

Init ==
  /\ text \in DOMAIN Texts
  /\ position = 1
  /\ stack = <<createSyntaxNodeFromToken(tokens[1])>>
  /\ progress = FALSE
  /\ outcome = "parsing"

(* Mutant: the first of the nodes to remove is left on the stack. *)
ReduceAllButOne(pass) ==
  /\ outcome = "parsing"
  /\ pass.plan # NoPlan
  /\ stack' = Append(SubSeq(stack, 1, Len(stack) - Len(pass.plan[1].to_remove) + 1),
                    pass.plan[1].to_add)
  /\ progress' = (progress \/ pass.progress)
  /\ UNCHANGED <<text, position, outcome>>

(* A grammar makes a plan: the nodes it removes are taken from the top. *)
Reduce(pass) ==
  /\ outcome = "parsing"
  /\ pass.plan # NoPlan
  /\ stack' = Append(SubSeq(stack, 1, Len(stack) - Len(pass.plan[1].to_remove)),
                    pass.plan[1].to_add)
  /\ progress' = (progress \/ pass.progress)
  /\ UNCHANGED <<text, position, outcome>>

(***************************************************************************)
(* No grammar makes a plan.  With more than one node on the stack, some    *)
(* production must have made progress since the last token was pushed.     *)
(***************************************************************************)
Settled(pass) == outcome = "parsing" /\ pass.plan = NoPlan
Hopeful(pass) == progress \/ pass.progress \/ Len(stack) = 1

Shift(pass) ==
  /\ Settled(pass) /\ Hopeful(pass)
  /\ position < Len(tokens)
  /\ position' = position + 1
  /\ stack' = Append(stack, createSyntaxNodeFromToken(tokens[position']))
  /\ progress' = FALSE
  /\ UNCHANGED <<text, outcome>>

GiveUp(pass) ==
  /\ Settled(pass) /\ ~Hopeful(pass)
  /\ outcome' = "syntaxError"
  /\ UNCHANGED <<text, position, stack, progress>>

(* After the last token a single node is left, the root, or the text is    *)
(* refused.  The stack cannot be empty: every plan adds a node.            *)
Finish(pass) ==
  /\ Settled(pass) /\ Hopeful(pass)
  /\ position = Len(tokens)
  /\ outcome' = IF Len(stack) = 1 THEN "parsed" ELSE "notAllNodesReduced"
  /\ UNCHANGED <<text, position, stack, progress>>

Parse ==
  \E pass \in {Pass(stack, look_ahead)} :
    Reduce(pass) \/ Shift(pass) \/ GiveUp(pass) \/ Finish(pass)

(* The constructor has returned or thrown. *)
Finished == outcome # "parsing" /\ UNCHANGED vars

Next == Parse \/ Finished

Spec == Init /\ [][Next]_vars
=============================================================================
