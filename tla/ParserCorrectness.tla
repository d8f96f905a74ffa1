------------------------- MODULE ParserCorrectness --------------------------
(***************************************************************************)
(* What the parser promises of the texts it is given.                      *)
(***************************************************************************)
EXTENDS ParserWork, SourceText

CONSTANT
  Trees      \* the syntax tree each well-formed text was written from; those
             \* texts come first

WellFormedText == text \in DOMAIN Trees

(***************************************************************************)
(* A text that was written from a tree is accepted, and read as that tree: *)
(* no production takes tokens that belong to another one, and none gives   *)
(* up before the text ends, whatever stands before and after them.         *)
(***************************************************************************)
ReadsBack ==
  WellFormedText /\ outcome # "parsing" =>
    outcome = "parsed" /\ stack = <<Trees[text]>>

(***************************************************************************)
(* A production may look at nodes without taking them, and the nodes it    *)
(* takes are removed by counting from the top of the stack.  In a text     *)
(* that was written from a tree, the nodes removed are the nodes it took.  *)
(***************************************************************************)
RemovesWhatItTook ==
  WellFormedText =>
    \A pass \in {Pass(stack, look_ahead)} :
      Reduce(pass) =>
        LET took == pass.plan[1].to_remove
        IN  took = SubSeq(stack, Len(stack) - Len(took) + 1, Len(stack))

HandleOnTop == [][RemovesWhatItTook]_vars

-----------------------------------------------------------------------------
(* The brackets not closed yet, outermost first. *)
Closes ==
  [CLOSE_CIRCLE_BRACKET |-> "OPEN_CIRCLE_BRACKET",
   CLOSE_CURLY_BRACKET  |-> "OPEN_CURLY_BRACKET",
   CLOSE_SQUARE_BRACKET |-> "OPEN_SQUARE_BRACKET"]

OpenBrackets(classes) ==
  LET Take(open, b) ==
        IF b \in Closing /\ open # <<>> /\ Last(open) = Closes[b]
        THEN Front(open) ELSE Append(open, b)
  IN  FoldLeft(Take, <<>>, SelectSeq(classes, LAMBDA c : c \in Opening \cup Closing))

OpenInText  == OpenBrackets([i \in 1 .. position |-> tokens[i].type])
OpenOnStack == OpenBrackets([i \in DOMAIN stack |-> stack[i].class])

(***************************************************************************)
(* In a well-formed text too, the brackets still open on the stack are     *)
(* those the text has opened and not closed: no production takes a bracket *)
(* without its partner, or the bracket of a call for that of an expression.*)
(***************************************************************************)
NestingKept == WellFormedText => OpenOnStack = OpenInText

(***************************************************************************)
(* A text that is accepted, well-formed or not, says what its tree says:   *)
(* its brackets are balanced, and but for round brackets and semicolons it *)
(* is the text of the tree.  No token is swallowed, and none is made up.   *)
(***************************************************************************)
Significant(t) ==
  SelectSeq(t, LAMBDA token : token.type \notin
    {"BOL", "EOL", "SEMICOLON", "OPEN_CIRCLE_BRACKET", "CLOSE_CIRCLE_BRACKET"})

AcceptedAsWritten ==
  outcome = "parsed" =>
    /\ OpenInText = <<>>
    /\ Significant(Text(stack[1])) = Significant(tokens)
=============================================================================
