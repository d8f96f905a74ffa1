------------------------------ MODULE Grammars ------------------------------
(***************************************************************************)
(* The productions of the parser: src/project/parser/src/grammars/*.cpp.   *)
(*                                                                         *)
(* A production walks a small state machine over the last nodes of the     *)
(* stack, one handler per kind of node.  Here a production is a record:    *)
(* its handlers map a kind of node to the moves that kind can make, and    *)
(* a node whose kind has no handler breaks the match off (the default      *)
(* handler).  A move is taken from one of the states `from`, when the      *)
(* look-ahead token is one of `before`.  In any other state, or before any *)
(* other token, a handled node leaves the state as it is.                  *)
(*                                                                         *)
(* The readiness a production reports is only ever compared with zero, so  *)
(* it is the Boolean `moved`: some step counted and none was reset since.  *)
(***************************************************************************)
EXTENDS SyntaxTree, FiniteSets, SequencesExt

Arithmetic == {"PLUS", "MINUS", "ASTERISK", "SLASH"}
Closing    == {"CLOSE_CIRCLE_BRACKET", "CLOSE_CURLY_BRACKET",
               "CLOSE_SQUARE_BRACKET"}
Opening    == {"OPEN_CIRCLE_BRACKET", "OPEN_CURLY_BRACKET",
               "OPEN_SQUARE_BRACKET"}
Literals   == {"INT", "DOUBLE", "STRING"}

Token_Type ==
  {"BOL", "EOL", "EQUAL", "NOT", "LESS", "MORE", "SEMICOLON", "COLON", "COMMA",
   "DOT", "VAR", "PRINT", "IF", "ELSE", "WHILE", "FUNCTION", "RETURN", "NAME"}
  \cup Arithmetic \cup Closing \cup Opening \cup Literals

(* The look-ahead of the last token: there is none. *)
NoToken == "NO"

(* Mutant: a name stays a terminal. *)
createSyntaxNodeFromTokenTerminal(token) ==
  Node(token.type, token.str, token.int, <<>>)

(***************************************************************************)
(* A token on the stack is a node of the token's type; a NAME is the node  *)
(* the tree keeps.                                                         *)
(***************************************************************************)
createSyntaxNodeFromToken(token) ==
  IF token.type = "NAME" THEN NameNode(token.str)
                         ELSE Node(token.type, token.str, token.int, <<>>)

(***************************************************************************)
(* What the handlers tell apart.  The three literals of the tree are one   *)
(* node type, F, in the parser; a member key is refused when it holds a    *)
(* double, and a condition is followed by an object only when it is empty. *)
(***************************************************************************)
Kind(node) ==
  CASE node.class = "F" /\ node.str = "double"           -> "DoubleF"
    [] node.class = "String"                             -> "F"
    [] node.class = "Object" /\ node.children = <<>>     -> "EmptyObject"
    [] OTHER                                             -> node.class

F        == {"F", "DoubleF"}
Objects  == {"Object", "EmptyObject"}
Operands == F \cup {"BinExpr", "UnExpr", "Name", "FunctionCall",
                    "MemberExpression"}
Statments == {"VaribleAssigmentStatment", "IfStatment", "WhileStatment",
              "ReturnStatment", "PrintStatment", "FunctionStatment", "Scope"}

Kinds == (Token_Type \ {"NAME"}) \cup Operands \cup Objects \cup Statments
           \cup {"Array", "ObjectPair"}

AnyToken == Token_Type \cup {NoToken}

-----------------------------------------------------------------------------
(* Moves and productions. *)

MoveBefore(from, kinds, before, to) ==
  [from |-> from, kinds |-> kinds, before |-> before, to |-> to,
   impact |-> "MOVE", kept |-> TRUE]

Move(from, kinds, to) == MoveBefore(from, kinds, AnyToken, to)

(* A node that is looked at and left on the stack. *)
Peek(from, kinds, to, impact) ==
  [from |-> from, kinds |-> kinds, before |-> AnyToken, to |-> to,
   impact |-> impact, kept |-> FALSE]

(***************************************************************************)
(* `rest` is what a handled node that cannot move does to the progress:    *)
(* "NO_MOVE" leaves it, "ERROR" resets it.  `extent` is the number of      *)
(* nodes looked at; with an `opener`, it is counted from the last such     *)
(* bracket of the stack (`extent` more nodes), and with opener "FUNCTION"  *)
(* from the header of the innermost function.                              *)
(***************************************************************************)
Production(name, opener, extent, rest, moves) ==
  [name |-> name, opener |-> opener, extent |-> extent, rest |-> rest,
   handlers |-> [kind \in UNION {m.kinds : m \in moves} |->
                  {m \in moves : kind \in m.kinds}]]

(* Mutant: without the semicolon. *)
TerminatedAnyway(kinds) ==
  Production("terminated", "NONE", 1, "ERROR", {Move({"START"}, kinds, "FINISH")})

(* X SEMICOLON is X: the last production of most grammars. *)
Terminated(kinds) ==
  Production("terminated", "NONE", 2, "ERROR",
    {Move({"START"}, kinds, "BODY"),
     Move({"BODY"}, {"SEMICOLON"}, "FINISH")})

(* NAME|MEMBER_EXPRESSION ( argument, ... ) *)
CallArguments == Operands \cup Objects
                   \cup {"VaribleAssigmentStatment", "FunctionStatment", "Array"}

Call ==
  Production("call", "OPEN_CIRCLE_BRACKET", 1, "ERROR",
    {Move({"START"}, {"Name", "MemberExpression"}, "CALLEE"),
     Move({"CALLEE"}, {"OPEN_CIRCLE_BRACKET"}, "OPEN"),
     Move({"OPEN", "COMMA"}, CallArguments, "ARGUMENT"),
     Move({"ARGUMENT"}, {"COMMA"}, "COMMA"),
     MoveBefore({"OPEN", "ARGUMENT"}, {"CLOSE_CIRCLE_BRACKET"},
                {"SEMICOLON", "COMMA"} \cup Closing \cup Arithmetic, "FINISH")})

CallStatment == Terminated({"FunctionCall"})

PrintArgument ==
  Production("print", "NONE", 4, "ERROR",
    {Move({"START"}, {"PRINT"}, "PRINT"),
     Move({"PRINT"}, {"OPEN_CIRCLE_BRACKET"}, "OPEN"),
     Move({"OPEN"}, Operands, "ARGUMENT"),
     Move({"ARGUMENT"}, {"CLOSE_CIRCLE_BRACKET"}, "FINISH")})

PrintTerminated == Terminated({"PrintStatment"})

ReturnArgument ==
  Production("return", "NONE", 2, "ERROR",
    {Move({"START"}, {"RETURN"}, "RETURN"),
     MoveBefore({"RETURN"}, Operands, {"SEMICOLON"}, "FINISH")})

ReturnTerminated == Terminated({"ReturnStatment"})

(***************************************************************************)
(* ( expression ), with the node before the bracket looked at: after a     *)
(* name, an if or a print the brackets are not those of an expression.     *)
(***************************************************************************)
CircleBrackets ==
  Production("brackets", "NONE", 4, "NO_MOVE",
    {Peek({"START"}, {"Name"}, "ERROR", "ERROR"),
     Move({"START"}, {"OPEN_CIRCLE_BRACKET"}, "OPEN"),
     Move({"OPEN"}, Operands \ {"MemberExpression"}, "F"),
     MoveBefore({"F"}, {"CLOSE_CIRCLE_BRACKET"},
                Token_Type \ {"OPEN_CURLY_BRACKET"}, "FINISH")})

(* What may follow a member expression. *)
AfterMember ==
  {"SEMICOLON", "EQUAL", "LESS", "MORE", "NOT", "COMMA", "DOT",
   "OPEN_SQUARE_BRACKET", "OPEN_CIRCLE_BRACKET"} \cup Closing \cup Arithmetic

(* container [ key ]; a key that is a double is handled, and never moves. *)
Element ==
  Production("element", "NONE", 4, "ERROR",
    {Move({"START"}, {"Name", "MemberExpression"}, "SOURCE"),
     Move({"SOURCE"}, {"OPEN_SQUARE_BRACKET"}, "OPEN"),
     Move({"OPEN"}, Operands \ {"DoubleF"}, "KEY"),
     Move({}, {"DoubleF"}, "KEY"),
     MoveBefore({"KEY"}, {"CLOSE_SQUARE_BRACKET"}, AfterMember, "FINISH")})

MemberTerminated == Terminated({"MemberExpression"})

(* container . name *)
Property ==
  Production("property", "NONE", 3, "ERROR",
    {Move({"START"}, {"Name", "MemberExpression"}, "SOURCE"),
     Move({"SOURCE"}, {"DOT"}, "DOT"),
     MoveBefore({"DOT"}, {"Name"}, AfterMember, "FINISH")})

(* What may follow a literal before it becomes an F. *)
AfterNumber ==
  {"SEMICOLON", "COMMA", "EQUAL", "LESS", "MORE", "NOT"} \cup Closing \cup Arithmetic

Literal ==
  Production("literal", "NONE", 1, "ERROR",
    {MoveBefore({"START"}, {"INT", "DOUBLE"}, AfterNumber, "FINISH"),
     MoveBefore({"START"}, {"STRING"}, AfterNumber \ {"NOT"}, "FINISH")})

LiteralTerminated == Terminated(F)

(* What may follow the right operand of + and -, and of * and /. *)
AfterSum == {"SEMICOLON", "COMMA", "EQUAL", "LESS", "MORE"} \cup Closing

(* Mutant: a product waits as a sum does. *)
AfterProductAsSum == AfterSum

AfterProduct == AfterSum \cup {"PLUS", "MINUS"}

(* a + b, a - b, a * b, a / b *)
ArithmeticExpression ==
  Production("arithmetic", "NONE", 3, "NO_MOVE",
    {Move({"START"}, Operands, "F"),
     Move({"F"}, {"PLUS", "MINUS"}, "SUM"),
     Move({"F"}, {"ASTERISK"}, "MULTIPLY"),
     Move({"F"}, {"SLASH"}, "DIVISION"),
     MoveBefore({"SUM"}, Operands, AfterSum, "FINISH"),
     MoveBefore({"MULTIPLY"}, Operands, AfterProduct, "FINISH"),
     MoveBefore({"DIVISION"}, Operands \ {"BinExpr"}, AfterProduct, "FINISH"),
     MoveBefore({"DIVISION"}, {"BinExpr"}, AfterSum, "FINISH")})

(* A comparison waits for the arithmetic of its right operand. *)
AfterComparison == Token_Type \ Arithmetic

(* a == b, a != b, a <= b, a >= b *)
EqualityExpression ==
  Production("equality", "NONE", 4, "NO_MOVE",
    {Move({"START"}, Operands, "F"),
     Move({"F"}, {"EQUAL", "NOT", "LESS", "MORE"}, "HALF"),
     Move({"HALF"}, {"EQUAL"}, "WHOLE"),
     MoveBefore({"WHOLE"}, Operands \ {"Name"}, AfterComparison, "FINISH"),
     MoveBefore({"WHOLE"}, {"Name"}, AfterComparison \ {"OPEN_SQUARE_BRACKET"},
                "FINISH")})

(* a < b, a > b *)
OrderExpression ==
  Production("order", "NONE", 3, "NO_MOVE",
    {Move({"START"}, Operands, "F"),
     Move({"F"}, {"LESS", "MORE"}, "ORDER"),
     MoveBefore({"ORDER"}, Operands, AfterComparison, "FINISH")})

(* BOL node EOL is the node: whatever is left between the ends of the text. *)
WholeText ==
  Production("whole", "NONE", 3, "ERROR",
    {Move({"START"}, {"BOL"}, "BOL"),
     Move({"BOL"}, Kinds \ {"BOL", "EOL"}, "ANY"),
     Move({"ANY"}, {"EOL"}, "FINISH")})

BinExprTerminated == Terminated({"BinExpr"})

(* - operand, where the node before the minus is not an operand. *)
Negated == Operands \ {"UnExpr"}

Negation ==
  LET others == Kinds \ (Negated \cup {"MINUS"})
  IN  Production("negation", "NONE", 3, "ERROR",
        {Peek({"START"}, Negated, "INCORRECT", "ERROR"),
         Peek({"START"}, {"MINUS"}, "CORRECT", "MOVE"),
         Peek({"START"}, others, "CORRECT", "NO_MOVE"),
         Peek({"INCORRECT", "CORRECT", "MINUS"}, others, "ERROR", "ERROR"),
         Move({"CORRECT"}, {"MINUS"}, "MINUS"),
         Move({"MINUS"}, Negated, "FINISH")})

UnExprTerminated == Terminated({"UnExpr"})

(* The four assignments end before a semicolon or the end of a scope. *)
AfterAssigment == {"SEMICOLON", "CLOSE_CURLY_BRACKET"}
Assigned == Operands \cup Objects \cup {"Array"}

(* var name = value.  A member expression reaches the same handler only as *)
(* a value: its handler is set twice, and the second replaces the first.   *)
Declaration ==
  Production("declaration", "NONE", 4, "ERROR",
    {Move({"START"}, {"VAR"}, "VAR"),
     Move({"VAR"}, {"Name"}, "NAME"),
     Move({"NAME"}, {"EQUAL"}, "EQUAL"),
     MoveBefore({"EQUAL"}, Assigned, AfterAssigment, "FINISH")})

(* var name = { } *)
EmptyDeclaration ==
  Production("emptyDeclaration", "NONE", 5, "ERROR",
    {Move({"START"}, {"VAR"}, "VAR"),
     Move({"VAR"}, {"Name"}, "NAME"),
     Move({"NAME"}, {"EQUAL"}, "EQUAL"),
     Move({"EQUAL"}, {"OPEN_CURLY_BRACKET"}, "OPEN"),
     MoveBefore({"OPEN"}, {"CLOSE_CURLY_BRACKET"}, AfterAssigment, "FINISH")})

(* name = value, container[key] = value *)
Reassigment ==
  Production("assigment", "NONE", 3, "ERROR",
    {Move({"START"}, {"Name", "MemberExpression"}, "NAME"),
     Move({"NAME"}, {"EQUAL"}, "EQUAL"),
     MoveBefore({"EQUAL"}, Assigned, AfterAssigment, "FINISH")})

(* name = { } *)
EmptyReassigment ==
  Production("emptyAssigment", "NONE", 4, "ERROR",
    {Move({"START"}, {"Name"}, "NAME"),
     Move({"NAME"}, {"EQUAL"}, "EQUAL"),
     Move({"EQUAL"}, {"OPEN_CURLY_BRACKET"}, "OPEN"),
     MoveBefore({"OPEN"}, {"CLOSE_CURLY_BRACKET"}, AfterAssigment, "FINISH")})

AssigmentTerminated == Terminated({"VaribleAssigmentStatment"})

(* What may follow an array or an object. *)
AfterContainer == {"SEMICOLON", "COMMA"} \cup Closing

(* Mutant: elements need no comma between them. *)
ArrayElementsJuxtaposed ==
  Production("array", "OPEN_SQUARE_BRACKET", 1, "ERROR",
    {Move({"START"}, {"OPEN_SQUARE_BRACKET"}, "OPEN"),
     Move({"OPEN", "COMMA", "ELEMENT"}, Assigned \ {"UnExpr"}, "ELEMENT"),
     Move({"ELEMENT"}, {"COMMA"}, "COMMA"),
     MoveBefore({"OPEN", "ELEMENT"}, {"CLOSE_SQUARE_BRACKET"}, AfterContainer,
                "FINISH")})

(* [ element, ... ] *)
ArrayElements ==
  Production("array", "OPEN_SQUARE_BRACKET", 1, "ERROR",
    {Move({"START"}, {"OPEN_SQUARE_BRACKET"}, "OPEN"),
     Move({"OPEN", "COMMA"}, Assigned \ {"UnExpr"}, "ELEMENT"),
     Move({"ELEMENT"}, {"COMMA"}, "COMMA"),
     MoveBefore({"OPEN", "ELEMENT"}, {"CLOSE_SQUARE_BRACKET"}, AfterContainer,
                "FINISH")})

ArrayTerminated == Terminated({"Array"})

(* { pair, ... } *)
ObjectPairs ==
  Production("object", "OPEN_CURLY_BRACKET", 1, "ERROR",
    {Move({"START"}, {"OPEN_CURLY_BRACKET"}, "OPEN"),
     Move({"OPEN", "COMMA"}, {"ObjectPair"}, "PAIR"),
     Move({"PAIR"}, {"COMMA"}, "COMMA"),
     MoveBefore({"OPEN", "PAIR"}, {"CLOSE_CURLY_BRACKET"}, AfterContainer,
                "FINISH")})

(* "key" : value *)
Pair ==
  Production("pair", "NONE", 3, "ERROR",
    {Move({"START"}, {"STRING"}, "STRING"),
     Move({"STRING"}, {"COLON"}, "COLON"),
     MoveBefore({"COLON"}, Assigned \ {"UnExpr"},
                {"COMMA", "CLOSE_CURLY_BRACKET"}, "FINISH")})

ObjectTerminated == Terminated(Objects)

(* { statment ... }; an expression is a statment too. *)
ScopeStatments ==
  Production("scope", "OPEN_CURLY_BRACKET", 0, "NO_MOVE",
    {Move({"START"}, {"OPEN_CURLY_BRACKET"}, "STATMENT"),
     Move({"STATMENT"}, Statments \cup (Operands \ {"Name"}), "STATMENT"),
     Move({"STATMENT"}, {"CLOSE_CURLY_BRACKET"}, "FINISH")})

(* BOL scope EOL *)
WholeScope ==
  Production("whole", "NONE", 3, "NO_MOVE",
    {Move({"START"}, {"BOL"}, "BOL"),
     Move({"BOL"}, {"Scope"}, "SCOPE"),
     Move({"SCOPE"}, {"EOL"}, "FINISH")})

(* if ( condition ) scope, unless an else follows *)
Bodies == {"Scope", "EmptyObject"}

IfThen ==
  Production("if", "NONE", 5, "ERROR",
    {Move({"START"}, {"IF"}, "IF"),
     Move({"IF"}, {"OPEN_CIRCLE_BRACKET"}, "OPEN"),
     Move({"OPEN"}, Operands, "CONDITION"),
     Move({"CONDITION"}, {"CLOSE_CIRCLE_BRACKET"}, "CLOSE"),
     MoveBefore({"CLOSE"}, Bodies, AnyToken \ {"ELSE"}, "FINISH"),
     Move({}, {"Object"}, "FINISH")})

(* if ( condition ) scope else scope *)
IfThenElse ==
  Production("if", "NONE", 7, "ERROR",
    {Move({"START"}, {"IF"}, "IF"),
     Move({"IF"}, {"OPEN_CIRCLE_BRACKET"}, "OPEN"),
     Move({"OPEN"}, Operands, "CONDITION"),
     Move({"CONDITION"}, {"CLOSE_CIRCLE_BRACKET"}, "CLOSE"),
     Move({"CLOSE"}, Bodies, "TRUE_SCOPE"),
     Move({"TRUE_SCOPE"}, {"ELSE"}, "ELSE"),
     Move({"ELSE"}, Bodies, "FINISH"),
     Move({}, {"Object"}, "FINISH")})

IfTerminated == Terminated({"IfStatment"})

(* while ( condition ) scope *)
WhileLoop ==
  Production("while", "NONE", 5, "ERROR",
    {Move({"START"}, {"WHILE"}, "WHILE"),
     Move({"WHILE"}, {"OPEN_CIRCLE_BRACKET"}, "OPEN"),
     Move({"OPEN"}, Operands, "CONDITION"),
     Move({"CONDITION"}, {"CLOSE_CIRCLE_BRACKET"}, "CLOSE"),
     Move({"CLOSE"}, Bodies, "FINISH"),
     Move({}, {"Object"}, "FINISH")})

WhileTerminated == Terminated({"WhileStatment"})

(* function name ( parameter, ... ) scope *)
Function ==
  Production("function", "FUNCTION", 3, "ERROR",
    {Move({"START"}, {"FUNCTION"}, "FUNCTION"),
     Move({"FUNCTION"}, {"Name"}, "NAME"),
     Move({"NAME"}, {"OPEN_CIRCLE_BRACKET"}, "OPEN"),
     Move({"OPEN", "COMMA"}, {"Name"}, "ARGUMENT"),
     Move({"ARGUMENT"}, {"COMMA"}, "COMMA"),
     Move({"OPEN", "ARGUMENT"}, {"CLOSE_CIRCLE_BRACKET"}, "CLOSE"),
     Move({"CLOSE"}, {"Scope"}, "FINISH")})

FunctionTerminated == Terminated({"FunctionStatment"})

-----------------------------------------------------------------------------
(* The grammars, and the productions of each, in the order they are tried. *)
Grammars ==
  << <<Call, CallStatment>>,
     <<PrintArgument, PrintTerminated>>,
     <<ReturnArgument, ReturnTerminated>>,
     <<CircleBrackets>>,
     <<Element, MemberTerminated, Property>>,
     <<Literal, LiteralTerminated>>,
     <<ArithmeticExpression, EqualityExpression, OrderExpression, WholeText,
       BinExprTerminated>>,
     <<Negation, UnExprTerminated>>,
     <<Declaration, EmptyDeclaration, Reassigment, EmptyReassigment,
       AssigmentTerminated>>,
     <<ArrayElements, ArrayTerminated>>,
     <<ObjectPairs, Pair, ObjectTerminated>>,
     <<ScopeStatments, WholeScope>>,
     <<IfThen, IfThenElse, IfTerminated>>,
     <<WhileLoop, WhileTerminated>>,
     <<Function, FunctionTerminated>> >>

-----------------------------------------------------------------------------
(* The node a production adds, from the nodes it matched. *)

(* A name used as an operand becomes a variable. *)
Operand(node) == IF node.class = "Name" THEN Varible(node.str) ELSE node

OperandsOf(nodes) == [i \in DOMAIN nodes |-> Operand(nodes[i])]

(* An empty body has been read as an empty object. *)
Body(node) == IF node.class = "Object" THEN Scope(<<>>) ELSE node

(* The matched nodes without keywords, brackets and separators. *)
Parts(matched) ==
  SelectSeq(matched, LAMBDA node : node.class \notin Token_Type)

(* The operation, by the class of the node after the left operand. *)
ArithmeticType ==
  [PLUS |-> "ADD", MINUS |-> "SUB", ASTERISK |-> "MUL", SLASH |-> "DIV"]
EqualityType ==
  [EQUAL |-> "EQ", NOT |-> "NEQ", LESS |-> "LTE", MORE |-> "GTE"]
OrderType == [LESS |-> "LT", MORE |-> "GT"]

Operation(type, m) ==
  BinExpr(type[m[2].class], Operand(Head(m)), Operand(Last(m)))

Conditional(m) ==
  LET p == Parts(m)
  IN  IF Len(p) = 2 THEN IfStatment(p[1], Body(p[2]))
                    ELSE IfElseStatment(p[1], Body(p[2]), Body(p[3]))

LiteralF(token) ==
  CASE token.class = "INT"    -> IntF(token.int)
    [] token.class = "DOUBLE" -> DoubleF(token.int)
    [] token.class = "STRING" -> StringF(token.str)

to_add(name, m) ==
  LET p == Parts(m)
  IN CASE name = "terminated"  -> m[1]
       [] name = "call"        -> FunctionCall(Operand(p[1]), OperandsOf(Tail(p)))
       [] name = "print"       -> PrintStatment(Operand(m[3]))
       [] name = "return"      -> ReturnStatment(Operand(m[2]))
       [] name = "brackets"    -> m[2]
       [] name = "element"     -> MemberExpression(Operand(p[1]), Operand(p[2]))
       [] name = "property"    -> MemberExpression(Operand(p[1]), p[2])
       [] name = "literal"     -> LiteralF(m[1])
       [] name = "arithmetic"  -> Operation(ArithmeticType, m)
       [] name = "equality"    -> Operation(EqualityType, m)
       [] name = "order"       -> Operation(OrderType, m)
       [] name = "whole"       -> m[2]
       [] name = "negation"    -> UnExpr(Operand(m[2]))
       [] name = "declaration" -> Assigment("LOCAL", p[1], Operand(p[2]))
       [] name = "assigment"   -> Assigment("GLOBAL", p[1], Operand(p[2]))
       [] name = "emptyDeclaration" -> Assigment("LOCAL", p[1], ObjectExpr(<<>>))
       [] name = "emptyAssigment"   -> Assigment("GLOBAL", p[1], ObjectExpr(<<>>))
       [] name = "array"       -> ArrayExpr(OperandsOf(p))
       [] name = "object"      -> ObjectExpr(p)
       [] name = "pair"        -> ObjectPair(m[1].str, Operand(m[3]))
       [] name = "scope"       -> Scope(p)
       [] name = "if"          -> Conditional(m)
       [] name = "while"       -> WhileStatment(p[1], Body(p[2]))
       [] name = "function"    -> Node("FunctionStatment", p[1].str, 0, p)

-----------------------------------------------------------------------------
(* The match. *)

LastOf(class, stack) ==
  SelectLastInSeq(stack, LAMBDA node : node.class = class)

FirstAfter(class, stack, i) ==
  SelectInSubSeq(stack, i + 1, Len(stack), LAMBDA node : node.class = class)

(* The number of nodes looked at; 0 when there is no opening node. *)
needed_nodes_size(production, stack) ==
  LET opener == LastOf(production.opener, stack)
      open   == FirstAfter("OPEN_CIRCLE_BRACKET", stack, opener)
      close  == FirstAfter("CLOSE_CIRCLE_BRACKET", stack, open)
  IN  CASE production.opener = "NONE" -> production.extent
        [] opener = 0                 -> 0
        [] production.opener = "FUNCTION" ->
             IF open = 0 \/ close = 0 THEN 0
             ELSE close - open + 1 + production.extent
        [] OTHER -> Len(stack) - opener + 1 + production.extent

(* Whether the steps of the match count: a production whose bracket seems   *)
(* closed already reports no progress.                                      *)
CountsSteps(production, stack) ==
  LET opener == LastOf(production.opener, stack)
      Has(class, nodes) == \E i \in DOMAIN nodes : nodes[i].class = class
  IN  CASE production.name = "call" ->
             ~Has("CLOSE_CIRCLE_BRACKET", SubSeq(stack, opener, Len(stack)))
        [] production.name = "array" ->
             ~Has("CLOSE_SQUARE_BRACKET", SubSeq(stack, 1, opener))
        [] production.name = "object" ->
             ~Has("CLOSE_CURLY_BRACKET", SubSeq(stack, 1, opener))
        [] production.name = "scope" -> Last(stack).class # "CLOSE_CURLY_BRACKET"
        [] OTHER -> TRUE

(* A function whose parameters are not all read yet always is a progress.  *)
IncompleteHeader(production, stack) ==
  /\ production.opener = "FUNCTION"
  /\ LastOf("FUNCTION", stack) # 0
  /\ needed_nodes_size(production, stack) = 0

(* Mutant: a node without a handler is passed over. *)
VisitSkipping(production, look_ahead, match, node) ==
  LET kind    == Kind(node)
      handled == kind \in DOMAIN production.handlers
      moves   == {m \in production.handlers[kind] :
                    match.state \in m.from /\ look_ahead \in m.before}
      move    == CHOOSE m \in moves : TRUE
  IN  CASE ~handled ->
             match
        [] handled /\ moves = {} ->
             [match EXCEPT !.moved = @ /\ production.rest = "NO_MOVE"]
        [] handled /\ moves # {} ->
             [state   |-> move.to,
              moved   |-> \/ move.impact = "MOVE"
                          \/ move.impact = "NO_MOVE" /\ match.moved,
              matched |-> IF move.kept THEN Append(match.matched, node)
                                       ELSE match.matched]

(* One node shown to the state machine of a production. *)
Visit(production, look_ahead, match, node) ==
  LET kind    == Kind(node)
      handled == kind \in DOMAIN production.handlers
      moves   == {m \in production.handlers[kind] :
                    match.state \in m.from /\ look_ahead \in m.before}
      move    == CHOOSE m \in moves : TRUE
  IN  CASE ~handled ->
             [match EXCEPT !.state = "ERROR", !.moved = FALSE]
        [] handled /\ moves = {} ->
             [match EXCEPT !.moved = @ /\ production.rest = "NO_MOVE"]
        [] handled /\ moves # {} ->
             [state   |-> move.to,
              moved   |-> \/ move.impact = "MOVE"
                          \/ move.impact = "NO_MOVE" /\ match.moved,
              matched |-> IF move.kept THEN Append(match.matched, node)
                                       ELSE match.matched]

iterate_over_last_n_nodes(production, look_ahead, stack, n) ==
  LET match[i \in 0..n] ==
        IF i = 0 THEN [state |-> "START", moved |-> FALSE, matched |-> <<>>]
        ELSE Visit(production, look_ahead, match[i - 1], stack[Len(stack) - n + i])
  IN  match[n]

(***************************************************************************)
(* What a production, a grammar or a pass over all of them comes to: the   *)
(* plan it makes, if any, as the number of nodes to remove from the top    *)
(* and the node to add, and whether it made progress.                      *)
(***************************************************************************)
Plan(matched, node) == <<[to_remove |-> matched, to_add |-> node]>>
NoPlan == <<>>

Outcome(plan, progress) == [plan |-> plan, progress |-> progress]

(* The widest window that finishes makes the plan. *)
find_grammar_matching_progress(production, stack, look_ahead) ==
  LET size     == needed_nodes_size(production, stack)
      matches  == [n \in 1 .. (IF size < Len(stack) THEN size ELSE Len(stack)) |->
                    iterate_over_last_n_nodes(production, look_ahead, stack, n)]
      finished == {n \in DOMAIN matches : matches[n].state = "FINISH"}
      widest   == matches[Max(finished)].matched
      moved    == \E n \in DOMAIN matches :
                    matches[n].moved /\ matches[n].state # "ERROR"
  IN  IF finished # {}
      THEN Outcome(Plan(widest, to_add(production.name, widest)), FALSE)
      ELSE Outcome(NoPlan, \/ moved /\ CountsSteps(production, stack)
                           \/ IncompleteHeader(production, stack))

(***************************************************************************)
(* The first of them that makes a plan, with the progress of those before. *)
(***************************************************************************)
FirstPlan(outcomes) ==
  LET planners == {i \in DOMAIN outcomes : outcomes[i].plan # NoPlan}
      Progress(indices) == \E i \in indices : outcomes[i].progress
  IN  IF planners = {}
      THEN Outcome(NoPlan, Progress(DOMAIN outcomes))
      ELSE Outcome(outcomes[Min(planners)].plan, Progress(1 .. Min(planners) - 1))

(* A grammar that makes a plan reports no progress beside it. *)
TryReduce(grammar, stack, look_ahead) ==
  LET first == FirstPlan([p \in DOMAIN grammar |->
                 find_grammar_matching_progress(grammar[p], stack, look_ahead)])
  IN  Outcome(first.plan, first.plan = NoPlan /\ first.progress)

Pass(stack, look_ahead) ==
  FirstPlan([g \in DOMAIN Grammars |-> TryReduce(Grammars[g], stack, look_ahead)])
=============================================================================
