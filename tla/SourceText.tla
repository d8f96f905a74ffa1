----------------------------- MODULE SourceText -----------------------------
(***************************************************************************)
(* The text of a syntax tree, as the sequence of tokens a programmer would *)
(* write.  Every operand that is itself an operation is in brackets, so    *)
(* the text leaves no choice to the parser.                                *)
(***************************************************************************)
EXTENDS SyntaxTree, SequencesExt

Token(type, str, int) == [type |-> type, str |-> str, int |-> int]
Sym(type)    == Token(type, "", 0)
NameToken(x) == Token("NAME", x, 0)
StringToken(s) == Token("STRING", s, 0)

Round(t)  == <<Sym("OPEN_CIRCLE_BRACKET")>> \o t \o <<Sym("CLOSE_CIRCLE_BRACKET")>>
Curly(t)  == <<Sym("OPEN_CURLY_BRACKET")>> \o t \o <<Sym("CLOSE_CURLY_BRACKET")>>
Square(t) == <<Sym("OPEN_SQUARE_BRACKET")>> \o t \o <<Sym("CLOSE_SQUARE_BRACKET")>>
Stop      == <<Sym("SEMICOLON")>>
Equals    == <<Sym("EQUAL")>>

Comparisons == {"EQ", "NEQ", "LT", "LTE", "GT", "GTE"}

OperatorSigns ==
  [ADD |-> <<"PLUS">>, SUB |-> <<"MINUS">>, MUL |-> <<"ASTERISK">>,
   DIV |-> <<"SLASH">>, EQ |-> <<"EQUAL", "EQUAL">>, NEQ |-> <<"NOT", "EQUAL">>,
   LT |-> <<"LESS">>, LTE |-> <<"LESS", "EQUAL">>,
   GT |-> <<"MORE">>, GTE |-> <<"MORE", "EQUAL">>]

OperatorTokens(op) ==
  [i \in DOMAIN OperatorSigns[op] |-> Sym(OperatorSigns[op][i])]

(* Texts separated by commas. *)
Listed(texts) ==
  FlattenSeq([i \in DOMAIN texts |->
    IF i = 1 THEN texts[i] ELSE <<Sym("COMMA")>> \o texts[i]])

RECURSIVE Text(_)

Texted(nodes) == [i \in DOMAIN nodes |-> Text(nodes[i])]

OperandText(node) ==
  IF node.class \in {"BinExpr", "UnExpr"} THEN Round(Text(node)) ELSE Text(node)

(* A call is in brackets before a comparison. *)
LeftText(op, node) ==
  IF node.class = "FunctionCall" /\ op \in Comparisons
  THEN Round(Text(node)) ELSE OperandText(node)

(* Simple statements end in a semicolon, an expression as well. *)
StatmentText(node) ==
  IF node.class \in {"Scope", "IfStatment", "WhileStatment", "FunctionStatment"}
  THEN Text(node) ELSE Text(node) \o Stop

Text(node) ==
  LET c     == node.children
      class == node.class
  IN CASE class = "F"       -> <<Token(IF node.str = "double" THEN "DOUBLE" ELSE "INT",
                                       "", node.int)>>
       [] class = "String"  -> <<StringToken(node.str)>>
       [] class \in {"Name", "Varible"} -> <<NameToken(node.str)>>
       [] class = "UnExpr"  -> <<Sym("MINUS")>> \o OperandText(c[1])
       [] class = "BinExpr" ->
            LeftText(node.str, c[1]) \o OperatorTokens(node.str) \o OperandText(c[2])
       [] class = "MemberExpression" ->
            Text(c[1]) \o (IF c[2].class = "Name"
                           THEN <<Sym("DOT"), NameToken(c[2].str)>>
                           ELSE Square(Text(c[2])))
       [] class = "Array"   -> Square(Listed(Texted(c)))
       [] class = "ObjectPair" -> Text(c[1]) \o <<Sym("COLON")>> \o Text(c[2])
       [] class = "Object"  -> Curly(Listed(Texted(c)))
       [] class = "FunctionCall" -> Text(Last(c)) \o Round(Listed(Texted(Front(c))))
       [] class = "Scope"   ->
            Curly(FlattenSeq([i \in DOMAIN c |-> StatmentText(c[i])]))
       [] class = "PrintStatment"  -> <<Sym("PRINT")>> \o Round(Text(c[1]))
       [] class = "ReturnStatment" -> <<Sym("RETURN")>> \o Text(c[1])
       [] class = "VaribleAssigmentStatment" ->
            (IF node.str = "LOCAL" THEN <<Sym("VAR")>> ELSE <<>>)
            \o Text(c[1]) \o Equals \o Text(c[2])
       [] class = "IfStatment" ->
            <<Sym("IF")>> \o Round(Text(c[1])) \o Text(c[2])
            \o (IF Len(c) = 3 THEN <<Sym("ELSE")>> \o Text(c[3]) ELSE <<>>)
       [] class = "WhileStatment" ->
            <<Sym("WHILE")>> \o Round(Text(c[1])) \o Text(c[2])
       [] class = "FunctionStatment" ->
            <<Sym("FUNCTION"), NameToken(node.str)>>
            \o Round(Listed(Texted(Tail(Front(c))))) \o Text(Last(c))

(* The text between its ends, as the lexer hands it over. *)
Delimited(t) == <<Sym("BOL")>> \o t \o <<Sym("EOL")>>
=============================================================================
