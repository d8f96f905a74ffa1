------------------------------ MODULE MCEdits -------------------------------
(***************************************************************************)
(* Texts that went wrong in one place: programs with one token deleted,    *)
(* doubled, exchanged with the next one, replaced or inserted.             *)
(***************************************************************************)
EXTENDS SourceText

V(x) == Varible(x)
I(i) == IntF(i)

Programs ==
  << Scope(<<Let("x", BinExpr("ADD", I(1), BinExpr("MUL", V("y"), I(2)))),
             PrintStatment(FunctionCall(V("f"), <<V("x"), I(3)>>))>>),
     Scope(<<FunctionStatment("f", <<"p", "q">>, <<ReturnStatment(UnExpr(V("p")))>>),
             FunctionCall(V("f"), <<I(1), V("x")>>)>>),
     Scope(<<IfElseStatment(BinExpr("LT", V("x"), I(2)),
                            Scope(<<Set("x", I(3))>>), Scope(<<>>)),
             WhileStatment(BinExpr("EQ", V("x"), I(1)),
                           Scope(<<PrintStatment(V("x"))>>))>>),
     Scope(<<SetElement(V("a"), I(0), ArrayExpr(<<I(1), V("x")>>)),
             Let("o", ObjectExpr(<<ObjectPair("k", I(1)),
                                   ObjectPair("l", MemberExpression(V("a"), V("i")))>>)),
             Set("y", MemberExpression(V("o"), NameNode("k")))>>) >>

Strays ==
  <<NameToken("z"), Token("INT", "", 9)>> \o
  [i \in 1 .. 9 |->
     Sym(<<"SEMICOLON", "COMMA", "MINUS", "EQUAL", "DOT",
           "OPEN_CIRCLE_BRACKET", "CLOSE_CIRCLE_BRACKET",
           "OPEN_CURLY_BRACKET", "CLOSE_CURLY_BRACKET">>[i])]

(* A token is replaced by what is written at its place. *)
WrittenFor(token) ==
  <<<<>>, <<token, token>>>> \o [i \in DOMAIN Strays |-> <<Strays[i]>>]
    \o [i \in DOMAIN Strays |-> <<Strays[i], token>>]

Replaced(t, i) ==
  LET written == WrittenFor(t[i])
  IN  [w \in DOMAIN written |->
         Delimited(SubSeq(t, 1, i - 1) \o written[w] \o SubSeq(t, i + 1, Len(t)))]

Exchanged(t, i) ==
  Delimited(SubSeq(t, 1, i - 1) \o <<t[i + 1], t[i]>> \o SubSeq(t, i + 2, Len(t)))

Edited(t) ==
  FlattenSeq([i \in DOMAIN t |-> Replaced(t, i)])
    \o [i \in 1 .. Len(t) - 1 |-> Exchanged(t, i)]

EditedTexts ==
  FlattenSeq([p \in DOMAIN Programs |-> Edited(Text(Programs[p]))])
=============================================================================
