------------------------------ MODULE MCForms -------------------------------
(***************************************************************************)
(* Every form of expression in every place a program has for one.  The     *)
(* statement that holds the expression is followed by another one, which   *)
(* is what the parser looks ahead to.                                      *)
(***************************************************************************)
EXTENDS SourceText

V(x)          == Varible(x)
I(i)          == IntF(i)
Index(c, k)   == MemberExpression(c, k)
Field(c, k)   == MemberExpression(c, NameNode(k))
AssignX(e)    == Set("x", e)
AssignEach(s) == [i \in DOMAIN s |-> AssignX(s[i])]

(* The forms. *)
Numbers    == <<I(1), DoubleF(25)>>
Strings    == <<StringF("s")>>
Names      == <<V("x")>>
Operations == <<BinExpr("ADD", I(1), V("y")), BinExpr("DIV", V("y"), I(2)),
                BinExpr("EQ", V("x"), I(2)), BinExpr("NEQ", V("x"), I(1)),
                BinExpr("LT", V("x"), V("y"))>>
Negatives  == <<UnExpr(I(2)), UnExpr(V("x"))>>
Calls      == <<FunctionCall(V("f"), <<>>), FunctionCall(V("f"), <<I(1), V("x")>>),
                FunctionCall(Field(V("o"), "m"), <<V("x")>>)>>
Members    == <<Index(V("a"), I(0)), Field(V("o"), "k"),
                Field(Index(V("a"), V("i")), "k")>>
Containers == <<ArrayExpr(<<>>), ArrayExpr(<<I(1), V("x")>>), ObjectExpr(<<>>),
                ObjectExpr(<<ObjectPair("k", I(1)), ObjectPair("l", V("x"))>>)>>

Simple  == Numbers \o Strings \o Operations
Scalars == Simple \o Names \o Negatives \o Calls \o Members

-----------------------------------------------------------------------------
(* The places: what is written around an expression. *)
Valued(e) ==
  <<AssignX(e), Let("x", e), SetElement(V("a"), I(0), e),
    AssignX(FunctionCall(V("f"), <<e>>)),
    AssignX(FunctionCall(V("f"), <<e, I(1)>>)),
    AssignX(FunctionCall(V("f"), <<I(1), e>>))>>

Contained(e) ==
  AssignEach(<<ArrayExpr(<<e>>), ArrayExpr(<<e, I(1)>>), ArrayExpr(<<I(1), e>>),
               ObjectExpr(<<ObjectPair("k", e)>>),
               ObjectExpr(<<ObjectPair("k", e), ObjectPair("l", I(1))>>)>>)

Used(e) ==
  <<PrintStatment(e), ReturnStatment(e)>> \o
  AssignEach(<<BinExpr("ADD", e, I(1)), BinExpr("SUB", e, I(1)),
               BinExpr("MUL", e, I(1)), BinExpr("DIV", e, I(1)),
               BinExpr("ADD", I(1), e), BinExpr("SUB", I(1), e),
               BinExpr("MUL", I(1), e), BinExpr("DIV", I(1), e),
               BinExpr("EQ", e, I(1)), BinExpr("LT", e, I(1)), BinExpr("GTE", e, I(1))>>)

Unequal(e)  == <<AssignX(BinExpr("NEQ", e, I(1)))>>
Key(e)      == <<SetElement(V("a"), e, I(0)), AssignX(Index(V("a"), e))>>
Alone(e)    == <<e>>
Opposite(e) == <<AssignX(UnExpr(e))>>

Compared(e) ==
  AssignEach(<<BinExpr("EQ", I(1), e), BinExpr("NEQ", I(1), e),
               BinExpr("LT", I(1), e), BinExpr("GTE", I(1), e)>>)

Asked(e) ==
  <<IfStatment(e, Scope(<<AssignX(I(1))>>)),
    IfElseStatment(e, Scope(<<AssignX(I(1))>>), Scope(<<>>)),
    WhileStatment(e, Scope(<<>>))>>

Taken(e) ==
  AssignEach(<<Index(e, I(1)), Field(e, "k"), FunctionCall(e, <<I(1)>>)>>)

Fill(Places(_), forms) == FlattenSeq([i \in DOMAIN forms |-> Places(forms[i])])

(* The forms every place takes.  A bare name as a condition stays a name.  *)
Filled ==
  Fill(Valued, Scalars \o Containers)
  \o Fill(Contained, Simple \o Names \o Calls \o Members \o Containers)
  \o Fill(Used, Scalars)
  \o Fill(Unequal, Numbers \o Operations \o Names \o Negatives \o Calls \o Members)
  \o Fill(Key, <<I(1)>> \o Strings \o Operations \o Names \o Negatives \o Calls \o Members)
  \o Fill(Alone, Simple \o Negatives \o Calls \o Members)
  \o Fill(Opposite, Simple \o Names)
  \o Fill(Compared, Simple \o Names \o Negatives)
  \o Fill(Asked, Simple \o Negatives \o Calls \o Members \o <<NameNode("x")>>)
  \o Fill(Taken, Names \o Members)

Followers == <<AssignX(I(2)), Scope(<<Let("z", V("y"))>>), PrintStatment(I(1))>>

Programs(statments) ==
  [i \in DOMAIN statments |->
    Scope(<<statments[i], Followers[1 + (i % Len(Followers))]>>)]

(* A tree, and the text that is written from it. *)
Written(trees) ==
  [i \in DOMAIN trees |-> [tree |-> trees[i], text |-> Delimited(Text(trees[i]))]]

Forms == Written(Programs(Filled))

(* The places where a form is refused although the comment of the          *)
(* production lists it: a call or a member expression on the right side of *)
(* a comparison, or after a minus.                                         *)
NamesBeforeBrackets ==
  Written(Programs(Fill(Compared, Calls \o Members) \o Fill(Opposite, Calls \o Members)))
=============================================================================
