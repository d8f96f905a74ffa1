----------------------------- MODULE SyntaxTree -----------------------------
(***************************************************************************)
(* The syntax trees the parser hands to the interpreters.                  *)
(*                                                                         *)
(* Every node is a record of its class, the one name, operator or string   *)
(* it carries, the one integer it carries, and its children in the order   *)
(* of ISyntaxNode::Children().  Positions of tokens are left out.          *)
(***************************************************************************)
EXTENDS Integers, Sequences

Node(class, str, int, children) ==
  [class |-> class, str |-> str, int |-> int, children |-> children]

(* Expressions. *)
IntF(i)               == Node("F", "int", i, <<>>)
DoubleF(d)            == Node("F", "double", d, <<>>)
StringF(s)            == Node("String", s, 0, <<>>)
Varible(x)            == Node("Varible", x, 0, <<>>)
NameNode(x)           == Node("Name", x, 0, <<>>)
UnExpr(e)             == Node("UnExpr", "NEG", 0, <<e>>)
BinExpr(op, l, r)     == Node("BinExpr", op, 0, <<l, r>>)
MemberExpression(c, k) == Node("MemberExpression", "", 0, <<c, k>>)
ArrayExpr(elements)   == Node("Array", "", 0, elements)
ObjectPair(key, e)    == Node("ObjectPair", "", 0, <<StringF(key), e>>)
ObjectExpr(pairs)     == Node("Object", "", 0, pairs)
FunctionCall(callee, actuals) == Node("FunctionCall", "", 0, Append(actuals, callee))

(* Statements. *)
Scope(statments)      == Node("Scope", "", 0, statments)
PrintStatment(e)      == Node("PrintStatment", "", 0, <<e>>)
ReturnStatment(e)     == Node("ReturnStatment", "", 0, <<e>>)
IfStatment(c, t)      == Node("IfStatment", "", 0, <<c, t>>)
IfElseStatment(c, t, f) == Node("IfStatment", "", 0, <<c, t, f>>)
WhileStatment(c, s)   == Node("WhileStatment", "", 0, <<c, s>>)

(* x = e (context GLOBAL), var x = e (context LOCAL), and c[k] = e.        *)
Assigment(context, target, e) ==
  Node("VaribleAssigmentStatment", context, 0, <<target, e>>)
Let(x, e)             == Assigment("LOCAL", NameNode(x), e)
Set(x, e)             == Assigment("GLOBAL", NameNode(x), e)
SetElement(c, k, e)   == Assigment("GLOBAL", MemberExpression(c, k), e)

(* The children of a function: its name, its parameters and its body.      *)
FunctionStatment(name, params, statments) ==
  Node("FunctionStatment", name, 0,
       <<NameNode(name)>> \o [i \in DOMAIN params |-> NameNode(params[i])]
                          \o <<Scope(statments)>>)

-----------------------------------------------------------------------------

(* The trees of at most so many levels. *)
NodeTrees[depth \in Nat] ==
  IF depth = 0 THEN {}
  ELSE [class : STRING, str : STRING, int : Int, children : Seq(NodeTrees[depth - 1])]

-----------------------------------------------------------------------------
(* The trees of programs: expressions, which the compiler leaves the value *)
(* of on the stack; statements; and what is part of either without being   *)
(* one.  A name is no expression: the parser makes a Varible of it, but    *)
(* for a name in brackets (x), of which no interpreter makes anything.     *)

BinaryOperators == {"ADD", "SUB", "MUL", "DIV", "EQ", "NEQ", "LT", "LTE", "GT", "GTE"}

NameNodes(below) == {p \in below.part : p.class = "Name"}
PairNodes(below) == {p \in below.part : p.class = "ObjectPair"}

IsPart(below, node) ==
  \/ node.class = "Name" /\ node.children = <<>>
  \/ node.class = "ObjectPair" /\ node.children \in Seq(below.expression) /\ Len(node.children) = 2

(* c[k], c.k: a member of a container.                                     *)
IsMember(below, node) ==
  /\ node.class = "MemberExpression"
  /\ Len(node.children) = 2
  /\ node.children[1] \in below.expression
  /\ node.children[2] \in below.expression \cup NameNodes(below)

IsExpression(below, node) ==
  \/ node.class \in {"F", "String", "Varible"} /\ node.children = <<>>
  \/ node.class = "UnExpr" /\ node.children \in Seq(below.expression) /\ Len(node.children) = 1
  \/ /\ node.class = "BinExpr" /\ node.str \in BinaryOperators
     /\ node.children \in Seq(below.expression) /\ Len(node.children) = 2
  \/ IsMember(below, node)
  \/ node.class = "Array" /\ node.children \in Seq(below.expression)
  \/ /\ node.class = "Object" /\ node.children \in Seq(PairNodes(below))
     /\ \A i \in DOMAIN node.children : \A j \in {1, 2} :
          node.children[i].children[j] \in below.expression
  \/ node.class = "FunctionCall" /\ node.children \in Seq(below.expression) \ {<<>>}

IsAssigment(below, node) ==
  /\ node.class = "VaribleAssigmentStatment"
  /\ Len(node.children) = 2
  /\ \/ node.children[1] \in NameNodes(below)
     \/ node.children[1] \in below.expression /\ IsMember(below, node.children[1])
  /\ node.children[2] \in below.expression

IsStatment(below, node) ==
  \/ IsExpression(below, node)
  \/ IsAssigment(below, node)
  \/ node.class = "Scope" /\ node.children \in Seq(below.statment)
  \/ /\ node.class \in {"PrintStatment", "ReturnStatment"}
     /\ node.children \in Seq(below.expression) /\ Len(node.children) = 1
  \/ /\ node.class = "IfStatment" /\ Len(node.children) \in {2, 3}
     /\ node.children[1] \in below.expression
     /\ \A i \in 2..Len(node.children) : node.children[i] \in below.statment
  \/ /\ node.class = "WhileStatment" /\ Len(node.children) = 2
     /\ node.children[1] \in below.expression /\ node.children[2] \in below.statment
  \/ /\ node.class = "FunctionStatment" /\ Len(node.children) >= 2
     /\ \A i \in 1..(Len(node.children) - 1) : node.children[i] \in NameNodes(below)
     /\ node.children[Len(node.children)] \in below.statment

ProgramTreesOver(below, nodes) ==
  [expression |-> {node \in nodes : IsExpression(below, node)},
   part       |-> {node \in nodes : IsPart(below, node)},
   statment   |-> {node \in nodes : IsStatment(below, node)}]

ProgramTrees[depth \in Nat] ==
  IF depth = 0 THEN [expression |-> {}, part |-> {}, statment |-> {}]
  ELSE ProgramTreesOver(ProgramTrees[depth - 1], NodeTrees[depth])
=============================================================================
