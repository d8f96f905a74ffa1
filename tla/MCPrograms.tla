----------------------------- MODULE MCPrograms -----------------------------
(***************************************************************************)
(* The families of small source programs the runs start from, as syntax    *)
(* trees the parser can produce.  Each family is closed under choices      *)
(* made independently in every position, so it holds the combinations      *)
(* nobody would think of writing a test for.                               *)
(***************************************************************************)
EXTENDS SyntaxTree, SequencesExt

V(x) == Varible(x)
I(i) == IntF(i)

CallOf(f, actuals) == FunctionCall(V(f), actuals)
Index(c, i)      == MemberExpression(V(c), I(i))
Field(c, name)   == MemberExpression(V(c), NameNode(name))

(* A program is named by its family and a number, whose digits, in a mixed *)
(* base, are the choices made: the digit with the given weight and base.   *)
Digit(p, weight, base) == (p \div weight) % base

NameOf(family, number) == [family |-> family, number |-> number]

Numbered(family, count) == [i \in 1 .. count |-> NameOf(family, i - 1)]

-----------------------------------------------------------------------------
(* Closures that escape from the function that declared them:              *)
(*                                                                         *)
(*   { function outer(p) { [var x = 7;] function inner(q) { ... }          *)
(*                         [...] return ...; }                             *)
(*     var h = outer(1); ... return ...; }                                 *)

InnerBodies ==
  << <<ReturnStatment(V("x"))>>,
     <<ReturnStatment(BinExpr("ADD", V("p"), V("q")))>>,
     <<Set("x", V("q")), ReturnStatment(V("x"))>>,
     <<IfStatment(BinExpr("EQ", V("q"), I(0)), Scope(<<ReturnStatment(I(5))>>)),
       ReturnStatment(CallOf("inner", <<BinExpr("SUB", V("q"), I(1))>>))>> >>

(* What the outer function does with the function before it returns. *)
Keeps ==
  << <<>>,
     <<Let("a", V("inner"))>>,
     <<Let("a", ArrayExpr(<<V("inner"), I(3)>>))>>,
     <<Let("a", ObjectExpr(<<ObjectPair("k", V("inner"))>>))>>,
     <<Set("g", V("inner"))>>,
     <<Let("a", CallOf("inner", <<I(0)>>))>> >>

OuterReturns ==
  <<V("inner"), V("a"), CallOf("inner", <<I(1)>>), V("x")>>

Uses ==
  << <<ReturnStatment(V("h"))>>,
     <<ReturnStatment(CallOf("h", <<I(2)>>))>>,
     <<Let("g", Index("h", 0)), ReturnStatment(CallOf("g", <<I(2)>>))>>,
     <<ReturnStatment(CallOf("g", <<I(0)>>))>> >>

EscapingClosure(p) ==
  LET inner   == InnerBodies[1 + Digit(p, 1, 4)]
      keeps   == Keeps[1 + Digit(p, 4, 6)]
      returns == OuterReturns[1 + Digit(p, 24, 4)]
      uses    == Uses[1 + Digit(p, 96, 4)]
      own     == Digit(p, 384, 2)
  IN  Scope(<<Let("g", I(0)),
              FunctionStatment("outer", <<"p">>,
                (IF own = 1 THEN <<Let("x", I(7))>> ELSE <<>>)
                \o <<FunctionStatment("inner", <<"q">>, inner)>>
                \o keeps
                \o <<ReturnStatment(returns)>>),
              Let("h", CallOf("outer", <<I(1)>>))>> \o uses)

EscapingClosures == Numbered("closures", 768)

(* The functions that call themselves by name, and what puts a function    *)
(* into a container, among the choices above.                              *)
Recursive(p) == Digit(p, 1, 4) = 3
Contained(p) == Digit(p, 4, 6) \in {2, 3}

(* The object comes back and is indexed with a number. *)
Mistyped(p) == Digit(p, 4, 6) = 3 /\ Digit(p, 24, 4) = 1 /\ Digit(p, 96, 4) = 2

-----------------------------------------------------------------------------
(* Functions passed to functions, and closures declared two levels down:   *)
(*                                                                         *)
(*   { var x = 5; function same(v) { return v; }                           *)
(*     function apply(f, v) { ... }                                        *)
(*     function make(k) { function mid() { function add(v) { ... }         *)
(*                                         return add; }                   *)
(*                        ...; }                                           *)
(*     var m = make(2); print(apply(m, 3)); return ...; }                  *)

ApplyBodies ==
  << <<ReturnStatment(BinExpr("ADD", V("v"), CallOf("f", <<V("v")>>)))>>,
     <<Let("r", CallOf("f", <<V("v")>>)), ReturnStatment(CallOf("f", <<V("r")>>))>>,
     <<FunctionStatment("w", <<"u">>, <<ReturnStatment(CallOf("f", <<V("u")>>))>>),
       ReturnStatment(CallOf("w", <<V("v")>>))>>,
     <<Set("f", I(0)), ReturnStatment(V("v"))>> >>

AddBodies ==
  << <<ReturnStatment(BinExpr("ADD", V("v"), V("k")))>>,
     <<Set("k", BinExpr("ADD", V("k"), V("v"))), ReturnStatment(V("k"))>>,
     <<Set("x", BinExpr("ADD", V("x"), V("v"))), ReturnStatment(V("x"))>>,
     <<Let("k", V("v")), ReturnStatment(V("k"))>>,
     <<ReturnStatment(BinExpr("ADD", V("v"), CallOf("same", <<V("k")>>)))>> >>

Add(body) == FunctionStatment("add", <<"v">>, body)
Mid(body) == FunctionStatment("mid", <<>>, <<Add(body), ReturnStatment(V("add"))>>)

(* How make hands out the function: directly, through mid, through mid and *)
(* a variable of its own, or after it was handed to apply, which is done   *)
(* with a function of mid or with one of make itself.                      *)
MakeBodies(add) ==
  << <<Add(add), ReturnStatment(V("add"))>>,
     <<Mid(add), ReturnStatment(CallOf("mid", <<>>))>>,
     <<Mid(add), Let("h", CallOf("mid", <<>>)), ReturnStatment(V("h"))>>,
     <<Mid(add), Let("h", CallOf("apply", <<CallOf("mid", <<>>), I(1)>>)),
       ReturnStatment(CallOf("mid", <<>>))>>,
     <<Add(add), Let("h", CallOf("apply", <<V("add"), I(1)>>)), ReturnStatment(V("add"))>> >>

Endings ==
  << <<ReturnStatment(CallOf("m", <<I(1)>>))>>,
     <<Let("m", CallOf("make", <<I(9)>>)), ReturnStatment(CallOf("apply", <<V("m"), I(4)>>))>>,
     <<Let("n", V("m")), PrintStatment(CallOf("n", <<I(1)>>)),
       ReturnStatment(CallOf("m", <<I(1)>>))>>,
     <<ReturnStatment(V("x"))>> >>

HigherOrder(p) ==
  Scope(<<Let("x", I(5)),
          FunctionStatment("same", <<"v">>, <<ReturnStatment(V("v"))>>),
          FunctionStatment("apply", <<"f", "v">>, ApplyBodies[1 + Digit(p, 1, 4)]),
          FunctionStatment("make", <<"k">>,
            MakeBodies(AddBodies[1 + Digit(p, 4, 5)])[1 + Digit(p, 20, 5)]),
          Let("m", CallOf("make", <<I(2)>>)),
          PrintStatment(CallOf("apply", <<V("m"), I(3)>>))>>
        \o Endings[1 + Digit(p, 100, 4)])

HigherOrderPrograms == Numbered("higher order", 400)

(* The holder: the function mid returned is kept in a variable of make.    *)
HeldByMaker(p) == Digit(p, 20, 5) = 2

-----------------------------------------------------------------------------
(* Functions that keep their variables in slots: the body of f is two      *)
(* statements, each chosen among assignments, conditionals and loops, and  *)
(* with[p] = 2 adds a nested function that is never called, which makes    *)
(* the compiler keep the same variables in the scope instead.              *)
(*                                                                         *)
(*   { var x = 3; function f(n) { var y = n; ...; ...; [function u() {}]   *)
(*                return y + x; }                                          *)
(*     print(f(2)); return x; }                                            *)

Simple ==
  << Set("y", BinExpr("ADD", V("y"), V("x"))),
     Set("x", V("y")),
     Let("z", BinExpr("MUL", V("n"), I(2))),
     ReturnStatment(V("n")),
     Set("n", I(0)),
     PrintStatment(V("y")),
     BinExpr("EQ", V("y"), V("n")) >>

Decrement == Set("n", BinExpr("SUB", V("n"), I(1)))
Counting  == BinExpr("GT", V("n"), I(0))
Above     == BinExpr("GT", V("n"), I(1))
Met       == BinExpr("EQ", V("y"), V("x"))

(* The statements: the simple ones, conditionals with and without else,    *)
(* loops, and a conditional inside a loop, around the first four.          *)
Statments ==
     Simple
  \o [i \in 1..4 |-> IfStatment(Above, Scope(<<Simple[i]>>))]
  \o [i \in 1..4 |-> IfStatment(Met, Scope(<<Simple[i]>>))]
  \o [i \in 1..16 |-> IfElseStatment(Above, Scope(<<Simple[1 + Digit(i, 1, 4)]>>),
                                            Scope(<<Simple[1 + Digit(i, 4, 4)]>>))]
  \o [i \in 1..4 |-> WhileStatment(Counting, Scope(<<Simple[i], Decrement>>))]
  \o [i \in 1..4 |-> WhileStatment(Counting,
                       Scope(<<Decrement, IfStatment(Met, Scope(<<Simple[i]>>))>>))]

SlotProgram(p) ==
  Scope(<<Let("x", I(3)),
          FunctionStatment("f", <<"n">>,
            <<Let("y", V("n")), Statments[1 + Digit(p, 1, 39)], Statments[1 + Digit(p, 39, 39)]>>
            \o (IF Digit(p, 1521, 2) = 1 THEN <<FunctionStatment("u", <<>>, <<>>)>> ELSE <<>>)
            \o <<ReturnStatment(BinExpr("ADD", V("y"), V("x")))>>),
          PrintStatment(CallOf("f", <<I(2)>>)),
          ReturnStatment(V("x"))>>)

SlotPrograms == Numbered("slots", 3042)

-----------------------------------------------------------------------------
(* A name that is declared in a branch or a loop, which one call takes and *)
(* another does not, and that is read and assigned after it.  A slot is    *)
(* there from that place of the text on, whichever way the call went.      *)
(*                                                                         *)
(*   { var x = 3; function f(n) { var y = n; ...; ...; [function u() {}]   *)
(*                                return z; }                              *)
(*     print(f(2)); print(f(3)); return f(0); }                            *)

Declarations ==
  LET z == Let("z", BinExpr("MUL", V("n"), I(2)))
  IN  << IfStatment(Above, Scope(<<z>>)),
         IfStatment(Met, Scope(<<z>>)),
         IfStatment(Above, Scope(<<IfStatment(Met, Scope(<<z>>))>>)),
         IfElseStatment(Met, Scope(<<z>>), Scope(<<Set("y", I(1))>>)),
         IfElseStatment(Met, Scope(<<ReturnStatment(V("n"))>>), Scope(<<z>>)),
         IfElseStatment(Above, Scope(<<z>>), Scope(<<Let("z", V("x"))>>)),
         WhileStatment(Above, Scope(<<z, Decrement>>)),
         WhileStatment(Above, Scope(<<Decrement, IfStatment(Met, Scope(<<z>>))>>)) >>

AfterDeclaration ==
  << PrintStatment(V("z")),
     Set("z", V("y")),
     Let("z", V("y")),
     Set("y", V("z")),
     IfStatment(Counting, Scope(<<Set("z", V("x"))>>)),
     IfStatment(BinExpr("EQ", V("z"), I(4)), Scope(<<Let("z", I(7))>>)),
     IfElseStatment(Above, Scope(<<Set("z", V("n"))>>), Scope(<<PrintStatment(V("z"))>>)),
     WhileStatment(Counting, Scope(<<PrintStatment(V("z")), Set("z", V("n")), Decrement>>)) >>

DeclaredOnBranch(p) ==
  Scope(<<Let("x", I(3)),
          FunctionStatment("f", <<"n">>,
            <<Let("y", V("n")),
              Declarations[1 + Digit(p, 1, 8)], AfterDeclaration[1 + Digit(p, 8, 8)]>>
            \o (IF Digit(p, 64, 2) = 1 THEN <<FunctionStatment("u", <<>>, <<>>)>> ELSE <<>>)
            \o <<ReturnStatment(V("z"))>>),
          PrintStatment(CallOf("f", <<I(2)>>)),
          PrintStatment(CallOf("f", <<I(3)>>)),
          ReturnStatment(CallOf("f", <<I(0)>>))>>)

DeclaredPrograms == Numbered("declared", 128)

-----------------------------------------------------------------------------
(* Functions that are left from inside of their loops: two statements in   *)
(* the body of a loop, the second one also inside a block, a conditional   *)
(* or a loop of its own.                                                   *)
(*                                                                         *)
(*   { var x = 0; var m = 0; function h(v) { x = x + v; return x; }        *)
(*     function f(n) { var k = 0;                                          *)
(*                     while (n > 0) { ...; ...; n = n - 1; }              *)
(*                     return k; }                                         *)
(*     print(f(2)); return x; }                                            *)

Added(e) == Set("k", BinExpr("ADD", e, V("k")))

Leavings ==
  << ReturnStatment(V("n")),
     ReturnStatment(CallOf("f", <<BinExpr("SUB", V("n"), I(1))>>)),
     Added(CallOf("f", <<BinExpr("SUB", V("n"), I(1))>>)),
     IfStatment(BinExpr("SUB", I(2), V("n")), Scope(<<ReturnStatment(V("n"))>>)),
     WhileStatment(Above,
       Scope(<<Decrement, Added(V("n")),
               IfStatment(BinExpr("EQ", V("k"), I(2)), Scope(<<ReturnStatment(V("n"))>>))>>)),
     Scope(<<FunctionStatment("c", <<"d">>, <<ReturnStatment(BinExpr("ADD", V("d"), V("n")))>>),
             Set("m", V("c")),
             Added(CallOf("c", <<I(1)>>))>>),
     CallOf("h", <<V("n")>>),
     PrintStatment(V("k")) >>

(* The ways to put a statement into a block. *)
Enclosed(statment) ==
  << statment,
     Scope(<<statment>>),
     IfElseStatment(Above, Scope(<<statment>>), Scope(<<Added(I(5))>>)),
     Scope(<<Let("t", I(1)),
             WhileStatment(BinExpr("GT", V("t"), I(0)),
                           Scope(<<Set("t", BinExpr("SUB", V("t"), I(1))), statment>>))>>) >>

Unwinding(p) ==
  Scope(<<Let("x", I(0)), Let("m", I(0)),
          FunctionStatment("h", <<"v">>,
            <<Set("x", BinExpr("ADD", V("x"), V("v"))), ReturnStatment(V("x"))>>),
          FunctionStatment("f", <<"n">>,
            <<Let("k", I(0)),
              WhileStatment(Counting,
                Scope(<<Leavings[1 + Digit(p, 1, 8)],
                        Enclosed(Leavings[1 + Digit(p, 8, 8)])[1 + Digit(p, 64, 4)],
                        Decrement>>)),
              ReturnStatment(V("k"))>>),
          PrintStatment(CallOf("f", <<I(2)>>)),
          ReturnStatment(V("x"))>>)

UnwindingPrograms == Numbered("unwinding", 256)

(* A call nobody takes the value of, in a function called for its value    *)
(* while another operand waits.                                            *)
LeavesOperand(p) == {Digit(p, 1, 8), Digit(p, 8, 8)} = {2, 6}

-----------------------------------------------------------------------------
(* Arrays and objects, shared and changed through several names: three     *)
(* statements, each any of these, and a value returned.                    *)
(*                                                                         *)
(*   { function f() {} var i = 2; var a = [1, 2]; var o = {"k": 3};        *)
(*     ...; ...; ...; return ...; }                                        *)

DataStatments ==
  << SetElement(V("a"), I(0), V("f")),
     SetElement(V("a"), I(3), V("o")),
     SetElement(V("a"), V("i"), StringF("b")),
     Let("b", V("a")),
     SetElement(V("b"), I(1), I(7)),
     SetElement(V("o"), NameNode("k"), I(4)),
     SetElement(V("o"), NameNode("c"), V("b")),
     Set("o", ObjectExpr(<<ObjectPair("k", I(6)), ObjectPair("b", V("a")), ObjectPair("k", I(7))>>)),
     PrintStatment(BinExpr("EQ", V("a"), V("b"))),
     PrintStatment(V("o")),
     PrintStatment(Index("a", 9)),
     Let("i", Index("a", 1)) >>

DataReturns == <<V("a"), V("o")>>

DataProgram(p) ==
  Scope(<<FunctionStatment("f", <<>>, <<>>),
          Let("i", I(2)),
          Let("a", ArrayExpr(<<I(1), I(2)>>)),
          Let("o", ObjectExpr(<<ObjectPair("k", I(3))>>)),
          DataStatments[1 + Digit(p, 1, 12)],
          DataStatments[1 + Digit(p, 12, 12)],
          DataStatments[1 + Digit(p, 144, 12)],
          ReturnStatment(DataReturns[1 + Digit(p, 1728, 2)])>>)

(* An array that comes to hold an object that holds the array.             *)
MakesCycle(p) ==
  LET chosen == {Digit(p, 1, 12), Digit(p, 12, 12), Digit(p, 144, 12)}
  IN  1 \in chosen /\ {6, 7} \cap chosen # {}

(* A name changed under two holders, compared or stored while it has two,  *)
(* an element that is not there, a key given twice, or b without b = a.    *)
SharesOrReadsPast(p) ==
  LET chosen == {Digit(p, 1, 12), Digit(p, 12, 12), Digit(p, 144, 12)}
  IN  \/ {4, 7, 10} \cap chosen # {}
      \/ {1, 5} \subseteq chosen
      \/ 3 \in chosen /\ {0, 2} \cap chosen # {} /\ {6, 8} \cap chosen # {}

DataPrograms ==
  SelectSeq(Numbered("data", 3456), LAMBDA name : ~ MakesCycle(name.number))

-----------------------------------------------------------------------------
(* Arrays and objects put into themselves, inside of others or on the way  *)
(* through a function: two statements, each any of these.                  *)
(*                                                                         *)
(*   { function f(x) { return x; } var a = [1, 2]; var o = {"k": 3};       *)
(*     ...; ...; print(o); return a; }                                     *)

NestingStatments ==
  << SetElement(V("a"), I(0), ArrayExpr(<<V("a")>>)),
     SetElement(V("a"), I(0), ObjectExpr(<<ObjectPair("k", V("o"))>>)),
     SetElement(V("a"), I(1), CallOf("f", <<V("a")>>)),
     SetElement(V("o"), NameNode("k"), ArrayExpr(<<V("o"), V("a")>>)),
     SetElement(V("o"), NameNode("k"), CallOf("f", <<V("a")>>)) >>

NestingProgram(p) ==
  Scope(<<FunctionStatment("f", <<"x">>, <<ReturnStatment(V("x"))>>),
          Let("a", ArrayExpr(<<I(1), I(2)>>)),
          Let("o", ObjectExpr(<<ObjectPair("k", I(3))>>)),
          NestingStatments[1 + Digit(p, 1, 5)],
          NestingStatments[1 + Digit(p, 5, 5)],
          PrintStatment(V("o")),
          ReturnStatment(V("a"))>>)

NestingPrograms == Numbered("nesting", 25)

-----------------------------------------------------------------------------
(* Every operator on every pair of types.                                  *)
(*                                                                         *)
(*   { function f() { return 1; } var a = ...; var b = ...;                *)
(*     var y = a op b; print(y); return - y; }                             *)

Operators == <<"ADD", "SUB", "MUL", "DIV", "EQ", "NEQ", "LT", "LTE", "GT", "GTE">>

Operands ==
  << I(2), I(7), UnExpr(I(7)), BinExpr("EQ", I(1), I(1)), BinExpr("EQ", I(1), I(2)),
     StringF("b"), StringF("c"), V("u"), ArrayExpr(<<I(1)>>), ObjectExpr(<<ObjectPair("k", I(1))>>), V("f") >>

OperatorProgram(p) ==
  Scope(<<FunctionStatment("f", <<>>, <<ReturnStatment(I(1))>>),
          Let("a", Operands[1 + Digit(p, 1, 11)]),
          Let("b", Operands[1 + Digit(p, 11, 11)]),
          Let("y", BinExpr(Operators[1 + Digit(p, 121, 10)], V("a"), V("b"))),
          PrintStatment(V("y")),
          Let("z", UnExpr(V("y"))),
          IfElseStatment(BinExpr("EQ", V("y"), V("a")), Scope(<<ReturnStatment(V("a"))>>),
                                                        Scope(<<ReturnStatment(V("z"))>>))>>)

(* A division by false is a division by zero. *)
DividesByZero(p) == Digit(p, 121, 10) = 3 /\ Digit(p, 11, 11) = 4

(* A minus in an operand, and a function compared with a function. *)
Negates(p)           == 2 \in {Digit(p, 1, 11), Digit(p, 11, 11)}
ComparesFunctions(p) == Digit(p, 121, 10) \in {4, 5} /\ {Digit(p, 1, 11), Digit(p, 11, 11)} = {10}

OperatorPrograms ==
  SelectSeq(Numbered("operators", 1210), LAMBDA name : ~ DividesByZero(name.number))

-----------------------------------------------------------------------------
(* Conditions that are nothing but a name, which the parser hands over as  *)
(* a Name node: { function f(n) { ...; return n; } return f(...); }        *)

BareConditions ==
  << IfStatment(NameNode("n"), Scope(<<Set("n", I(7))>>)),
     IfElseStatment(NameNode("n"), Scope(<<Set("n", I(7))>>), Scope(<<Set("n", I(8))>>)),
     WhileStatment(NameNode("n"), Scope(<<Decrement>>)) >>

BareCondition(p) ==
  Scope(<<FunctionStatment("f", <<"n">>, <<BareConditions[1 + Digit(p, 1, 3)], ReturnStatment(V("n"))>>),
          ReturnStatment(CallOf("f", <<I(Digit(p, 3, 3))>>))>>)

BareConditionPrograms == Numbered("bare", 9)

-----------------------------------------------------------------------------
(* The tree of a program. *)
Tree(name) ==
  LET p == name.number
  IN CASE name.family = "closures"     -> EscapingClosure(p)
       [] name.family = "higher order" -> HigherOrder(p)
       [] name.family = "slots"        -> SlotProgram(p)
       [] name.family = "declared"     -> DeclaredOnBranch(p)
       [] name.family = "unwinding"    -> Unwinding(p)
       [] name.family = "data"         -> DataProgram(p)
       [] name.family = "nesting"      -> NestingProgram(p)
       [] name.family = "operators"    -> OperatorProgram(p)
       [] name.family = "bare"         -> BareCondition(p)

(* The deepest tree has this many levels. *)
Levels == 14
=============================================================================
