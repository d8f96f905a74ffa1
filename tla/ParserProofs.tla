---------------------------- MODULE ParserProofs ----------------------------
(***************************************************************************)
(* The parser's types, and that its work is linear in the text.            *)
(***************************************************************************)
EXTENDS ParserWork, NatSets, FiniteSetTheorems

-----------------------------------------------------------------------------
(* How many nodes a match has taken, at the least, when it has come to a   *)
(* state.  States have the same names in all productions.                  *)

Fewest(name) ==
  CASE name = "literal" -> 1
    [] name = "whole"   -> 3
    [] OTHER            -> 2

Level(name, state) ==
  CASE state \in {"START", "ERROR", "INCORRECT", "CORRECT"}   -> 0
    [] state = "FINISH"                                       -> Fewest(name)
    [] name = "whole" /\ state \in {"ANY", "SCOPE"}           -> 2
    [] OTHER                                                  -> 1

(* A move takes the level up by one when it takes a node, and not at all   *)
(* when it only looks at one.                                              *)
Gradual(name, m) ==
  /\ m.kept \in BOOLEAN
  /\ \A s \in m.from :
       Level(name, m.to) <= Level(name, s) + (IF m.kept THEN 1 ELSE 0)

Openers == {"NONE", "OPEN_CIRCLE_BRACKET", "OPEN_CURLY_BRACKET", "OPEN_SQUARE_BRACKET", "FUNCTION"}

Names ==
  {"terminated", "call", "print", "return", "brackets", "element", "property",
   "literal", "arithmetic", "equality", "order", "whole", "negation",
   "declaration", "assigment", "emptyDeclaration", "emptyAssigment", "array",
   "object", "pair", "scope", "if", "while", "function"}

(* A literal is a token until the production for literals has read it, and *)
(* the productions that hand on one of their nodes do not take such tokens *)
(* (but for the one that takes the whole text).                            *)
ProductionOK(p) ==
  /\ p.name \in Names
  /\ p.opener \in Openers
  /\ p.extent \in Nat
  /\ \A kind \in DOMAIN p.handlers : \A m \in p.handlers[kind] : Gradual(p.name, m)
  /\ p.name \in {"terminated", "brackets"} => DOMAIN p.handlers \cap Literals = {}
  /\ p.name = "literal" => DOMAIN p.handlers \subseteq Literals

LEMMA LevelType ==
  ASSUME NEW name, NEW state
  PROVE  Level(name, state) \in 0..3
BY DEF Level, Fewest

LEMMA MovesMakeOK ==
  ASSUME NEW name \in Names, NEW opener \in Openers, NEW extent \in Nat, NEW rest, NEW moves,
         \A m \in moves : Gradual(name, m),
         name \in {"terminated", "brackets"} => \A m \in moves : m.kinds \cap Literals = {},
         name = "literal" => \A m \in moves : m.kinds \subseteq Literals
  PROVE  ProductionOK(Production(name, opener, extent, rest, moves))
<1> DEFINE p == Production(name, opener, extent, rest, moves)
<1>1. /\ p.name = name /\ p.opener = opener /\ p.extent = extent
      /\ p.handlers = [kind \in UNION {m.kinds : m \in moves} |-> {m \in moves : kind \in m.kinds}]
  BY DEF Production
<1>2. DOMAIN p.handlers = UNION {m.kinds : m \in moves}
  BY <1>1
<1>3. \A kind \in DOMAIN p.handlers : \A m \in p.handlers[kind] : m \in moves
  BY <1>1, <1>2
<1> HIDE DEF p
<1> QED
  BY <1>1, <1>2, <1>3 DEF ProductionOK, p

LEMMA OrdinaryMovesMakeOK ==
  ASSUME NEW name \in Names \ {"literal", "whole", "terminated", "brackets"},
         NEW opener \in Openers, NEW extent \in Nat, NEW rest, NEW moves,
         \A m \in moves : Gradual(name, m)
  PROVE  ProductionOK(Production(name, opener, extent, rest, moves))
BY MovesMakeOK

(* In most productions a finish takes two nodes, so it is enough that no   *)
(* move leads from the start to the finish.                                *)
Early == {"START", "ERROR", "INCORRECT", "CORRECT"}

LEMMA MoveGradual ==
  ASSUME NEW name, name \notin {"literal", "whole"},
         NEW from, NEW kinds, NEW before, NEW to,
         to # "FINISH" \/ from \cap Early = {}
  PROVE  Gradual(name, MoveBefore(from, kinds, before, to))
<1>1. Level(name, to) = IF to \in Early THEN 0 ELSE IF to = "FINISH" THEN 2 ELSE 1
  BY DEF Level, Fewest, Early
<1>2. ASSUME NEW s \in from
      PROVE  Level(name, s) = IF s \in Early THEN 0 ELSE IF s = "FINISH" THEN 2 ELSE 1
  BY DEF Level, Fewest, Early
<1>3. ASSUME NEW s \in from PROVE Level(name, to) <= Level(name, s) + 1
  BY <1>1, <1>2 DEF Early
<1> QED
  BY <1>3 DEF Gradual, MoveBefore

LEMMA PeekGradual ==
  ASSUME NEW name, name \notin {"literal", "whole"},
         NEW from, NEW kinds, NEW to \in Early, NEW impact
  PROVE  Gradual(name, Peek(from, kinds, to, impact))
<1>1. Level(name, to) = 0
  BY DEF Level, Early
<1>2. ASSUME NEW s \in from PROVE Level(name, s) \in 0..3
  BY LevelType
<1> QED
  BY <1>1, <1>2 DEF Gradual, Peek

LEMMA TerminatedOK ==
  ASSUME NEW kinds, kinds \cap Literals = {}
  PROVE  ProductionOK(Terminated(kinds))
<1> DEFINE moves == {Move({"START"}, kinds, "BODY"), Move({"BODY"}, {"SEMICOLON"}, "FINISH")}
<1>1. \A m \in moves : Gradual("terminated", m)
  BY MoveGradual DEF Early, Move
<1>2. \A m \in moves : m.kinds \cap Literals = {}
  BY DEF Move, MoveBefore, Literals
<1> QED
  BY <1>1, <1>2, MovesMakeOK DEF Terminated, Names, Openers

LEMMA LiteralOK == ProductionOK(Literal)
<1>1. ASSUME NEW kinds, NEW before
      PROVE  Gradual("literal", MoveBefore({"START"}, kinds, before, "FINISH"))
  BY DEF Gradual, MoveBefore, Level, Fewest
<1> DEFINE moves ==
      {MoveBefore({"START"}, {"INT", "DOUBLE"}, AfterNumber, "FINISH"),
       MoveBefore({"START"}, {"STRING"}, AfterNumber \ {"NOT"}, "FINISH")}
<1>2. \A m \in moves : m.kinds \subseteq Literals
  BY DEF MoveBefore, Literals
<1>3. \A m \in moves : Gradual("literal", m)
  BY <1>1
<1> QED
  BY <1>2, <1>3, MovesMakeOK DEF Literal, Names, Openers

LEMMA WholeOK == ProductionOK(WholeText) /\ ProductionOK(WholeScope)
<1>1. /\ Level("whole", "START") = 0 /\ Level("whole", "BOL") = 1
      /\ Level("whole", "ANY") = 2 /\ Level("whole", "SCOPE") = 2
      /\ Level("whole", "FINISH") = 3
  BY DEF Level, Fewest
<1>2. ASSUME NEW kinds
      PROVE  /\ Gradual("whole", Move({"START"}, kinds, "BOL"))
             /\ Gradual("whole", Move({"BOL"}, kinds, "ANY"))
             /\ Gradual("whole", Move({"BOL"}, kinds, "SCOPE"))
             /\ Gradual("whole", Move({"ANY"}, kinds, "FINISH"))
             /\ Gradual("whole", Move({"SCOPE"}, kinds, "FINISH"))
  BY <1>1 DEF Gradual, Move, MoveBefore
<1> QED
  BY <1>2, MovesMakeOK DEF WholeText, WholeScope, Names, Openers

LEMMA NegationOK == ProductionOK(Negation)
<1> DEFINE others == Kinds \ (Negated \cup {"MINUS"})
           peeks  == {Peek({"START"}, Negated, "INCORRECT", "ERROR"),
                      Peek({"START"}, {"MINUS"}, "CORRECT", "MOVE"),
                      Peek({"START"}, others, "CORRECT", "NO_MOVE"),
                      Peek({"INCORRECT", "CORRECT", "MINUS"}, others, "ERROR", "ERROR")}
           moves  == {Move({"CORRECT"}, {"MINUS"}, "MINUS"),
                      Move({"MINUS"}, Negated, "FINISH")}
<1>1. \A m \in peeks : Gradual("negation", m)
  BY PeekGradual DEF Early
<1>2. \A m \in moves : Gradual("negation", m)
  BY MoveGradual DEF Early, Move
<1> QED
  BY <1>1, <1>2, OrdinaryMovesMakeOK DEF Negation, Names, Openers

LEMMA BracketsOK == ProductionOK(CircleBrackets)
<1> DEFINE moves ==
      {Peek({"START"}, {"Name"}, "ERROR", "ERROR"),
       Move({"START"}, {"OPEN_CIRCLE_BRACKET"}, "OPEN"),
       Move({"OPEN"}, Operands \ {"MemberExpression"}, "F"),
       MoveBefore({"F"}, {"CLOSE_CIRCLE_BRACKET"},
                  Token_Type \ {"OPEN_CURLY_BRACKET"}, "FINISH")}
<1>1. \A m \in moves : Gradual("brackets", m)
  BY MoveGradual, PeekGradual DEF Early, Move
<1>2. \A m \in moves : m.kinds \cap Literals = {}
  BY DEF Move, MoveBefore, Peek, Literals, Operands, F
<1> QED
  BY <1>1, <1>2, MovesMakeOK DEF CircleBrackets, Names, Openers

(* The other productions, one by one. *)
LEMMA OthersOK ==
  /\ ProductionOK(Call)
  /\ ProductionOK(PrintArgument)
  /\ ProductionOK(ReturnArgument)
  /\ ProductionOK(Element)
  /\ ProductionOK(Property)
  /\ ProductionOK(ArithmeticExpression)
  /\ ProductionOK(EqualityExpression)
  /\ ProductionOK(OrderExpression)
  /\ ProductionOK(Declaration)
  /\ ProductionOK(EmptyDeclaration)
  /\ ProductionOK(Reassigment)
  /\ ProductionOK(EmptyReassigment)
  /\ ProductionOK(ArrayElements)
  /\ ProductionOK(ObjectPairs)
  /\ ProductionOK(Pair)
  /\ ProductionOK(ScopeStatments)
  /\ ProductionOK(IfThen)
  /\ ProductionOK(IfThenElse)
  /\ ProductionOK(WhileLoop)
  /\ ProductionOK(Function)
<1>1. ProductionOK(Call)
  BY MoveGradual, OrdinaryMovesMakeOK DEF Names, Openers, Call, Move, Early
<1>2. ProductionOK(PrintArgument)
  BY MoveGradual, OrdinaryMovesMakeOK DEF Names, Openers, PrintArgument, Move, Early
<1>3. ProductionOK(ReturnArgument)
  BY MoveGradual, OrdinaryMovesMakeOK DEF Names, Openers, ReturnArgument, Move, Early
<1>4. ProductionOK(Element)
  BY MoveGradual, OrdinaryMovesMakeOK DEF Names, Openers, Element, Move, Early
<1>5. ProductionOK(Property)
  BY MoveGradual, OrdinaryMovesMakeOK DEF Names, Openers, Property, Move, Early
<1>6. ProductionOK(ArithmeticExpression)
  BY MoveGradual, OrdinaryMovesMakeOK DEF Names, Openers, ArithmeticExpression, Move, Early
<1>7. ProductionOK(EqualityExpression)
  BY MoveGradual, OrdinaryMovesMakeOK DEF Names, Openers, EqualityExpression, Move, Early
<1>8. ProductionOK(OrderExpression)
  BY MoveGradual, OrdinaryMovesMakeOK DEF Names, Openers, OrderExpression, Move, Early
<1>9. ProductionOK(Declaration)
  BY MoveGradual, OrdinaryMovesMakeOK DEF Names, Openers, Declaration, Move, Early
<1>10. ProductionOK(EmptyDeclaration)
  BY MoveGradual, OrdinaryMovesMakeOK DEF Names, Openers, EmptyDeclaration, Move, Early
<1>11. ProductionOK(Reassigment)
  BY MoveGradual, OrdinaryMovesMakeOK DEF Names, Openers, Reassigment, Move, Early
<1>12. ProductionOK(EmptyReassigment)
  BY MoveGradual, OrdinaryMovesMakeOK DEF Names, Openers, EmptyReassigment, Move, Early
<1>13. ProductionOK(ArrayElements)
  BY MoveGradual, OrdinaryMovesMakeOK DEF Names, Openers, ArrayElements, Move, Early
<1>14. ProductionOK(ObjectPairs)
  BY MoveGradual, OrdinaryMovesMakeOK DEF Names, Openers, ObjectPairs, Move, Early
<1>15. ProductionOK(Pair)
  BY MoveGradual, OrdinaryMovesMakeOK DEF Names, Openers, Pair, Move, Early
<1>16. ProductionOK(ScopeStatments)
  BY MoveGradual, OrdinaryMovesMakeOK DEF Names, Openers, ScopeStatments, Move, Early
<1>17. ProductionOK(IfThen)
  BY MoveGradual, OrdinaryMovesMakeOK DEF Names, Openers, IfThen, Move, Early
<1>18. ProductionOK(IfThenElse)
  BY MoveGradual, OrdinaryMovesMakeOK DEF Names, Openers, IfThenElse, Move, Early
<1>19. ProductionOK(WhileLoop)
  BY MoveGradual, OrdinaryMovesMakeOK DEF Names, Openers, WhileLoop, Move, Early
<1>20. ProductionOK(Function)
  BY MoveGradual, OrdinaryMovesMakeOK DEF Names, Openers, Function, Move, Early
<1> QED
  BY <1>1, <1>2, <1>3, <1>4, <1>5, <1>6, <1>7, <1>8, <1>9, <1>10, <1>11, <1>12, <1>13, <1>14, <1>15, <1>16, <1>17, <1>18, <1>19, <1>20

LEMMA GrammarsOK ==
  \A g \in DOMAIN Grammars : \A i \in DOMAIN Grammars[g] : ProductionOK(Grammars[g][i])
<1>1. ASSUME NEW kinds, kinds \cap Literals = {} PROVE ProductionOK(Terminated(kinds))
  BY <1>1, TerminatedOK
<1>2. /\ ProductionOK(CallStatment) /\ ProductionOK(PrintTerminated)
      /\ ProductionOK(ReturnTerminated) /\ ProductionOK(MemberTerminated)
      /\ ProductionOK(LiteralTerminated) /\ ProductionOK(BinExprTerminated)
      /\ ProductionOK(UnExprTerminated) /\ ProductionOK(AssigmentTerminated)
  BY <1>1 DEF CallStatment, PrintTerminated, ReturnTerminated, MemberTerminated,
     LiteralTerminated, BinExprTerminated, UnExprTerminated, AssigmentTerminated, Literals, F
<1>3. /\ ProductionOK(ArrayTerminated) /\ ProductionOK(ObjectTerminated)
      /\ ProductionOK(IfTerminated) /\ ProductionOK(WhileTerminated)
      /\ ProductionOK(FunctionTerminated)
  BY <1>1 DEF ArrayTerminated, ObjectTerminated, IfTerminated, WhileTerminated,
     FunctionTerminated, Literals, Objects
<1>4. \A g \in 1..15 : \A i \in DOMAIN Grammars[g] : ProductionOK(Grammars[g][i])
  BY <1>2, <1>3, LiteralOK, WholeOK, NegationOK, BracketsOK, OthersOK DEF Grammars
<1>5. DOMAIN Grammars = 1..15
  BY DEF Grammars
<1> QED
  BY <1>4, <1>5

-----------------------------------------------------------------------------
(* The match of a production is what its state machine has come to after   *)
(* the last node.                                                          *)

Sequence(s) == \E S : s \in Seq(S)

Start == [state |-> "START", moved |-> FALSE, matched |-> <<>>]

MatchUpTo(f, production, ahead, s, n, k) ==
  f = [i \in 0..k |->
         IF i = 0 THEN Start ELSE Visit(production, ahead, f[i - 1], s[Len(s) - n + i])]

LEMMA MatchExists ==
  ASSUME NEW production, NEW ahead, NEW s, NEW n \in Nat, NEW k \in Nat
  PROVE  \E f : MatchUpTo(f, production, ahead, s, n, k)
<1> DEFINE T == {m \in Nat : \E f : MatchUpTo(f, production, ahead, s, n, m)}
<1>1. 0 \in T
  <2>1. MatchUpTo([i \in 0..0 |-> Start], production, ahead, s, n, 0)
    BY DEF MatchUpTo
  <2> QED
    BY <2>1
<1>2. ASSUME NEW m \in T PROVE m + 1 \in T
  <2>1. PICK f : MatchUpTo(f, production, ahead, s, n, m)
    OBVIOUS
  <2> DEFINE last == Visit(production, ahead, f[m], s[Len(s) - n + (m + 1)])
             g == [i \in 0..(m + 1) |-> IF i = m + 1 THEN last ELSE f[i]]
  <2>2. ASSUME NEW i \in 0..(m + 1)
        PROVE  g[i] = IF i = 0 THEN Start
                      ELSE Visit(production, ahead, g[i - 1], s[Len(s) - n + i])
    <3>1. CASE i = m + 1
      <4>1. i # 0 /\ g[i - 1] = f[m] /\ g[i] = last
        BY <3>1
      <4> HIDE DEF g
      <4> QED
        BY <3>1, <4>1
    <3>2. CASE i # m + 1
      <4>1. i \in 0..m /\ g[i] = f[i] /\ (i # 0 => g[i - 1] = f[i - 1])
        BY <3>2
      <4>2. f[i] = IF i = 0 THEN Start
                   ELSE Visit(production, ahead, f[i - 1], s[Len(s) - n + i])
        BY <2>1, <4>1 DEF MatchUpTo
      <4> HIDE DEF g
      <4> QED
        BY <4>1, <4>2
    <3> QED
      BY <3>1, <3>2
  <2>3. g = [i \in 0..(m + 1) |->
               IF i = 0 THEN Start ELSE Visit(production, ahead, g[i - 1], s[Len(s) - n + i])]
    <3>1. g = [i \in 0..(m + 1) |-> g[i]]
      OBVIOUS
    <3> HIDE DEF g
    <3> QED
      BY <2>2, <3>1
  <2>4. MatchUpTo(g, production, ahead, s, n, m + 1)
    BY <2>3 DEF MatchUpTo
  <2> QED
    BY <2>4
<1>3. T = Nat
  BY <1>1, <1>2, EveryNatural
<1> QED
  BY <1>3

(* What a match has taken: nodes of the stack that the production handles, *)
(* at least as many as its state says.                                     *)
MatchOK(production, nodes, i, match) ==
  /\ match = [state |-> match.state, moved |-> match.moved, matched |-> match.matched]
  /\ match.moved \in BOOLEAN
  /\ match.matched \in Seq({node \in nodes : Kind(node) \in DOMAIN production.handlers})
  /\ Len(match.matched) <= i
  /\ Level(production.name, match.state) <= Len(match.matched)

LEMMA VisitOK ==
  ASSUME NEW production, ProductionOK(production), NEW ahead, NEW nodes, NEW node \in nodes,
         NEW i \in Nat, NEW match, MatchOK(production, nodes, i, match)
  PROVE  /\ MatchOK(production, nodes, i + 1, Visit(production, ahead, match, node))
         /\ Visit(production, ahead, match, node).state = "FINISH" =>
              Kind(node) \in DOMAIN production.handlers
<1> DEFINE kind  == Kind(node)
           moves == {m \in production.handlers[kind] : match.state \in m.from /\ ahead \in m.before}
           move  == CHOOSE m \in moves : TRUE
           next  == Visit(production, ahead, match, node)
           Handled == {n \in nodes : Kind(n) \in DOMAIN production.handlers}
<1>1. CASE kind \notin DOMAIN production.handlers
  <2>1. next = [match EXCEPT !.state = "ERROR", !.moved = FALSE]
    BY <1>1 DEF Visit
  <2>2. next = [state |-> "ERROR", moved |-> FALSE, matched |-> match.matched]
    BY <2>1 DEF MatchOK
  <2>3. Level(production.name, "ERROR") = 0
    BY DEF Level
  <2>4. MatchOK(production, nodes, i + 1, next) /\ next.state = "ERROR"
    <3> HIDE DEF next
    <3> QED
      BY <2>2, <2>3 DEF MatchOK
  <2> QED
    BY <2>4
<1>2. CASE kind \in DOMAIN production.handlers /\ moves = {}
  <2>1. next = [match EXCEPT !.moved = @ /\ production.rest = "NO_MOVE"]
    BY <1>2 DEF Visit
  <2>2. next = [state |-> match.state, moved |-> match.moved /\ production.rest = "NO_MOVE",
                matched |-> match.matched]
    BY <2>1 DEF MatchOK
  <2>3. MatchOK(production, nodes, i + 1, next)
    <3> HIDE DEF next, moves
    <3> QED
      BY <1>2, <2>2 DEF MatchOK
  <2> QED
    BY <1>2, <2>3
<1>3. CASE kind \in DOMAIN production.handlers /\ moves # {}
  <2> DEFINE taken == IF move.kept THEN Append(match.matched, node) ELSE match.matched
             moved == \/ move.impact = "MOVE"
                      \/ move.impact = "NO_MOVE" /\ match.moved
  <2>1. next = [state |-> move.to, moved |-> moved, matched |-> taken]
    BY <1>3 DEF Visit
  <2>2. move \in production.handlers[kind] /\ match.state \in move.from
    BY <1>3
  <2>3. /\ move.kept \in BOOLEAN
        /\ Level(production.name, move.to)
             <= Level(production.name, match.state) + (IF move.kept THEN 1 ELSE 0)
    BY <1>3, <2>2 DEF ProductionOK, Gradual
  <2>4. node \in Handled /\ match.matched \in Seq(Handled)
    BY <1>3 DEF MatchOK
  <2>5. taken \in Seq(Handled) /\ Len(taken) = Len(match.matched) + (IF move.kept THEN 1 ELSE 0)
    <3> HIDE DEF Handled, move
    <3>1. CASE move.kept
      BY <2>4, <3>1
    <3>2. CASE ~ move.kept
      BY <2>4, <3>2
    <3> QED
      BY <3>1, <3>2
  <2>6. moved \in BOOLEAN
    OBVIOUS
  <2>7. Level(production.name, move.to) <= Len(taken) /\ Len(taken) <= i + 1
    <3> HIDE DEF taken, move, Handled
    <3>1. /\ Level(production.name, move.to) \in 0..3
          /\ Level(production.name, match.state) \in 0..3
      BY LevelType
    <3>2. Len(match.matched) \in Nat /\ Len(match.matched) <= i
          /\ Level(production.name, match.state) <= Len(match.matched)
      BY <2>4 DEF MatchOK
    <3>3. CASE move.kept
      BY <2>3, <2>5, <3>1, <3>2, <3>3
    <3>4. CASE ~ move.kept
      BY <2>3, <2>5, <3>1, <3>2, <3>4
    <3> QED
      BY <2>3, <3>3, <3>4
  <2>8. MatchOK(production, nodes, i + 1, next)
    <3> HIDE DEF next, taken, moved, move, moves
    <3> QED
      BY <2>1, <2>5, <2>6, <2>7 DEF MatchOK
  <2> QED
    BY <1>3, <2>8
<1> QED
  BY <1>1, <1>2, <1>3

LEMMA WindowOK ==
  ASSUME NEW production, ProductionOK(production), NEW ahead,
         NEW nodes, NEW s \in Seq(nodes), NEW n \in 1..Len(s)
  PROVE  LET match == iterate_over_last_n_nodes(production, ahead, s, n)
         IN  /\ MatchOK(production, nodes, n, match)
             /\ match.state = "FINISH" => Kind(s[Len(s)]) \in DOMAIN production.handlers
<1> DEFINE match[i \in 0..n] ==
             IF i = 0 THEN Start ELSE Visit(production, ahead, match[i - 1], s[Len(s) - n + i])
<1>1. MatchUpTo(match, production, ahead, s, n, n)
  <2>1. \E f : f = [i \in 0..n |->
                     IF i = 0 THEN Start ELSE Visit(production, ahead, f[i - 1], s[Len(s) - n + i])]
    <3>1. n \in Nat
      OBVIOUS
    <3>2. \E f : MatchUpTo(f, production, ahead, s, n, n)
      BY <3>1, MatchExists
    <3> QED
      BY <3>2, Zenon DEF MatchUpTo
  <2> QED
    BY <2>1, Zenon DEF MatchUpTo
<1>2. iterate_over_last_n_nodes(production, ahead, s, n) = match[n]
  BY DEF iterate_over_last_n_nodes, Start
<1> HIDE DEF match
<1>3. match[0] = Start
  BY <1>1 DEF MatchUpTo
<1>4. ASSUME NEW i \in 1..n
      PROVE  match[i] = Visit(production, ahead, match[i - 1], s[Len(s) - n + i])
  BY <1>1 DEF MatchUpTo
<1> DEFINE T == {i \in Nat : i <= n => MatchOK(production, nodes, i, match[i])}
<1>5. 0 \in T
  <2>1. Level(production.name, "START") = 0
    BY DEF Level
  <2>2. MatchOK(production, nodes, 0, match[0])
    BY <1>3, <2>1 DEF MatchOK, Start
  <2> QED
    BY <2>2
<1>6. ASSUME NEW i \in T PROVE i + 1 \in T
  <2> SUFFICES ASSUME i + 1 <= n PROVE MatchOK(production, nodes, i + 1, match[i + 1])
    OBVIOUS
  <2>1. i \in Nat /\ MatchOK(production, nodes, i, match[i])
    OBVIOUS
  <2>2. i + 1 \in 1..n /\ (i + 1) - 1 = i /\ Len(s) - n + (i + 1) \in 1..Len(s)
    BY <2>1
  <2>3. match[i + 1] = Visit(production, ahead, match[i], s[Len(s) - n + (i + 1)])
    BY <1>4, <2>2
  <2>4. s[Len(s) - n + (i + 1)] \in nodes
    BY <2>2
  <2> QED
    BY <2>1, <2>3, <2>4, VisitOK
<1>7. T = Nat
  <2> HIDE DEF T
  <2> QED
    BY <1>5, <1>6, EveryNatural DEF T
<1>8. MatchOK(production, nodes, n, match[n]) /\ MatchOK(production, nodes, n - 1, match[n - 1])
  <2>1. n \in T /\ n - 1 \in T
    BY <1>7
  <2> QED
    BY <2>1
<1>9. match[n] = Visit(production, ahead, match[n - 1], s[Len(s)]) /\ s[Len(s)] \in nodes
  BY <1>4
<1>10. MatchOK(production, nodes, n - 1, match[n - 1]) /\ n - 1 \in Nat
  BY <1>8
<1>11. match[n].state = "FINISH" => Kind(s[Len(s)]) \in DOMAIN production.handlers
  BY <1>9, <1>10, VisitOK
<1> QED
  BY <1>2, <1>8, <1>11

-----------------------------------------------------------------------------
(* The node a production adds.                                             *)

LEMMA KindsOfClasses ==
  ASSUME NEW node
  PROVE  /\ node.class \in Literals => Kind(node) = node.class
         /\ Kind(node) \in Literals => node.class = Kind(node)
         /\ node.class \in Kinds \ (F \cup Objects) => Kind(node) = node.class
         /\ node.class \in {"F", "String", "Object"} => Kind(node) \in F \cup Objects
<1>1. /\ node.class \notin {"F", "String", "Object"} => Kind(node) = node.class
      /\ node.class \in {"F", "String"} => Kind(node) \in F
      /\ node.class = "Object" => Kind(node) \in Objects
  BY DEF Kind, F, Objects
<1>2. Literals \cap {"F", "String", "Object", "DoubleF", "EmptyObject"} = {}
  BY DEF Literals
<1>3. "String" \notin Kinds
  BY DEF Kinds, Token_Type, Arithmetic, Closing, Opening, Literals, Operands, F, Objects, Statments
<1> QED
  BY <1>1, <1>2, <1>3 DEF F, Objects

LEMMA AddedOK ==
  ASSUME NEW name \in Names, NEW nodes, \A node \in nodes : Kind(node) \in Kinds,
         NEW m \in Seq(nodes), Len(m) >= Fewest(name),
         name \in {"terminated", "brackets"} => \A node \in nodes : Kind(node) \notin Literals,
         name = "literal" => \A node \in nodes : Kind(node) \in Literals
  PROVE  /\ Kind(to_add(name, m)) \in Kinds
         /\ name # "whole" => to_add(name, m).class \notin Literals
<1> DEFINE node == to_add(name, m)
           Made == {"FunctionCall", "PrintStatment", "ReturnStatment", "MemberExpression",
                    "BinExpr", "UnExpr", "VaribleAssigmentStatment", "Array", "Object",
                    "ObjectPair", "Scope", "IfStatment", "WhileStatment", "FunctionStatment",
                    "F", "String"}
<1>1. ASSUME node.class \in Made
      PROVE  Kind(node) \in Kinds /\ node.class \notin Literals
  <2> HIDE DEF node
  <2>1. Made \ {"F", "String", "Object"} \subseteq Kinds \ (F \cup Objects)
    BY DEF Kinds, Token_Type, Arithmetic, Closing, Opening, Literals, Operands, F, Objects, Statments
  <2>2. F \cup Objects \subseteq Kinds
    BY DEF Kinds, Operands
  <2>3. Made \cap Literals = {}
    BY DEF Literals
  <2> HIDE DEF Made
  <2>4. CASE node.class \in {"F", "String", "Object"}
    BY <1>1, <2>2, <2>3, <2>4, KindsOfClasses
  <2>5. CASE node.class \notin {"F", "String", "Object"}
    <3>1. node.class \in Kinds \ (F \cup Objects)
      BY <1>1, <2>1, <2>5
    <3> QED
      BY <1>1, <2>3, <3>1, KindsOfClasses
  <2> QED
    BY <2>4, <2>5
<1>2. CASE name = "terminated"
  <2>1. node = m[1] /\ m[1] \in nodes
    BY <1>2 DEF to_add, Fewest
  <2> QED
    BY <1>2, <2>1, KindsOfClasses
<1>3. CASE name = "brackets"
  <2>1. node = m[2] /\ m[2] \in nodes
    BY <1>3 DEF to_add, Fewest
  <2> QED
    BY <1>3, <2>1, KindsOfClasses
<1>4. CASE name = "whole"
  <2>1. node = m[2] /\ m[2] \in nodes
    BY <1>4 DEF to_add, Fewest
  <2> QED
    BY <1>4, <2>1
<1>5. CASE name = "literal"
  <2>1. node = LiteralF(m[1]) /\ m[1] \in nodes
    BY <1>5 DEF to_add, Fewest
  <2>2. m[1].class \in Literals
    BY <1>5, <2>1, KindsOfClasses
  <2>3. node.class \in {"F", "String"}
    BY <2>1, <2>2 DEF LiteralF, Literals, IntF, DoubleF, StringF, Node
  <2> QED
    BY <1>1, <2>3
<1>6. CASE name \in {"call", "print", "return", "element", "property", "negation"}
  <2>1. node.class \in Made
    BY <1>6 DEF to_add, FunctionCall, PrintStatment, ReturnStatment, MemberExpression, UnExpr, Node
  <2> QED
    BY <1>1, <2>1
<1>7. CASE name \in {"arithmetic", "equality", "order"}
  <2>1. node.class \in Made
    BY <1>7 DEF to_add, Operation, BinExpr, Node
  <2> QED
    BY <1>1, <2>1
<1>8. CASE name \in {"declaration", "assigment", "emptyDeclaration", "emptyAssigment"}
  <2>1. node.class \in Made
    BY <1>8 DEF to_add, Assigment, Node
  <2> QED
    BY <1>1, <2>1
<1>9. CASE name \in {"array", "object", "pair", "scope"}
  <2>1. node.class \in Made
    BY <1>9 DEF to_add, ArrayExpr, ObjectExpr, ObjectPair, Scope, Node
  <2> QED
    BY <1>1, <2>1
<1>10. CASE name \in {"if", "while", "function"}
  <2>1. node.class \in Made
    BY <1>10 DEF to_add, Conditional, IfStatment, IfElseStatment, WhileStatment, Node
  <2> QED
    BY <1>1, <2>1
<1> QED
  BY <1>2, <1>3, <1>4, <1>5, <1>6, <1>7, <1>8, <1>9, <1>10 DEF Names

-----------------------------------------------------------------------------
(* What a plan does to the stack: it takes nodes that are there, and it    *)
(* either takes more than it gives or reads a literal.                     *)
PlanOK(s, plan) ==
  LET removed == Len(plan[1].to_remove)
      added   == plan[1].to_add
  IN  /\ removed \in 1..Len(s)
      /\ Kind(added) \in Kinds
      /\ \/ removed >= 3
         \/ removed >= 2 /\ added.class \notin Literals
         \/ s[Len(s)].class \in Literals /\ added.class \notin Literals

OutcomeOK(s, outcome_) ==
  /\ outcome_.progress \in BOOLEAN
  /\ outcome_.plan # NoPlan => PlanOK(s, outcome_.plan)

LEMMA SelectedLast ==
  ASSUME NEW class, NEW nodes, NEW s \in Seq(nodes)
  PROVE  LastOf(class, s) \in 0..Len(s)
<1> DEFINE I == {i \in 1..Len(s) : s[i].class = class}
<1>1. LastOf(class, s) = IF I # {} THEN Max(I) ELSE 0
  BY DEF LastOf, SelectLastInSeq
<1>2. CASE I # {}
  <2>1. PICK x \in I : \A y \in I : x >= y
    <3>1. I \in SUBSET (0..Len(s)) /\ Len(s) \in Nat
      OBVIOUS
    <3> HIDE DEF I
    <3> QED
      BY <1>2, <3>1, LargestElement
  <2>2. Max(I) \in I
    BY <2>1 DEF Max
  <2> QED
    BY <1>1, <1>2, <2>2
<1> QED
  BY <1>1, <1>2

LEMMA SelectedAfter ==
  ASSUME NEW class, NEW nodes, NEW s \in Seq(nodes), NEW i \in 0..Len(s)
  PROVE  FirstAfter(class, s, i) \in 0..Len(s)
<1> DEFINE I == {j \in (i + 1)..Len(s) : s[j].class = class}
<1>1. FirstAfter(class, s, i) = IF I # {} THEN Min(I) ELSE 0
  BY DEF FirstAfter, SelectInSubSeq
<1>2. CASE I # {}
  <2>1. PICK x \in I : \A y \in I : ~ (y < x)
    <3>1. I \in SUBSET Nat
      OBVIOUS
    <3> HIDE DEF I
    <3> QED
      BY <1>2, <3>1, LeastElement
  <2>2. \A y \in I : x <= y
    BY <2>1
  <2>3. Min(I) \in I
    BY <2>2 DEF Min
  <2> QED
    BY <1>1, <1>2, <2>3
<1> QED
  BY <1>1, <1>2

LEMMA NeededInt ==
  ASSUME NEW production, ProductionOK(production), NEW nodes, NEW s \in Seq(nodes)
  PROVE  needed_nodes_size(production, s) \in Int
<1> DEFINE opener == LastOf(production.opener, s)
           open   == FirstAfter("OPEN_CIRCLE_BRACKET", s, opener)
           close  == FirstAfter("CLOSE_CIRCLE_BRACKET", s, open)
<1>1. opener \in 0..Len(s)
  BY SelectedLast
<1>2. open \in 0..Len(s)
  BY <1>1, SelectedAfter
<1>3. close \in 0..Len(s)
  BY <1>2, SelectedAfter
<1>4. needed_nodes_size(production, s) =
        CASE production.opener = "NONE" -> production.extent
          [] opener = 0                 -> 0
          [] production.opener = "FUNCTION" ->
               IF open = 0 \/ close = 0 THEN 0
               ELSE close - open + 1 + production.extent
          [] OTHER -> Len(s) - opener + 1 + production.extent
  BY DEF needed_nodes_size
<1>5. production.extent \in Nat
  BY DEF ProductionOK
<1> HIDE DEF opener, open, close
<1> QED
  BY <1>1, <1>2, <1>3, <1>4, <1>5

LEMMA ProductionPlans ==
  ASSUME NEW production, ProductionOK(production), NEW ahead,
         NEW nodes, \A node \in nodes : Kind(node) \in Kinds,
         NEW s \in Seq(nodes), s # <<>>
  PROVE  OutcomeOK(s, find_grammar_matching_progress(production, s, ahead))
<1> DEFINE size == needed_nodes_size(production, s)
           n    == IF size < Len(s) THEN size ELSE Len(s)
           matches  == [i \in 1..n |-> iterate_over_last_n_nodes(production, ahead, s, i)]
           finished == {i \in DOMAIN matches : matches[i].state = "FINISH"}
           widest   == matches[Max(finished)].matched
           moved    == \E i \in DOMAIN matches : matches[i].moved /\ matches[i].state # "ERROR"
           found    == find_grammar_matching_progress(production, s, ahead)
<1>1. n \in Int /\ n <= Len(s) /\ Len(s) \in Nat \ {0}
  <2>1. size \in Int
    BY NeededInt
  <2> HIDE DEF size
  <2> QED
    BY <2>1
<1>2. found =
        IF finished # {}
        THEN Outcome(Plan(widest, to_add(production.name, widest)), FALSE)
        ELSE Outcome(NoPlan, \/ moved /\ CountsSteps(production, s)
                             \/ IncompleteHeader(production, s))
  BY DEF find_grammar_matching_progress
<1> HIDE DEF n
<1>3. CASE finished # {}
  <2>1. finished \in SUBSET (0..Len(s)) /\ finished \subseteq 1..n
    BY <1>1
  <2>2. PICK last \in finished : \A i \in finished : last >= i
    <3> HIDE DEF finished
    <3> QED
      BY <1>1, <1>3, <2>1, LargestElement
  <2>3. Max(finished) \in finished
    BY <2>2 DEF Max
  <2> DEFINE w     == Max(finished)
             match == iterate_over_last_n_nodes(production, ahead, s, w)
             taken == match.matched
             node  == to_add(production.name, taken)
             Handled == {x \in nodes : Kind(x) \in DOMAIN production.handlers}
  <2>4. w \in 1..n /\ matches[w] = match /\ match.state = "FINISH"
    BY <2>3
  <2>5. w \in 1..Len(s)
    BY <1>1, <2>4
  <2> HIDE DEF w
  <2>6. /\ MatchOK(production, nodes, w, match)
        /\ Kind(s[Len(s)]) \in DOMAIN production.handlers
    BY <2>4, <2>5, WindowOK
  <2>7. found.progress = FALSE /\ found.plan = <<[to_remove |-> taken, to_add |-> node]>>
    <3>1. widest = taken
      BY <2>4 DEF w
    <3> HIDE DEF found, taken, widest, finished
    <3> QED
      BY <1>2, <1>3, <3>1 DEF Outcome, Plan
  <2> HIDE DEF match
  <2>8. /\ taken \in Seq(Handled) /\ Len(taken) <= w
        /\ Level(production.name, "FINISH") <= Len(taken)
    BY <2>4, <2>6 DEF MatchOK
  <2>9. Level(production.name, "FINISH") = Fewest(production.name)
    BY DEF Level
  <2>10. /\ production.name \in {"terminated", "brackets"} => \A x \in Handled : Kind(x) \notin Literals
         /\ production.name = "literal" => \A x \in Handled : Kind(x) \in Literals
         /\ production.name \in Names
         /\ production.name = "literal" => Kind(s[Len(s)]) \in Literals
    BY <2>6 DEF ProductionOK
  <2>11. Fewest(production.name) \in 1..3 /\ Len(taken) \in Nat
    BY <2>8 DEF Fewest
  <2> HIDE DEF taken
  <2>12. /\ Kind(node) \in Kinds
         /\ production.name # "whole" => node.class \notin Literals
    <3>1. \A x \in Handled : Kind(x) \in Kinds
      OBVIOUS
    <3>2. Len(taken) >= Fewest(production.name)
      BY <2>8, <2>9, <2>11
    <3> HIDE DEF Handled
    <3> QED
      BY <2>8, <2>10, <3>1, <3>2, AddedOK
  <2>13. production.name = "literal" => s[Len(s)].class \in Literals
    BY <2>10, KindsOfClasses
  <2>14. /\ production.name = "whole" => Len(taken) >= 3
         /\ production.name \notin {"whole", "literal"} => Len(taken) >= 2
         /\ Len(taken) \in 1..Len(s)
    <3>1. /\ production.name = "whole" => Fewest(production.name) = 3
          /\ production.name \notin {"whole", "literal"} => Fewest(production.name) = 2
      BY DEF Fewest
    <3> QED
      BY <1>1, <2>5, <2>8, <2>9, <2>11, <3>1
  <2>15. OutcomeOK(s, found)
    <3> HIDE DEF node, found
    <3>1. PlanOK(s, found.plan)
      BY <2>7, <2>12, <2>13, <2>14 DEF PlanOK
    <3> QED
      BY <2>7, <3>1 DEF OutcomeOK
  <2> QED
    BY <2>15
<1>4. CASE finished = {}
  <2>1. moved \in BOOLEAN /\ CountsSteps(production, s) \in BOOLEAN
        /\ IncompleteHeader(production, s) \in BOOLEAN
    BY DEF CountsSteps, IncompleteHeader
  <2>2. found.plan = NoPlan
        /\ found.progress = ((moved /\ CountsSteps(production, s)) \/ IncompleteHeader(production, s))
    <3> HIDE DEF found, moved, finished
    <3> QED
      BY <1>2, <1>4 DEF Outcome
  <2>3. OutcomeOK(s, found)
    <3> HIDE DEF found, moved
    <3> QED
      BY <2>1, <2>2 DEF OutcomeOK
  <2> QED
    BY <2>3
<1> QED
  BY <1>3, <1>4

LEMMA FirstPlanOK ==
  ASSUME NEW s, NEW outcomes, DOMAIN outcomes \subseteq Nat,
         \A i \in DOMAIN outcomes : OutcomeOK(s, outcomes[i])
  PROVE  OutcomeOK(s, FirstPlan(outcomes))
<1> DEFINE planners == {i \in DOMAIN outcomes : outcomes[i].plan # NoPlan}
           Progress(indices) == \E i \in indices : outcomes[i].progress
           first == FirstPlan(outcomes)
<1>1. first = IF planners = {}
              THEN Outcome(NoPlan, Progress(DOMAIN outcomes))
              ELSE Outcome(outcomes[Min(planners)].plan, Progress(1 .. Min(planners) - 1))
  BY DEF FirstPlan
<1>2. \A indices : Progress(indices) \in BOOLEAN
  OBVIOUS
<1>3. CASE planners = {}
  <2>1. first.plan = NoPlan /\ first.progress = Progress(DOMAIN outcomes)
    <3> HIDE DEF first, planners, Progress
    <3> QED
      BY <1>1, <1>3 DEF Outcome
  <2>2. OutcomeOK(s, first)
    <3> HIDE DEF first, Progress
    <3> QED
      BY <1>2, <2>1 DEF OutcomeOK
  <2> QED
    BY <2>2
<1>4. CASE planners # {}
  <2>1. PICK x \in planners : \A y \in planners : ~ (y < x)
    <3>1. planners \in SUBSET Nat
      OBVIOUS
    <3> HIDE DEF planners
    <3> QED
      BY <1>4, <3>1, LeastElement
  <2>2. x \in Nat /\ \A y \in planners : y \in Nat /\ x <= y
    BY <2>1
  <2>3. Min(planners) \in planners
    <3> HIDE DEF planners
    <3> QED
      BY <2>2 DEF Min
  <2>4. first.plan = outcomes[Min(planners)].plan
        /\ first.progress = Progress(1 .. Min(planners) - 1)
    <3> HIDE DEF first, planners, Progress
    <3> QED
      BY <1>1, <1>4 DEF Outcome
  <2>5. PlanOK(s, outcomes[Min(planners)].plan)
    BY <2>3 DEF OutcomeOK
  <2>6. OutcomeOK(s, first)
    <3> HIDE DEF first, Progress, planners
    <3> QED
      BY <1>2, <2>4, <2>5 DEF OutcomeOK
  <2> QED
    BY <2>6
<1> QED
  BY <1>3, <1>4

LEMMA PassOK ==
  ASSUME NEW ahead, NEW nodes, \A node \in nodes : Kind(node) \in Kinds,
         NEW s \in Seq(nodes), s # <<>>
  PROVE  OutcomeOK(s, Pass(s, ahead))
<1>1. /\ DOMAIN Grammars \subseteq Nat
      /\ \A g \in DOMAIN Grammars : DOMAIN Grammars[g] \subseteq Nat
  <2>1. DOMAIN Grammars = 1..15
    BY DEF Grammars
  <2>2. \A g \in 1..15 : DOMAIN Grammars[g] \subseteq Nat
    BY SMTT(30) DEF Grammars
  <2> QED
    BY <2>1, <2>2
<1>2. ASSUME NEW g \in DOMAIN Grammars PROVE OutcomeOK(s, TryReduce(Grammars[g], s, ahead))
  <2> DEFINE outcomes == [p \in DOMAIN Grammars[g] |->
                            find_grammar_matching_progress(Grammars[g][p], s, ahead)]
             first == FirstPlan(outcomes)
  <2>1. \A p \in DOMAIN outcomes : OutcomeOK(s, outcomes[p])
    BY GrammarsOK, ProductionPlans
  <2>2. DOMAIN outcomes \subseteq Nat
    BY <1>1
  <2>3. OutcomeOK(s, first)
    <3> HIDE DEF outcomes
    <3> QED
      BY <2>1, <2>2, FirstPlanOK
  <2>4. TryReduce(Grammars[g], s, ahead)
          = [plan |-> first.plan, progress |-> first.plan = NoPlan /\ first.progress]
    BY DEF TryReduce, Outcome
  <2> HIDE DEF first
  <2> QED
    BY <2>3, <2>4 DEF OutcomeOK
<1> DEFINE outcomes == [g \in DOMAIN Grammars |-> TryReduce(Grammars[g], s, ahead)]
<1>3. DOMAIN outcomes \subseteq Nat /\ \A g \in DOMAIN outcomes : OutcomeOK(s, outcomes[g])
  BY <1>1, <1>2
<1>4. OutcomeOK(s, FirstPlan(outcomes))
  <2> HIDE DEF outcomes
  <2> QED
    BY <1>3, FirstPlanOK
<1> QED
  BY <1>4 DEF Pass

-----------------------------------------------------------------------------
(* The literals on the stack that have not been read yet. *)
Unread(s) == {i \in 1..Len(s) : s[i].class \in Literals}

LEMMA UnreadFinite ==
  ASSUME NEW nodes, NEW s \in Seq(nodes)
  PROVE  IsFiniteSet(Unread(s)) /\ Cardinality(Unread(s)) \in Nat
<1>1. Unread(s) \subseteq 1..Len(s) /\ IsFiniteSet(1..Len(s))
  BY FS_Interval DEF Unread
<1> QED
  BY <1>1, FS_Subset, FS_CardinalityType

(* A plan takes some nodes off the stack and adds one. *)
LEMMA Replaced ==
  ASSUME NEW nodes, NEW s \in Seq(nodes), NEW k \in 0..Len(s), NEW node
  PROVE  LET next == Append(SubSeq(s, 1, Len(s) - k), node)
         IN  /\ next \in Seq(nodes \cup {node})
             /\ Len(next) = Len(s) - k + 1
             /\ \A i \in 1..(Len(s) - k) : next[i] = s[i]
             /\ next[Len(s) - k + 1] = node
<1> DEFINE kept == SubSeq(s, 1, Len(s) - k)
<1>1. kept \in Seq(nodes) /\ Len(kept) = Len(s) - k /\ \A i \in 1..(Len(s) - k) : kept[i] = s[i]
  OBVIOUS
<1>2. kept \in Seq(nodes \cup {node})
  BY <1>1
<1> HIDE DEF kept
<1>3. /\ Append(kept, node) \in Seq(nodes \cup {node})
      /\ Len(Append(kept, node)) = Len(s) - k + 1
      /\ \A i \in 1..(Len(s) - k) : Append(kept, node)[i] = s[i]
      /\ Append(kept, node)[Len(s) - k + 1] = node
  BY <1>1, <1>2
<1> QED
  BY <1>3 DEF kept

LEMMA UnreadAfter ==
  ASSUME NEW nodes, NEW s \in Seq(nodes), NEW k \in 0..Len(s), NEW node
  PROVE  LET next == Append(SubSeq(s, 1, Len(s) - k), node)
         IN  /\ Cardinality(Unread(next)) <= Cardinality(Unread(s)) + 1
             /\ node.class \notin Literals => Cardinality(Unread(next)) <= Cardinality(Unread(s))
             /\ node.class \notin Literals /\ k > 0 /\ s[Len(s)].class \in Literals =>
                  Cardinality(Unread(next)) <= Cardinality(Unread(s)) - 1
<1> DEFINE next == Append(SubSeq(s, 1, Len(s) - k), node)
           top  == Len(s) - k + 1
<1>1. /\ next \in Seq(nodes \cup {node}) /\ Len(next) = top
      /\ \A i \in 1..(Len(s) - k) : next[i] = s[i]
      /\ next[top] = node
  BY Replaced
<1> HIDE DEF next
<1>2. /\ IsFiniteSet(Unread(s)) /\ Cardinality(Unread(s)) \in Nat
      /\ IsFiniteSet(Unread(next)) /\ Cardinality(Unread(next)) \in Nat
  BY <1>1, UnreadFinite
<1>3. Unread(next) \subseteq Unread(s) \cup {top}
  BY <1>1 DEF Unread
<1>4. node.class \notin Literals => Unread(next) \subseteq Unread(s)
  BY <1>1 DEF Unread
<1>5. Cardinality(Unread(next)) <= Cardinality(Unread(s)) + 1
  <2> HIDE DEF top
  <2>1. /\ IsFiniteSet(Unread(s) \cup {top})
        /\ Cardinality(Unread(s) \cup {top}) <= Cardinality(Unread(s)) + 1
        /\ Cardinality(Unread(s) \cup {top}) \in Nat
    <3>1. IsFiniteSet(Unread(s) \cup {top})
      BY <1>2, FS_AddElement
    <3>2. Cardinality(Unread(s) \cup {top})
            = IF top \in Unread(s) THEN Cardinality(Unread(s)) ELSE Cardinality(Unread(s)) + 1
      BY <1>2, FS_AddElement
    <3> QED
      BY <1>2, <3>1, <3>2
  <2>2. Cardinality(Unread(next)) <= Cardinality(Unread(s) \cup {top})
    BY <1>3, <2>1, FS_Subset
  <2> QED
    BY <1>2, <2>1, <2>2
<1>6. ASSUME node.class \notin Literals
      PROVE  Cardinality(Unread(next)) <= Cardinality(Unread(s))
  BY <1>2, <1>4, <1>6, FS_Subset
<1>7. ASSUME node.class \notin Literals, k > 0, s[Len(s)].class \in Literals
      PROVE  Cardinality(Unread(next)) <= Cardinality(Unread(s)) - 1
  <2>1. Len(s) \in Unread(s)
    BY <1>7 DEF Unread
  <2>2. Unread(next) \subseteq Unread(s) \ {Len(s)}
    BY <1>1, <1>7 DEF Unread
  <2>3. /\ IsFiniteSet(Unread(s) \ {Len(s)})
        /\ Cardinality(Unread(s) \ {Len(s)}) = Cardinality(Unread(s)) - 1
    BY <1>2, <2>1, FS_RemoveElement
  <2>4. Cardinality(Unread(next)) <= Cardinality(Unread(s) \ {Len(s)})
    BY <2>2, <2>3, FS_Subset
  <2> QED
    BY <2>3, <2>4
<1> QED
  BY <1>5, <1>6, <1>7 DEF next

-----------------------------------------------------------------------------
(* The inductive invariant.  LinearWork is not inductive by itself: reading*)
(* a literal is a plan that does not make the stack shorter, so a literal  *)
(* that is still to be read has to be paid for when it is pushed.          *)
WorkInv ==
  /\ TypeOK
  /\ Sequence(stack)
  /\ plans \in Nat
  /\ plans + Len(stack) + Cardinality(Unread(stack)) <= 2 * position

LEMMA TextKnown ==
  ASSUME NEW t \in DOMAIN Texts
  PROVE  /\ Len(Texts[t]) \in Nat /\ Len(Texts[t]) >= 2
         /\ Texts[t][1].type = "BOL"
         /\ \A i \in 1..Len(Texts[t]) : Texts[t][i].type \in Token_Type
<1> DEFINE Tokens == [type : Token_Type, str : STRING, int : Int]
<1>1. Texts[t] \in Seq(Tokens) /\ Len(Texts[t]) >= 2 /\ Texts[t][1].type = "BOL"
  BY TextsAssumption
<1>2. \A token \in Tokens : token.type \in Token_Type
  OBVIOUS
<1> HIDE DEF Tokens
<1>3. Len(Texts[t]) \in Nat /\ \A i \in 1..Len(Texts[t]) : Texts[t][i] \in Tokens
  BY <1>1
<1> QED
  BY <1>1, <1>2, <1>3

LEMMA TokenNode ==
  ASSUME NEW t \in DOMAIN Texts, NEW i \in 1..Len(Texts[t])
  PROVE  Kind(createSyntaxNodeFromToken(Texts[t][i])) \in Kinds
<1> DEFINE token == Texts[t][i]
           node  == createSyntaxNodeFromToken(token)
<1>1. token.type \in Token_Type
  BY TextKnown
<1>2. node.class = IF token.type = "NAME" THEN "Name" ELSE token.type
  BY DEF createSyntaxNodeFromToken, NameNode, Node
<1> HIDE DEF token
<1>3. node.class \in Kinds \ (F \cup Objects)
  <2> HIDE DEF node
  <2>1. "Name" \in Kinds \ (F \cup Objects)
    BY DEF Kinds, Operands, F, Objects
  <2>2. Token_Type \ {"NAME"} \subseteq Kinds
    BY DEF Kinds
  <2>3. Token_Type \cap (F \cup Objects) = {}
    BY DEF Token_Type, Arithmetic, Closing, Opening, Literals, F, Objects
  <2> QED
    BY <1>1, <1>2, <2>1, <2>2, <2>3
<1> QED
  BY <1>3, KindsOfClasses DEF token

LEMMA WorkInit == CountedInit => WorkInv
<1> SUFFICES ASSUME CountedInit PROVE WorkInv
  OBVIOUS
<1> DEFINE node == createSyntaxNodeFromToken(tokens[1])
<1>1. /\ text \in DOMAIN Texts /\ position = 1 /\ progress = FALSE /\ outcome = "parsing"
      /\ plans = 0 /\ stack = <<node>>
  BY DEF CountedInit, Init
<1>2. Len(tokens) \in Nat /\ 1 \in 1..Len(tokens) /\ tokens[1].type = "BOL"
  BY <1>1, TextKnown DEF tokens
<1>3. Kind(node) \in Kinds
  BY <1>1, <1>2, TokenNode DEF tokens
<1>4. node.class = "BOL"
  BY <1>2 DEF createSyntaxNodeFromToken, Node
<1> HIDE DEF node
<1>5. /\ Len(stack) = 1 /\ stack \in Seq({node}) /\ DOMAIN stack = 1..1 /\ stack[1] = node
  BY <1>1
<1>6. Unread(stack) = {}
  BY <1>4, <1>5 DEF Unread, Literals
<1>7. Cardinality(Unread(stack)) = 0
  BY <1>6, FS_EmptySet
<1>8. TypeOK
  <2>1. position \in 1..Len(tokens) /\ Len(stack) \in 1..position
    BY <1>1, <1>2, <1>5
  <2>2. \A i \in DOMAIN stack : Kind(stack[i]) \in Kinds
    <3>1. \A i \in DOMAIN stack : i = 1
      BY <1>5
    <3> QED
      BY <1>3, <1>5, <3>1
  <2>3. /\ text \in DOMAIN Texts /\ progress \in BOOLEAN
        /\ outcome \in {"parsing", "parsed", "syntaxError", "notAllNodesReduced"}
    BY <1>1
  <2> QED
    BY <2>1, <2>2, <2>3 DEF TypeOK
<1>9. Sequence(stack)
  BY <1>5 DEF Sequence
<1> QED
  BY <1>1, <1>5, <1>7, <1>8, <1>9 DEF WorkInv

LEMMA ReduceKeeps ==
  ASSUME WorkInv, NEW pass, pass = Pass(stack, look_ahead), Reduce(pass), CountedNext
  PROVE  WorkInv'
<1>1. PICK S : stack \in Seq(S)
  BY DEF WorkInv, Sequence
<1> DEFINE nodes == {stack[i] : i \in DOMAIN stack}
           k     == Len(pass.plan[1].to_remove)
           node  == pass.plan[1].to_add
<1>2. stack \in Seq(nodes) /\ DOMAIN stack = 1..Len(stack) /\ Len(stack) \in Nat
  BY <1>1
<1>3. \A x \in nodes : Kind(x) \in Kinds
  BY DEF WorkInv, TypeOK
<1>4. stack # <<>> /\ Len(stack) \in 1..position /\ position \in Nat
  BY <1>2 DEF WorkInv, TypeOK
<1>5. OutcomeOK(stack, pass)
  <2> HIDE DEF nodes
  <2> QED
    BY <1>2, <1>3, <1>4, PassOK
<1>6. PlanOK(stack, pass.plan) /\ pass.progress \in BOOLEAN
  BY <1>5 DEF OutcomeOK, Reduce
<1>7. /\ k \in 1..Len(stack)
      /\ Kind(node) \in Kinds
      /\ \/ k >= 3
         \/ k >= 2 /\ node.class \notin Literals
         \/ stack[Len(stack)].class \in Literals /\ node.class \notin Literals
  BY <1>6 DEF PlanOK
<1>8. /\ stack' = Append(SubSeq(stack, 1, Len(stack) - k), node)
      /\ text' = text /\ position' = position /\ outcome' = outcome /\ outcome = "parsing"
      /\ progress' = (progress \/ pass.progress)
  BY DEF Reduce
<1>9. plans' = plans + 1
  BY <1>8 DEF CountedNext, AppliesPlan
<1> HIDE DEF k, node, nodes
<1>10. /\ stack' \in Seq(nodes \cup {node})
       /\ Len(stack') = Len(stack) - k + 1
       /\ \A i \in 1..(Len(stack) - k) : stack'[i] = stack[i]
       /\ stack'[Len(stack) - k + 1] = node
  BY <1>2, <1>7, <1>8, Replaced
<1>11. /\ Cardinality(Unread(stack')) <= Cardinality(Unread(stack)) + 1
       /\ node.class \notin Literals =>
            Cardinality(Unread(stack')) <= Cardinality(Unread(stack))
       /\ node.class \notin Literals /\ stack[Len(stack)].class \in Literals =>
            Cardinality(Unread(stack')) <= Cardinality(Unread(stack)) - 1
  BY <1>2, <1>7, <1>8, UnreadAfter
<1>12. Cardinality(Unread(stack)) \in Nat /\ Cardinality(Unread(stack')) \in Nat
  BY <1>2, <1>10, UnreadFinite
<1>13. plans \in Nat /\ plans + Len(stack) + Cardinality(Unread(stack)) <= 2 * position
  BY DEF WorkInv
<1>14. plans' + Len(stack') + Cardinality(Unread(stack')) <= 2 * position'
  <2> DEFINE before == Cardinality(Unread(stack))
             after  == Cardinality(Unread(stack'))
  <2>1. before \in Nat /\ after \in Nat /\ k \in Nat /\ position' = position
        /\ plans' = plans + 1 /\ Len(stack') = Len(stack) - k + 1
        /\ plans + Len(stack) + before <= 2 * position
    BY <1>2, <1>7, <1>8, <1>9, <1>10, <1>12, <1>13
  <2>2. \/ k >= 3 /\ after <= before + 1
        \/ k >= 2 /\ after <= before
        \/ k >= 1 /\ after <= before - 1
    BY <1>7, <1>11
  <2> HIDE DEF before, after
  <2>3. plans' + Len(stack') + after <= 2 * position'
    BY <1>2, <1>4, <1>13, <2>1, <2>2
  <2> QED
    BY <2>3 DEF after
<1>15. \A i \in 1..Len(stack') : Kind(stack'[i]) \in Kinds
  BY <1>2, <1>3, <1>7, <1>10 DEF WorkInv, TypeOK
<1>16. DOMAIN stack' = 1..Len(stack')
  BY <1>10
<1>17. TypeOK'
  BY <1>2, <1>4, <1>6, <1>7, <1>8, <1>10, <1>15, <1>16 DEF WorkInv, TypeOK, tokens
<1> QED
  BY <1>9, <1>10, <1>13, <1>14, <1>17 DEF WorkInv, Sequence

LEMMA ShiftKeeps ==
  ASSUME WorkInv, NEW pass, Shift(pass), CountedNext
  PROVE  WorkInv'
<1>1. PICK S : stack \in Seq(S)
  BY DEF WorkInv, Sequence
<1> DEFINE node == createSyntaxNodeFromToken(tokens[position'])
<1>2. /\ position' = position + 1 /\ position < Len(tokens)
      /\ stack' = Append(stack, node)
      /\ text' = text /\ outcome' = outcome /\ progress' = FALSE
  BY DEF Shift
<1>3. text \in DOMAIN Texts /\ position \in 1..Len(tokens) /\ Len(tokens) \in Nat
  BY TextKnown DEF WorkInv, TypeOK, tokens
<1>4. position' \in 1..Len(tokens) /\ position' # position
  BY <1>2, <1>3
<1>5. Kind(node) \in Kinds
  BY <1>3, <1>4, TokenNode DEF tokens
<1>6. plans' = plans
  BY <1>4 DEF CountedNext, AppliesPlan
<1> HIDE DEF node
<1>7. stack = SubSeq(stack, 1, Len(stack) - 0) /\ Len(stack) \in Nat /\ DOMAIN stack = 1..Len(stack)
  BY <1>1
<1>8. /\ stack' \in Seq(S \cup {node}) /\ Len(stack') = Len(stack) + 1
      /\ \A i \in 1..Len(stack) : stack'[i] = stack[i]
      /\ stack'[Len(stack) + 1] = node
  BY <1>1, <1>2
<1>9. Cardinality(Unread(stack')) <= Cardinality(Unread(stack)) + 1
  <2>1. 0 \in 0..Len(stack) /\ Append(SubSeq(stack, 1, Len(stack) - 0), node) = stack'
    BY <1>2, <1>7
  <2>2. Cardinality(Unread(Append(SubSeq(stack, 1, Len(stack) - 0), node)))
          <= Cardinality(Unread(stack)) + 1
    BY <1>1, <2>1, UnreadAfter
  <2> QED
    BY <2>1, <2>2
<1>10. Cardinality(Unread(stack)) \in Nat /\ Cardinality(Unread(stack')) \in Nat
  BY <1>1, <1>8, UnreadFinite
<1>11. plans \in Nat /\ plans + Len(stack) + Cardinality(Unread(stack)) <= 2 * position
  BY DEF WorkInv
<1>12. plans' + Len(stack') + Cardinality(Unread(stack')) <= 2 * position'
  BY <1>2, <1>3, <1>6, <1>7, <1>8, <1>9, <1>10, <1>11
<1>13. DOMAIN stack' = 1..Len(stack')
  BY <1>8
<1>14. \A i \in 1..Len(stack') : Kind(stack'[i]) \in Kinds
  BY <1>5, <1>7, <1>8 DEF WorkInv, TypeOK
<1>15. TypeOK'
  <2>1. Len(stack') \in 1..position'
    BY <1>2, <1>3, <1>7, <1>8 DEF WorkInv, TypeOK
  <2> QED
    BY <2>1, <1>2, <1>3, <1>4, <1>7, <1>8, <1>13, <1>14 DEF WorkInv, TypeOK, tokens
<1> QED
  BY <1>6, <1>8, <1>11, <1>12, <1>15 DEF WorkInv, Sequence

LEMMA WorkStep == WorkInv /\ [CountedNext]_<<vars, plans>> => WorkInv'
<1> SUFFICES ASSUME WorkInv, [CountedNext]_<<vars, plans>> PROVE WorkInv'
  OBVIOUS
<1>1. ASSUME UNCHANGED vars, plans' = plans PROVE WorkInv'
  BY <1>1 DEF vars, WorkInv, TypeOK, Sequence, Unread, tokens
<1>2. CASE UNCHANGED <<vars, plans>>
  BY <1>1, <1>2
<1>3. ASSUME CountedNext, NEW pass, pass = Pass(stack, look_ahead), GiveUp(pass) \/ Finish(pass)
      PROVE  WorkInv'
  <2>1. UNCHANGED <<text, position, stack, progress>>
    BY <1>3 DEF GiveUp, Finish
  <2>2. outcome' \in {"parsed", "syntaxError", "notAllNodesReduced"}
    BY <1>3 DEF GiveUp, Finish
  <2>3. plans' = plans
    BY <1>3, <2>2 DEF CountedNext, AppliesPlan
  <2> QED
    BY <2>1, <2>2, <2>3 DEF WorkInv, TypeOK, Sequence, Unread, tokens
<1>4. CASE CountedNext
  <2>1. CASE Finished
    <3>1. plans' = plans
      BY <1>4, <2>1 DEF CountedNext, AppliesPlan, Finished, vars
    <3> QED
      BY <1>1, <2>1, <3>1 DEF Finished
  <2>2. CASE Parse
    <3>1. PICK pass : /\ pass = Pass(stack, look_ahead)
                      /\ Reduce(pass) \/ Shift(pass) \/ GiveUp(pass) \/ Finish(pass)
      BY <2>2 DEF Parse
    <3> QED
      BY <1>3, <1>4, <3>1, ReduceKeeps, ShiftKeeps
  <2> QED
    BY <1>4, <2>1, <2>2 DEF CountedNext, Next
<1> QED
  BY <1>2, <1>4

LEMMA WorkInvariance == CountedSpec => []WorkInv
BY WorkInit, WorkStep, PTL DEF CountedSpec

(* In every parse of every text, well-formed or not, the stack holds nodes *)
(* of the kinds the productions know, at least one and at most one for     *)
(* each token that was pushed.                                             *)
THEOREM ParserTypeCorrect == CountedSpec => []TypeOK
<1>1. WorkInv => TypeOK
  BY DEF WorkInv
<1> QED
  BY <1>1, WorkInvariance, PTL

(* The loop of AbstractSyntaxTree's constructor starts over at the first   *)
(* grammar after every plan, but it applies at most two plans for each     *)
(* token, whatever the text: no production feeds itself.                   *)
THEOREM WorkIsLinear == CountedSpec => []LinearWork
<1>1. WorkInv => LinearWork
  <2> SUFFICES ASSUME WorkInv PROVE LinearWork
    OBVIOUS
  <2>1. PICK S : stack \in Seq(S)
    BY DEF WorkInv, Sequence
  <2>2. Cardinality(Unread(stack)) \in Nat
    BY <2>1, UnreadFinite
  <2>3. position \in Nat /\ Len(stack) \in Nat
    BY <2>1, TextKnown DEF WorkInv, TypeOK, tokens
  <2> QED
    BY <2>2, <2>3 DEF WorkInv, LinearWork
<1> QED
  BY <1>1, WorkInvariance, PTL
=============================================================================
