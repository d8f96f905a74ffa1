------------------------------ MODULE MCWalker ------------------------------
(***************************************************************************)
(* The programs the tree walker is checked with: those the bytecode        *)
(* interpreter is checked with, or every so many of them.                  *)
(***************************************************************************)
EXTENDS WalkerProperties, ControlFlow, MCPrograms, LanguageSemantics

Every(n, family) == [i \in 1 .. Len(family) \div n |-> family[n * i]]

Without(Excluded(_), family) == SelectSeq(family, LAMBDA name : ~ Excluded(name.number))

Names ==
  EscapingClosures \o HigherOrderPrograms \o UnwindingPrograms
    \o Every(5, SlotPrograms)
    \o Every(5, Numbered("data", 3456)) \o NestingPrograms
    \o Without(DividesByZero, Every(3, Numbered("operators", 1210)))

(* A container that holds itself, as the language means the program, would *)
(* be shown without end.                                                   *)
HoldsItself(name) ==
  \/ name.family = "nesting"
  \/ name.family = "data" /\ MakesCycle(name.number)

WithoutEnd == [output |-> <<>>, result |-> <<"without end">>]

(* Written out as sequences, so that TLC computes them once. *)
Graphs ==
  LET names == Names IN [p \in DOMAIN names |-> ControlFlowGraph(Tree(names[p]))] \o <<>>
Intended ==
  LET names == Names
  IN  [p \in DOMAIN names |->
         IF HoldsItself(names[p]) THEN WithoutEnd ELSE Meaning(Tree(names[p]))] \o <<>>

(* The values of the constants.  Each LET keeps the statistics of TLC from *)
(* unfolding the programs wherever a constant is mentioned.                *)
MCGraph    == LET graphs == Graphs IN graphs
MCMeanings == LET meanings == Intended IN meanings

MCProgram  == LET programs == DOMAIN Names IN programs

(* The programs that show what goes wrong. *)
LeftOverPrograms ==
  LET names == Names
  IN  {p \in DOMAIN names :
         names[p].family = "unwinding" /\ LeavesOperand(names[p].number)}

-----------------------------------------------------------------------------
(* What the tree walker does not do as the language means it.              *)

(* The program ends in an error, which the walker does not look out for.   *)
Erroneous == Meanings[program].result = <<"thrown">>

In(family) == Names[program].family = family
Number     == Names[program].number

(* The cycle breaker cuts more than cycles, as in the virtual machine.     *)
CutShort ==
  \/ In("closures") /\ Recursive(Number)
  \/ In("higher order") /\ HeldByMaker(Number)

(* Arrays and objects are copied where the language shares them, grow when *)
(* they are read, and keep the last of two pairs with the same key.        *)
CopiedOrGrown ==
  \/ HoldsItself(Names[program])
  \/ In("data") /\ SharesOrReadsPast(Number)

(* What a statement computes and nobody takes stays on the operand stack,  *)
(* under the result of the function it is in.                              *)
LeftOver == In("unwinding") /\ LeavesOperand(Number)

(* A minus in front of an expression does nothing: a program that prints y *)
(* and returns - y returns what it printed.  A function compared with a    *)
(* function recurses without end.                                          *)
MinusIgnored ==
  /\ In("operators")
  /\ \/ Negates(Number)
     \/ output = Meanings[program].output /\ Observed.result = Last(output)

Endless == In("operators") /\ ComparesFunctions(Number)

(* But for these, every program runs as it is meant to. *)
WalkedAsMeant ==
  \/ status = "walking"
  \/ Erroneous
  \/ CutShort
  \/ CopiedOrGrown
  \/ LeftOver
  \/ MinusIgnored
  \/ Endless
  \/ WalksAsMeant
=============================================================================
