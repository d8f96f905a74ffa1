------------------------------- MODULE Chains -------------------------------
(***************************************************************************)
(* Operands joined by operators, without brackets, and the tree such a     *)
(* chain stands for: * and / bind tighter than + and -, these tighter than *)
(* the comparisons.  As the tests of the parser have it, operators of one  *)
(* arithmetic level nest to the right: 1-2-3 is 1-(2-3).  Comparisons nest *)
(* to the left.                                                            *)
(***************************************************************************)
EXTENDS SourceText

Sums     == {"ADD", "SUB"}
Products == {"MUL", "DIV"}
Levels   == <<Comparisons, Sums, Products>>

RECURSIVE ChainTree(_, _)
ChainTree(operands, operators) ==
  LET Of(level) == {i \in DOMAIN operators : operators[i] \in Levels[level]}
      loosest   == Min({level \in DOMAIN Levels : Of(level) # {}})
      split     == IF loosest = 1 THEN Max(Of(loosest)) ELSE Min(Of(loosest))
  IN  IF operators = <<>> THEN operands[1]
      ELSE BinExpr(operators[split],
                   ChainTree(SubSeq(operands, 1, split), SubSeq(operators, 1, split - 1)),
                   ChainTree(SubSeq(operands, split + 1, Len(operands)),
                             SubSeq(operators, split + 1, Len(operators))))

ChainText(operands, operators) ==
  Text(operands[1]) \o FlattenSeq([i \in DOMAIN operators |->
    OperatorTokens(operators[i]) \o Text(operands[i + 1])])

-----------------------------------------------------------------------------
(* The chains that are read otherwise. *)

(* a / b * c + d, with any number of products in the middle: the sum is    *)
(* taken into the divisor.                                                 *)
DividesBeforeSum(operators) ==
  \E i, k \in DOMAIN operators :
    /\ i + 1 < k
    /\ operators[i] = "DIV" /\ operators[k] \in Sums
    /\ \A j \in i + 1 .. k - 1 : operators[j] \in Products

(* a + b != c: the comparison is made before the arithmetic. *)
UnequalAfterArithmetic(operators) ==
  \E i \in 2 .. Len(operators) :
    operators[i] = "NEQ" /\ operators[i - 1] \in Sums \cup Products

(* -a - b + c: the second minus is taken for the sign of b. *)
MinusAfterNegative(operators, negative) ==
  negative \in 1 .. Len(operators) - 1 /\ operators[negative] = "SUB"
=============================================================================
