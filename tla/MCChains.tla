------------------------------ MODULE MCChains ------------------------------
(***************************************************************************)
(* Every chain of up to four operators, in the places of a program.        *)
(***************************************************************************)
EXTENDS Chains

Operators == <<"ADD", "SUB", "MUL", "DIV", "EQ", "LT">>
MoreOperators == Operators \o <<"NEQ", "GTE">>

(* A chain, the operand that is negative (0: none), and its place. *)
Chain(operators, negative, place) ==
  [operators |-> operators, negative |-> negative, place |-> place]

Atoms == <<IntF(1), Varible("x"), IntF(3), Varible("y"), IntF(5)>>

OperandsIn(chain) ==
  [i \in 1 .. Len(chain.operators) + 1 |->
    IF i = chain.negative THEN UnExpr(Atoms[i]) ELSE Atoms[i]]

(* The places, each a program with a hole. *)
Place(e) ==
  << <<Set("x", e)>>,
     <<PrintStatment(e)>>,
     <<e>>,
     <<Set("x", FunctionCall(Varible("f"), <<e, IntF(1)>>))>>,
     <<Set("x", MemberExpression(Varible("a"), e))>>,
     <<WhileStatment(e, Scope(<<>>))>> >>

Places == Place(Varible("hole"))
Hole   == NameToken("hole")

TreeOf(chain) ==
  Scope(Place(ChainTree(OperandsIn(chain), chain.operators))[chain.place])

TextOf(chain) ==
  LET around == Text(Scope(Places[chain.place]))
  IN  Delimited(FlattenSeq([i \in DOMAIN around |->
        IF around[i] = Hole THEN ChainText(OperandsIn(chain), chain.operators)
                            ELSE <<around[i]>>]))

-----------------------------------------------------------------------------
(* The chains are numbered: the digits choose the operators. *)
Digit(n, weight, base) == (n \div weight) % base

Chosen(n, length, from) ==
  [i \in 1 .. length |-> from[1 + Digit(n, Len(from)^(i - 1), Len(from))]]

Plain ==
  [n \in 1..384 |-> Chain(Chosen(n, 2, MoreOperators), 0, 1 + Digit(n, 64, Len(Places)))]
Long ==
  [n \in 1..512 |-> Chain(Chosen(n, 3, MoreOperators), 0, 1)]
    \o [n \in 1..1296 |-> Chain(Chosen(n, 4, Operators), 0, 1)]
Negative ==
  [n \in 1..864 |-> Chain(Chosen(n, 3, Operators), 1 + Digit(n, 216, 4), 1)]

Readable(chain) ==
  /\ ~ DividesBeforeSum(chain.operators)
  /\ ~ UnequalAfterArithmetic(chain.operators)
  /\ ~ MinusAfterNegative(chain.operators, chain.negative)

(* A tree, and the text of its chain. *)
Written(family) ==
  [i \in DOMAIN family |-> [tree |-> TreeOf(family[i]), text |-> TextOf(family[i])]]

ReadableChains == Written(SelectSeq(Plain \o Long \o Negative, Readable))

(* The chains of which the sum is taken into the divisor. *)
DividedChains == Written(SelectSeq(Long, LAMBDA chain : DividesBeforeSum(chain.operators)))
=============================================================================
