----------------------------- MODULE JsonValues -----------------------------
(***************************************************************************)
(* The run-time values of the bytecode interpreter (class Json).           *)
(*                                                                         *)
(* A value is a tagged record whose payload fields every type shares:      *)
(*   n    the integer, the boolean (0 or 1), or the body chunk of a        *)
(*        function;                                                        *)
(*   s    the string;                                                      *)
(*   ref  the cell of an array or object, or the closure scope of a        *)
(*        function, 0 for a null closure.                                  *)
(* Arrays and objects are held through shared_ptr: copying the value       *)
(* copies ref, so the cell is shared.  A function is copied by value       *)
(* (a new json::Function from the other): the copy has a closure field of  *)
(* its own, and clearing it leaves the other copies alone.                *)
(*                                                                         *)
(* Doubles are left out; every other type of the union is here.            *)
(***************************************************************************)
EXTENDS Integers, Sequences

JsonType == {"Null", "Int", "Bool", "String", "Array", "Object", "Function"}

(* What s can be; the empty string is named because the proof system does  *)
(* not know which strings there are.                                       *)
Text == {""} \cup STRING

Json == [type : JsonType, n : Int, s : Text, ref : Nat]

NullJson         == [type |-> "Null", n |-> 0, s |-> "", ref |-> 0]
IntJson(i)       == [type |-> "Int", n |-> i, s |-> "", ref |-> 0]
BoolJson(b)      == [type |-> "Bool", n |-> IF b THEN 1 ELSE 0, s |-> "", ref |-> 0]
StringJson(str)  == [type |-> "String", n |-> 0, s |-> str, ref |-> 0]
ArrayJson(cell)  == [type |-> "Array", n |-> 0, s |-> "", ref |-> cell]
ObjectJson(cell) == [type |-> "Object", n |-> 0, s |-> "", ref |-> cell]
FunctionJson(body, closure) ==
  [type |-> "Function", n |-> body, s |-> "", ref |-> closure]

(* A value that is a function, or that may transitively contain one.       *)
MightHaveFunction(v) == v.type \in {"Function", "Array", "Object"}

Falsy(v) == v.type = "Null" \/ (v.type \in {"Bool", "Int"} /\ v.n = 0)

-----------------------------------------------------------------------------
(* Arithmetic.                                                             *)

MaxInt32 == 2147483647
InInt32(i) == -MaxInt32 - 1 <= i /\ i <= MaxInt32

Numeric(v) == v.type \in {"Int", "Bool"}

(* C++ integer division truncates towards zero. *)
TruncDiv(a, b) ==
  LET Abs(i) == IF i < 0 THEN -i ELSE i
      q      == Abs(a) \div Abs(b)
  IN  IF (a < 0) = (b < 0) THEN q ELSE -q

(* With a bool on the left the right operand is first cast to bool. *)
RightOperand(l, r) ==
  IF l.type = "Bool" THEN (IF r.n = 0 THEN 0 ELSE 1) ELSE r.n

Calculate(op, a, b) ==
  CASE op = "ADD" -> a + b
    [] op = "SUB" -> a - b
    [] op = "MUL" -> a * b
    [] OTHER      -> TruncDiv(a, b)

(* operator+ - * / : null unless both operands are numbers or booleans, and *)
(* an int even when both are booleans.                                      *)
Arithmetic(op, l, r) ==
  IF Numeric(l) /\ Numeric(r)
  THEN IntJson(Calculate(op, l.n, RightOperand(l, r)))
  ELSE NullJson

(* Division by zero and 32-bit overflow are undefined behaviour in C++. *)
ArithmeticDefined(op, l, r) ==
  Numeric(l) /\ Numeric(r) =>
    /\ op = "DIV" => RightOperand(l, r) # 0
    /\ InInt32(Calculate(op, l.n, RightOperand(l, r)))

-----------------------------------------------------------------------------
(* Comparison.                                                             *)

(* The strings the model uses, in lexicographic order. *)
StringOrder == <<"", "a", "b", "c", "k">>
Rank(str) == CHOOSE i \in DOMAIN StringOrder : StringOrder[i] = str

(* operator==, given the contents of the cells: two arrays or objects are  *)
(* equal when their contents are, and two nulls are not equal.  Two        *)
(* functions are equal when they are the same C++ object: two operands     *)
(* popped off the stack never are, but two elements at the same place of   *)
(* one shared cell are.                                                    *)
Equal(arrays, objects, left, right) ==
  LET eq[p \in Json \X Json \X BOOLEAN] ==
        LET l == p[1]
            r == p[2]
            Same(f, g) ==
              /\ DOMAIN f = DOMAIN g
              /\ \A k \in DOMAIN f : eq[<<f[k], g[k], l.ref = r.ref>>]
        IN  /\ l.type = r.type
            /\ CASE l.type \in {"Int", "Bool"} -> l.n = r.n
                 [] l.type = "String"          -> l.s = r.s
                 [] l.type = "Array"           -> Same(arrays[l.ref], arrays[r.ref])
                 [] l.type = "Object"          -> Same(objects[l.ref], objects[r.ref])
                 [] l.type = "Function"        -> p[3]
                 [] OTHER                      -> FALSE
  IN  eq[<<left, right, FALSE>>]

(* operator<, <=, >, >=: false for every other pair of types.              *)
Ordered(op, l, r) ==
  LET Holds(a, b) == CASE op = "LT"  -> a < b
                       [] op = "LTE" -> a <= b
                       [] op = "GT"  -> a > b
                       [] OTHER      -> a >= b
  IN  /\ l.type = r.type
      /\ \/ l.type \in {"Int", "Bool"} /\ Holds(l.n, r.n)
         \/ l.type = "String" /\ Holds(Rank(l.s), Rank(r.s))

Compare(op, arrays, objects, l, r) ==
  CASE op = "EQ"  -> BoolJson(Equal(arrays, objects, l, r))
    [] op = "NEQ" -> BoolJson(~ Equal(arrays, objects, l, r))
    [] OTHER      -> BoolJson(Ordered(op, l, r))

(* operator<<: what can be told of a value by looking at it.  The text of  *)
(* a function is left out: two functions cannot be told apart.             *)
Shown(arrays, objects, value) ==
  LET shown[v \in Json] ==
        CASE v.type = "Array"    -> <<"Array", [i \in DOMAIN arrays[v.ref] |-> shown[arrays[v.ref][i]]]>>
          [] v.type = "Object"   -> <<"Object", [k \in DOMAIN objects[v.ref] |-> shown[objects[v.ref][k]]]>>
          [] v.type = "Function" -> <<"Function">>
          [] OTHER               -> <<v.type, v.n, v.s>>
  IN  shown[value]

-----------------------------------------------------------------------------
(* The unary operators: NEG negates an int and NOT a bool; every other     *)
(* operand gives null.                                                     *)
Negate(v) == IF v.type = "Int" THEN IntJson(-v.n) ELSE NullJson
Not(v)    == IF v.type = "Bool" THEN BoolJson(v.n = 0) ELSE NullJson
=============================================================================
