------------------------- MODULE LanguageSemantics --------------------------
(***************************************************************************)
(* What a program means: a reference evaluator over syntax trees, with no  *)
(* bytecode, no operand stack, no slots, no call frames and no cycle       *)
(* breaker.  A function closes over the scope it is declared in for good.  *)
(* It is the abstract specification the compiler and the virtual machine   *)
(* are checked against; it translates no code of its own.                  *)
(*                                                                         *)
(* A state of the evaluation is                                            *)
(*   heap    [scopes, arrays, objects], as in the virtual machine          *)
(*   bodies  the function declarations evaluated so far: the n of a        *)
(*           function value is its index here                              *)
(*   env     the current scope                                             *)
(*   output  what was printed                                              *)
(*   signal  "next", "return" or "error"                                   *)
(*   value   of the last expression evaluated, or returned                 *)
(***************************************************************************)
EXTENDS CycleBreaker, SyntaxTree

Yield(sigma, v) == [sigma EXCEPT !.value = v]

Error(sigma) == [sigma EXCEPT !.signal = "error", !.value = NullJson]

WithVars(sigma, scopes) == [sigma EXCEPT !.heap.scopes = scopes]

Declare(sigma, x, v) == WithVars(sigma, Bind(sigma.heap.scopes, sigma.env, x, v))

Assign(sigma, x, v) ==
  LET owner == Owner(sigma.heap.scopes, sigma.env, x)
  IN  WithVars(sigma, Bind(sigma.heap.scopes, IF owner = 0 THEN sigma.env ELSE owner, x, v))

Element(h, container, key) ==
  CASE container.type = "Array" /\ key.n + 1 \in DOMAIN h.arrays[container.ref] ->
         h.arrays[container.ref][key.n + 1]
    [] container.type = "Object" /\ key.s \in DOMAIN h.objects[container.ref] ->
         h.objects[container.ref][key.s]
    [] OTHER -> NullJson

Extended(f, k, v) == [x \in DOMAIN f \cup {k} |-> IF x = k THEN v ELSE f[x]]

Assigned(h, container, key, v) ==
  CASE container.type = "Array" ->
         LET old == h.arrays[container.ref]
         IN  [h EXCEPT !.arrays[container.ref] =
                [i \in DOMAIN old \cup 1..(key.n + 1) |->
                   IF i = key.n + 1 THEN v ELSE IF i \in DOMAIN old THEN old[i] ELSE NullJson]]
    [] container.type = "Object" ->
         [h EXCEPT !.objects[container.ref] = Extended(@, key.s, v)]
    [] OTHER -> h

RECURSIVE Eval(_, _)

(* The nodes in turn: <<the state after the last, the values>>. *)
RECURSIVE EvalList(_, _, _)
EvalList(sigma, nodes, values) ==
  IF nodes = <<>> \/ sigma.signal # "next"
  THEN <<sigma, values>>
  ELSE LET after == Eval(sigma, Head(nodes))
       IN  EvalList(after, Tail(nodes), Append(values, after.value))

EvalArray(sigma, node) ==
  LET items == EvalList(sigma, node.children, <<>>)
  IN  Yield([items[1] EXCEPT !.heap.arrays = Append(@, items[2])],
            ArrayJson(Len(items[1].heap.arrays) + 1))

(* The first of two pairs with the same key stays. *)
EvalObject(sigma, node) ==
  LET pairs  == node.children
      items  == EvalList(sigma, [i \in DOMAIN pairs |-> pairs[i].children[2]], <<>>)
      key(i) == pairs[i].children[1].str
      object == [k \in {key(i) : i \in DOMAIN pairs} |->
                   items[2][CHOOSE i \in DOMAIN pairs :
                              key(i) = k /\ \A j \in 1..(i - 1) : key(j) # k]]
  IN  Yield([items[1] EXCEPT !.heap.objects = Append(@, object)],
            ObjectJson(Len(items[1].heap.objects) + 1))

EvalKey(sigma, key) ==
  IF key.class = "Name" THEN Yield(sigma, StringJson(key.str)) ELSE Eval(sigma, key)

EvalMember(sigma, node) ==
  LET container == Eval(sigma, node.children[1])
      key       == EvalKey(container, node.children[2])
  IN  Yield(key, Element(key.heap, container.value, key.value))

(* The callee runs in a new scope under the one its function closed over.  *)
EvalCall(sigma, node) ==
  LET callee == Eval(sigma, node.children[Len(node.children)])
      given  == EvalList(callee, SubSeq(node.children, 1, Len(node.children) - 1), <<>>)
      before == given[1]
      body   == before.bodies[callee.value.n]
      params == [i \in 1..(Len(body.children) - 2) |-> body.children[i + 1].str]
      bound  == [x \in Range(params) |->
                   given[2][CHOOSE i \in DOMAIN params :
                              params[i] = x /\ \A j \in (i + 1)..Len(params) : params[j] # x]]
      inside == [before EXCEPT
                   !.env = Len(before.heap.scopes) + 1,
                   !.heap.scopes = Append(@, [NewScope(callee.value.ref) EXCEPT !.vars = bound])]
      after  == Eval(inside, body.children[Len(body.children)])
  IN  CASE before.signal # "next" -> before
        [] callee.value.type # "Function" -> Error(before)
        [] OTHER ->
             [after EXCEPT
                !.env = before.env,
                !.value = IF after.signal = "return" THEN @ ELSE NullJson,
                !.signal = IF @ = "error" THEN "error" ELSE "next"]

RECURSIVE EvalWhile(_, _)
EvalWhile(sigma, node) ==
  LET test == Eval(sigma, node.children[1])
      once == Eval(test, node.children[2])
  IN  IF test.signal # "next" \/ Falsy(test.value) THEN test
      ELSE IF once.signal # "next" THEN once
      ELSE EvalWhile(once, node)

EvalIf(sigma, node) ==
  LET test == Eval(sigma, node.children[1])
  IN  CASE test.signal # "next"       -> test
        [] test.signal = "next" /\ ~ Falsy(test.value) -> Eval(test, node.children[2])
        [] test.signal = "next" /\ Falsy(test.value)   ->
             IF Len(node.children) >= 3 THEN Eval(test, node.children[3]) ELSE test

EvalAssigment(sigma, node) ==
  LET target    == node.children[1]
      source    == Eval(sigma, node.children[2])
      container == Eval(sigma, target.children[1])
      key       == EvalKey(container, target.children[2])
      value     == Eval(key, node.children[2])
  IN  CASE target.class = "Name" /\ source.signal # "next" -> source
        [] target.class = "Name" /\ node.str = "LOCAL" -> Declare(source, target.str, source.value)
        [] target.class = "Name" -> Assign(source, target.str, source.value)
        [] value.signal # "next" -> value
        [] OTHER -> [value EXCEPT !.heap = Assigned(@, container.value, key.value, value.value)]

EvalFunction(sigma, node) ==
  Declare([sigma EXCEPT !.bodies = Append(@, node)], node.str,
          FunctionJson(Len(sigma.bodies) + 1, sigma.env))

Eval(sigma, node) ==
  IF sigma.signal # "next" THEN sigma
  ELSE CASE node.class = "F"       -> Yield(sigma, IntJson(node.int))
         [] node.class = "String"  -> Yield(sigma, StringJson(node.str))
         [] node.class \in {"Varible", "Name"} -> Yield(sigma, Read(sigma.heap.scopes, sigma.env, node.str))
         [] node.class = "UnExpr"  ->
              LET operand == Eval(sigma, node.children[1])
              IN  Yield(operand, Negate(operand.value))
         [] node.class = "BinExpr" ->
              LET l == Eval(sigma, node.children[1])
                  r == Eval(l, node.children[2])
              IN  Yield(r, IF node.str \in {"ADD", "SUB", "MUL", "DIV"}
                           THEN Arithmetic(node.str, l.value, r.value)
                           ELSE Compare(node.str, r.heap.arrays, r.heap.objects, l.value, r.value))
         [] node.class = "MemberExpression" -> EvalMember(sigma, node)
         [] node.class = "Array"   -> EvalArray(sigma, node)
         [] node.class = "Object"  -> EvalObject(sigma, node)
         [] node.class = "FunctionCall" -> EvalCall(sigma, node)
         [] node.class = "Scope"   -> EvalList(sigma, node.children, <<>>)[1]
         [] node.class = "PrintStatment" ->
              LET printed == Eval(sigma, node.children[1])
              IN  IF printed.signal # "next" THEN printed
                  ELSE [printed EXCEPT !.output = Append(@, Shown(printed.heap.arrays, printed.heap.objects, printed.value))]
         [] node.class = "ReturnStatment" ->
              LET returned == Eval(sigma, node.children[1])
              IN  IF returned.signal # "next" THEN returned
                  ELSE [returned EXCEPT !.signal = "return"]
         [] node.class = "IfStatment"    -> EvalIf(sigma, node)
         [] node.class = "WhileStatment" -> EvalWhile(sigma, node)
         [] node.class = "VaribleAssigmentStatment" -> EvalAssigment(sigma, node)
         [] node.class = "FunctionStatment" -> EvalFunction(sigma, node)

(* What a run of the program shows: what it prints, and the value it       *)
(* returns or the error it ends in.                                        *)
Meaning(root) ==
  LET final == Eval([heap   |-> [scopes |-> <<NewScope(0)>>, arrays |-> <<>>, objects |-> <<>>],
                     bodies |-> <<>>,
                     env    |-> 1,
                     output |-> <<>>,
                     signal |-> "next",
                     value  |-> NullJson], root)
  IN  [output |-> final.output,
       result |-> CASE final.signal = "return" -> Shown(final.heap.arrays, final.heap.objects, final.value)
                    [] final.signal = "next"   -> Shown(<<>>, <<>>, NullJson)
                    [] OTHER                   -> <<"thrown">>]
=============================================================================
