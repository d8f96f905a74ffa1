-------------------------- MODULE WalkerProperties --------------------------
(***************************************************************************)
(* What is required of the graphs the tree walker runs, and the            *)
(* correctness properties of the walker.                                   *)
(***************************************************************************)
EXTENDS TreeWalker

CONSTANT
  Meanings   \* what every program means

(* What is required of a control flow graph: it ends at its root, children *)
(* come before their parents, and an expression, a conditional, a function *)
(* and a goto have the nodes their handlers look at.                       *)
NodeOK(n, nodes) ==
  LET node == nodes[n]
  IN  /\ node.str \in Text
      /\ node.int \in Int
      /\ node.children \in Seq(1..(n - 1))
      /\ node.class = "MemberExpression" => Len(node.children) = 2
      /\ node.class \in {"IfStatment", "FunctionStatment"} => node.children # <<>>
      /\ node.class = "IfStatment" => node.condition \in 1..Len(nodes)
      /\ node.class = "Goto" => node.target \in 1..Len(nodes)

GraphOK(nodes) ==
  /\ Len(nodes) \in Nat \ {0}
  /\ DOMAIN nodes = 1..Len(nodes)
  /\ \A n \in 1..Len(nodes) : NodeOK(n, nodes)

ASSUME GraphAssumption == \A p \in Program : GraphOK(Graph[p])

-----------------------------------------------------------------------------

(* A value that exists. *)
ValueOK(v) ==
  /\ v \in Json
  /\ v.type = "Function" =>
       v.ref \in 0..Len(heap.scopes) /\ Nodes[v.n].class = "FunctionStatment"
  /\ v.type = "Array"    => v.ref \in DOMAIN heap.arrays
  /\ v.type = "Object"   => v.ref \in DOMAIN heap.objects

ValuesOK(f) == \A k \in DOMAIN f : ValueOK(f[k])

(* What a pointer leads to was there when it was made. *)
PlaceOK(place) ==
  CASE place.kind = "Scope"  -> place.key \in DOMAIN heap.scopes[place.ref].vars
    [] place.kind = "Array"  -> place.index + 1 \in DOMAIN heap.arrays[place.ref]
    [] place.kind = "Object" -> place.key \in DOMAIN heap.objects[place.ref]
    [] OTHER                 -> place.kind \in {"none", "dangling"}

(* The type invariant. *)
TypeOK ==
  /\ program \in Program
  /\ status \in {"walking", "returned", "thrown", "undefined"}
  /\ dfs \in Seq([node : DOMAIN Nodes, pre : BOOLEAN])
  /\ envs \in Seq(0..Len(heap.scopes))
  /\ \A i \in DOMAIN calls : Nodes[calls[i]].class = "FunctionScope"
  /\ \A i \in DOMAIN args : ValueOK(args[i].value) /\ PlaceOK(args[i].place)
  /\ \A s \in DOMAIN heap.scopes : heap.scopes[s].parent < s /\ ValuesOK(heap.scopes[s].vars)
  /\ \A c \in DOMAIN heap.arrays : ValuesOK(heap.arrays[c])
  /\ \A c \in DOMAIN heap.objects : ValuesOK(heap.objects[c])
  /\ ValueOK(result)

(* The places on the stack of scopes that the entries on their way back    *)
(* stand for: a scope has one, which is its own; a call has two, of which  *)
(* the lower one is the closure it borrows.                                *)
Places ==
  [entry \in Entry |->
     IF entry.pre THEN <<>>
     ELSE CASE Nodes[entry.node].class = "Scope"         -> <<"own">>
            [] Nodes[entry.node].class = "FunctionScope" -> <<"borrowed", "own">>
            [] OTHER                                     -> <<>>]

(* The calls the walk is inside of. *)
OpenCalls ==
  [entry \in Entry |->
     IF ~ entry.pre /\ Nodes[entry.node].class = "FunctionScope" THEN <<entry.node>> ELSE <<>>]

(***************************************************************************)
(* However a scope is left, at its end, by a return out of nested loops    *)
(* and conditionals, or by the goto of a loop, the stack of scopes and the *)
(* stack of calls stay in step with the walk: every scope that was entered *)
(* has its place, and sees the one below it.                               *)
(***************************************************************************)
EnvsMatchWalk ==
  status = "walking" =>
    LET places == Gathered(dfs, Places)
    IN  /\ Len(envs) = Len(places)
        /\ \A i \in DOMAIN envs :
             places[i] = "own" =>
               heap.scopes[envs[i]].parent = (IF i = 1 THEN 0 ELSE envs[i - 1])
        /\ calls = Gathered(dfs, OpenCalls)

(***************************************************************************)
(* Whatever the cycle breaker cuts when a scope is left, the chains of the *)
(* scopes that stay on the stack are as they were.                         *)
(***************************************************************************)
OpenChainsIntact ==
  [][\A i \in DOMAIN envs \cap DOMAIN envs' :
       envs'[i] = envs[i] => Chain(heap'.scopes, envs[i]) = Chain(heap.scopes, envs[i])]_vars

(* When the walk is over, no scopes hold each other in a circle: once the  *)
(* result lets go of them, all of them are freed.                          *)
ScopesReclaimed == status = "returned" => FreedBut({}) = DOMAIN heap.scopes

(* The places a container is held in: a variable, an element, a field or   *)
(* an operand, each as <<where, key, container>>.                          *)
Rooms(h) ==
  ({"Scope"} \X DOMAIN h.scopes) \cup ({"Array"} \X DOMAIN h.arrays)
    \cup ({"Object"} \X DOMAIN h.objects) \cup {<<"Operands", 0>>}

Held(h, operands, room) ==
  CASE room[1] = "Scope"  -> h.scopes[room[2]].vars
    [] room[1] = "Array"  -> h.arrays[room[2]]
    [] room[1] = "Object" -> h.objects[room[2]]
    [] OTHER              -> [i \in DOMAIN operands |-> operands[i].value]

Spots(h, operands) ==
  {spot \in UNION {{<<room, k, Held(h, operands, room)[k]>> : k \in DOMAIN Held(h, operands, room)} :
                   room \in Rooms(h)} :
     spot[3].type \in {"Array", "Object"}}

(* Whatever is assigned, passed, returned and stored: an array or object   *)
(* is in one place, so that no assignment changes what is seen elsewhere.  *)
Separate(h, operands) ==
  \A one, other \in Spots(h, operands) : one[3] = other[3] => one = other

NothingAliased == Separate(heap, args)

(* No array or object is inside of itself, so that copying, comparing,     *)
(* printing and breakCycles, which descend into values, come to an end.    *)
NothingHoldsItself ==
  /\ \A c \in DOMAIN heap.arrays :
       ArrayJson(c) \notin Reachable(heap, Contents(heap, ArrayJson(c)))
  /\ \A c \in DOMAIN heap.objects :
       ObjectJson(c) \notin Reachable(heap, Contents(heap, ObjectJson(c)))

(* What a run shows once it is over. *)
Observed ==
  [output |-> output,
   result |-> IF status = "thrown" THEN <<"thrown">>
              ELSE Shown(heap.arrays, heap.objects, result)]

(* The run was defined, printed what the program means, in that order, and *)
(* returned it.                                                            *)
WalksAsMeant == status # "undefined" /\ Observed = Meanings[program]

(* The tree walker means the same language as the bytecode interpreter:    *)
(* a run that is over was defined, and did what the program means.         *)
SameLanguage == status # "walking" => WalksAsMeant

(* Every program of a family that has no endless loop comes to an end. *)
WalkEnds == <>(status # "walking")
=============================================================================
